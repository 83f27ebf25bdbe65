----------------------------- MODULE MCUsbStack -----------------------------
(* UsbStack with the PIUIO and the PIUBTN, and a real board of the PIUIO. *)
EXTENDS UsbStack

CONSTANTS piuio, piubtn
=============================================================================
