--------------------------------- MODULE UsbFix ---------------------------------
(***************************************************************************)
(* The drives of the players in Pump Pro, hook/propatch/usb-fix.c: the     *)
(* game reads the link of each name in /sys/block and takes the second to  *)
(* last part of the path for the bus and port of a player.  The hook reads *)
(* the link as the kernel has it today, and shows the old form of it with  *)
(* the port that Static.ini has for the player whose port it is.  A path   *)
(* is the sequence of its parts; those with a bus and a port are strings   *)
(* like "2-1", whatever follows the port.                                  *)
(***************************************************************************)
EXTENDS Integers, Sequences, SequencesExt

CONSTANTS
  Disks,          \* the kernel's names, in its order
  BusPorts,       \* what reads as a bus and a port
  Sockets,        \* where a drive can be: [at, bridge, hub, other]
  FixOptions      \* the three options as read, NoDrive for one that is missing
CONSTANT NoDrive

\* What is before a drive's place in a path does not read as one.
ASSUME SocketsArePlaces ==
  /\ NoDrive \notin Sockets /\ NoDrive \notin BusPorts
  /\ {"device", "usb"} \cap BusPorts = {}
  /\ \A s \in Sockets :
       /\ s.bridge \in Nat /\ s.hub \in Nat /\ s.other \in BOOLEAN
       /\ ~s.other => s.at \in BusPorts

VARIABLES
  fix_options,    \* what the options ask for
  fix,            \* [enabled, names, ports]: the statics of the hook
  plugged,        \* by name, the socket of the drive, or NoDrive
  shown           \* what the game made of its last look: [disk, player, socket]

vars_usbfix == <<fix, fix_options, plugged, shown>>

StaticIni == <<"1-2", "1-1">>
Off == [enabled |-> FALSE, names |-> {}, ports |-> <<>>]

\* Two names and two ports; with anything else the hook stays off, whatever was
\* taken over by then.
propatch_usb_fix_init(o) ==
  IF NoDrive \in {o.dev_nodes, o.p1, o.p2} \/ Cardinality(o.dev_nodes) # 2 THEN Off
  ELSE [enabled |-> {o.p1, o.p2} \subseteq BusPorts, names |-> o.dev_nodes,
        ports |-> <<o.p1, o.p2>>]

UsbFixInit ==
  /\ fix_options \in FixOptions
  /\ fix = propatch_usb_fix_init(fix_options)
  /\ plugged = [d \in ToSet(Disks) |-> NoDrive]
  /\ shown = [disk |-> Disks[1], player |-> 0, socket |-> NoDrive]

\* The kernel's link of a name: each bridge of the bus and each hub is a part
\* more, and a drive that is not on USB has fewer.
BlockLink(disk) ==
  LET s == plugged[disk]
      scsi == <<"host", "target", "lun", "block", disk>>
      pci == <<"..", "devices", "pci", "device">>
  IN IF s.other THEN pci \o <<"ata">> \o scsi
     ELSE pci \o [i \in 1 .. s.bridge |-> "device"] \o <<"usb", s.at>>
              \o [i \in 1 .. s.hub |-> s.at] \o <<s.at>> \o scsi

HasBusPort(part) == part \in BusPorts
\* Mutation: the bus and port are taken from the sixth part.
FoundBusPort_Fixed(parts) == IF HasBusPort(parts[6]) THEN parts[6] ELSE NoDrive
\* The first bus and port between the head and the tail of the path.
FoundBusPort(parts) ==
  LET k == SelectInSubSeq(parts, 5, Len(parts) - 3, HasBusPort)
  IN IF k = 0 THEN NoDrive ELSE parts[k]

\* The path the game gets for /sys/block/<disk>/device, <<>> for none.
propatch_usb_fix_readlink(disk) ==
  LET parts == BlockLink(disk)
      count == Len(parts)
      at == FoundBusPort(parts)
      players == {i \in 1 .. 2 : fix.ports[i] = at}
      first == IF 1 \in players THEN 1 ELSE 2
  IN CASE plugged[disk] = NoDrive -> <<>>
       [] plugged[disk] # NoDrive /\ (~fix.enabled \/ disk \notin fix.names) -> parts
       [] plugged[disk] # NoDrive /\ fix.enabled /\ disk \in fix.names ->
            IF \/ count \notin 12 .. 13 \/ parts[1] # ".." \/ parts[2] # "devices"
               \/ parts[count - 1] # "block" \/ at = NoDrive
            THEN <<>>
            ELSE IF players = {} THEN parts
            ELSE SubSeq(parts, 1, 5) \o <<StaticIni[first], StaticIni[first]>>

\* The game looks at one name.
GameLooks(disk) ==
  LET path == propatch_usb_fix_readlink(disk)
      part == IF Len(path) > 1 THEN path[Len(path) - 1] ELSE "none"
  IN
  /\ shown' = [disk |-> disk, socket |-> plugged[disk],
               player |-> IF \E i \in 1 .. 2 : part = StaticIni[i]
                          THEN CHOOSE i \in 1 .. 2 : part = StaticIni[i] ELSE 0]
  /\ UNCHANGED <<fix, fix_options, plugged>>

\* A drive gets the first name that is free.
PlugInDrive(socket) ==
  LET free(disk) == plugged[disk] = NoDrive
      k == SelectInSeq(Disks, free)
  IN
  /\ k # 0 /\ (socket.hub = 0 => \A d \in DOMAIN plugged : plugged[d] # socket)
  /\ plugged' = [plugged EXCEPT ![Disks[k]] = socket]
  /\ UNCHANGED <<fix, fix_options, shown>>
PullDrive(disk) ==
  /\ plugged[disk] # NoDrive
  /\ plugged' = [plugged EXCEPT ![disk] = NoDrive]
  /\ UNCHANGED <<fix, fix_options, shown>>

UsbFixNext ==
  \/ \E d \in ToSet(Disks) : GameLooks(d) \/ PullDrive(d)
  \/ \E socket \in Sockets : PlugInDrive(socket)
UsbFixSpec == UsbFixInit /\ [][UsbFixNext]_vars_usbfix
-----------------------------------------------------------------------------
\* Whatever order drives are plugged in and pulled, and however deep the port is
\* in the machine: a drive with one of the two names shows up on the side of the
\* player whose port it is in, up to one bridge or one hub, and no drive in
\* another port, or with another name, is ever a player's.
DrivesAreTheirPlayers ==
  LET s == shown.socket
      ports == <<fix_options.p1, fix_options.p2>>
      at == {i \in 1 .. 2 : s # NoDrive /\ ~s.other /\ ports[i] = s.at}
      named == fix_options.dev_nodes # NoDrive /\ shown.disk \in fix_options.dev_nodes
  IN IF shown.player # 0 THEN named /\ shown.player \in at
     ELSE ~(fix.enabled /\ named /\ at # {} /\ s.bridge + s.hub <= 1)
=============================================================================
