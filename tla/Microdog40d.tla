---------------------------- MODULE Microdog40d ----------------------------
(* The daemon that stands in for the dongle of a game.  It is a thread of the *)
(* game's process that answers on a socket with a fixed path in the file      *)
(* system, /var/run/microdog/u.daemon.  The path outlives the process, and a  *)
(* process that inherits the hook library runs a daemon of its own on the     *)
(* same path: the state has one daemon per process, and one path.             *)
Proc == {"game", "child"}   \* the processes that may run a daemon

VARIABLES daemon,   \* how far the daemon of each process is
          path,     \* whose socket the path leads to: a process, nothing or
                    \* "stale", a socket whose process is gone
          root      \* whether the processes run as root

dogVars == <<daemon, path, root>>

DogInit ==
  /\ daemon = [p \in Proc |-> "off"]
  /\ path \in {"none", "stale"}
  /\ root \in BOOLEAN

\* patch_microdog40_init starts the thread, and nobody waits for it.
patch_microdog40_init(p) == daemon' = [daemon EXCEPT ![p] = "started"]

Goes(p, from, to) == daemon[p] = from /\ daemon' = [daemon EXCEPT ![p] = to]

\* Mutation: only root goes on, anybody else waits for the path to go away.
unlink_Waits(p) ==
  /\ root
  /\ Goes(p, "started", "unlinked")
  /\ path' = "none"
  /\ UNCHANGED root
\* Mutation: the path is not removed before the bind.
unlink_Never(p) == Goes(p, "started", "unlinked") /\ UNCHANGED <<path, root>>
\* The path is removed, whatever it leads to.
unlink(p) ==
  /\ Goes(p, "started", "unlinked")
  /\ path' = IF root THEN "none" ELSE path
  /\ UNCHANGED root

\* No socket, or no timeout for it: the thread ends, and the path stays away.
socket_fails(p) == Goes(p, "unlinked", "ended") /\ UNCHANGED <<path, root>>

\* Bind fails if there is something at the path already.
bind(p) ==
  /\ root /\ path = "none"
  /\ Goes(p, "unlinked", "receiving")
  /\ path' = p
  /\ UNCHANGED root
\* Mutation: the result of bind is not looked at.
bind_fails_Unseen(p) ==
  /\ ~root \/ path # "none"
  /\ Goes(p, "unlinked", "receiving")
  /\ UNCHANGED <<path, root>>
bind_fails(p) ==
  /\ ~root \/ path # "none"
  /\ Goes(p, "unlinked", "unbound")
  /\ UNCHANGED <<path, root>>

\* Mutation: the thread closes its socket, and leaves the path.
recvfrom_fails_Closes(p) == Goes(p, "receiving", "ended") /\ UNCHANGED <<path, root>>
\* An error other than a timeout: the thread ends without closing the socket or
\* removing the path.
recvfrom_fails(p) == Goes(p, "receiving", "deaf") /\ UNCHANGED <<path, root>>

\* The process ends, and with it the thread and the socket.  The loop's own
\* clean-up never runs: no hook library calls patch_microdog40_shutdown.
Dies(p) ==
  /\ daemon' = [daemon EXCEPT ![p] = "off"]
  /\ path' = IF path = p THEN "stale" ELSE path

sec_microdog40d_run(p) ==
  \/ unlink(p) \/ socket_fails(p) \/ bind(p) \/ bind_fails(p) \/ recvfrom_fails(p)

=============================================================================
