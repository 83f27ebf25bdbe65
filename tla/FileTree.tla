------------------------------- MODULE FileTree -------------------------------
(* What a game sees of its files, by the names it uses: a call that it has    *)
(* asked for creates, fills, renames or removes the file it names, and no     *)
(* other; nothing else changes them.                                          *)
CONSTANTS Threads, Names

VARIABLES tree,   \* what is under each name: "absent", "partial" or "complete"
          asked   \* the call that each thread is in; threads come and go

Asks(t, op) == asked[t].op = op

Init == tree \in [Names -> {"absent", "partial", "complete"}]

\* Opening a file to write creates it or empties it.
Create(t) == Asks(t, "OPEN") /\ tree' = [tree EXCEPT ![asked[t].path] = "partial"]
Fill(t) ==
  /\ Asks(t, "CLOSE") /\ asked[t].path \in Names /\ tree[asked[t].path] = "partial"
  /\ tree' = [tree EXCEPT ![asked[t].path] = "complete"]
Rename(t) ==
  /\ Asks(t, "RENAME") /\ tree[asked[t].path] # "absent"
  /\ tree' = [tree EXCEPT ![asked[t].to] = tree[asked[t].path],
                          ![asked[t].path] = IF asked[t].to = asked[t].path THEN @ ELSE "absent"]
Remove(t) == Asks(t, "REMOVE") /\ tree' = [tree EXCEPT ![asked[t].path] = "absent"]

Next ==
  \/ UNCHANGED tree
  \/ \E t \in Threads : Create(t) \/ Fill(t) \/ Rename(t) \/ Remove(t)

Spec == Init /\ [][Next]_<<tree, asked>>
=============================================================================
