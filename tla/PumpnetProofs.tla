---------------------------- MODULE PumpnetProofs ----------------------------
(***************************************************************************)
(* Pumpnet implements ProfileServer, for every set of threads and files,   *)
(* every number of attempts and every bound of the calls.                  *)
(*                                                                         *)
(* PumpInv is inductive.  It says where the requests on the wire come from *)
(* (Wire), so that a request that outlives its call counts as a late put   *)
(* and never as one of the next call, and what an http code of 200 in the  *)
(* locals of a thread testifies (Witness): the put has reached the server, *)
(* or the body is a content that the file had during the call.             *)
(***************************************************************************)
EXTENDS Pumpnet, TLAPS

\* A call is under way unless its thread is idle, and it has seen what the store
\* has of its file.
InCall == \A t \in Threads :
            /\ call[t] = NoCall <=> pc[t] = "idle"
            /\ call[t] # NoCall => server[call[t].file] \in call[t].seen

\* A request carries the number of a call that has begun, and what the call
\* asks for as long as it is under way.
Wire == \A r \in wire : /\ r.nr <= calls[r.from]
                        /\ IsOfCall(r, r.from) => Contents(r) = Contents(call[r.from])

\* What the answer with code 200, and the content in it, testify of a call.
Testified(c, data) == IF c.data # NoData THEN c.done ELSE data \in c.seen

Witness ==
  \A t \in Threads :
    /\ answer[t].code = OK => pc[t] = "wait" /\ Testified(call[t], answer[t].data)
    /\ http_code[t] = OK => pc[t] = "check"
    /\ http_code[t] = OK /\ success[t] => Testified(call[t], body[t])

PumpInv == TypeOK /\ InCall /\ Wire /\ Witness

-----------------------------------------------------------------------------
(* The invariant                                                            *)

LEMMA InitPump == Init => PumpInv
BY RetryCountIsPositive
   DEF Init, PumpInv, TypeOK, InCall, Wire, Witness, Answers, None, Codes, OK

\* No code but 200 testifies anything.
LEMMA CodesApart == 0 # OK /\ OK \notin ServerErrors /\ OK \in Codes /\ 0 \in Codes
                    /\ ServerErrors \subseteq Codes
BY DEF OK, ServerErrors, PRECONDITION_FAILED, Codes

LEMMA BeginKeeps ==
  ASSUME PumpInv, NEW t \in Threads, NEW file \in Files,
         NEW data \in Data \cup {NoData}, Begin(t, file, data)
  PROVE  PumpInv'
<1> USE DEF PumpInv
<1> DEFINE new == [file |-> file, data |-> data, done |-> FALSE,
                   seen |-> {server[file]}]
<1>1. /\ pc[t] = "idle" /\ pc' = [pc EXCEPT ![t] = "attempt"]
      /\ calls' = [calls EXCEPT ![t] = @ + 1]
      /\ call' = [call EXCEPT ![t] = new]
      /\ UNCHANGED <<server, wire, answer, i, http_code, success, body, result>>
  BY DEF Begin, Goto
<1>2. new \in Calls
  BY DEF Calls, TypeOK
<1>3. TypeOK'
  BY <1>1, <1>2 DEF TypeOK
<1>4. InCall'
  BY <1>1, <1>2, NoCallIsNoCall DEF InCall, TypeOK, Calls
<1>5. Wire'
  BY <1>1 DEF Wire, IsOfCall, TypeOK, Requests
<1>6. Witness'
  BY <1>1 DEF Witness, TypeOK
<1> QED
  BY <1>3, <1>4, <1>5, <1>6

LEMMA SendKeeps ==
  ASSUME PumpInv, NEW t \in Threads, Send(t)
  PROVE  PumpInv'
<1> USE DEF PumpInv
<1> DEFINE new == [from |-> t, nr |-> calls[t], try |-> i[t],
                   file |-> call[t].file, data |-> call[t].data]
<1>1. /\ pc[t] = "attempt" /\ pc' = [pc EXCEPT ![t] = "wait"]
      /\ wire' = wire \cup {new}
      /\ UNCHANGED <<server, answer, i, http_code, success, body, calls, call,
                     result>>
  BY DEF Send, Goto
<1>2. call[t] \in Calls
  BY <1>1 DEF InCall, TypeOK
<1>3. TypeOK'
  BY <1>1, <1>2 DEF TypeOK, Requests, Calls
<1>4. InCall'
  BY <1>1 DEF InCall, TypeOK
<1>5. Wire'
  <2> SUFFICES ASSUME NEW r \in wire'
               PROVE  /\ r.nr <= calls[r.from]
                      /\ IsOfCall(r, r.from)' => Contents(r) = Contents(call[r.from])
    BY <1>1 DEF Wire, Contents
  <2>1. CASE r = new
    BY <1>1, <2>1 DEF Contents, TypeOK
  <2>2. CASE r \in wire
    BY <1>1, <2>2 DEF Wire, IsOfCall, Requests, TypeOK
  <2> QED
    BY <1>1, <2>1, <2>2
<1>6. Witness'
  BY <1>1 DEF Witness, TypeOK
<1> QED
  BY <1>3, <1>4, <1>5, <1>6

\* A step within a call that neither sends nor ends it: what matters is that it
\* leaves the calls, the requests and the store alone.
LEMMA NoAnswerKeeps ==
  ASSUME PumpInv, NEW t \in Threads, NoAnswer(t)
  PROVE  PumpInv'
<1> USE DEF PumpInv
<1>1. /\ pc[t] \in {"attempt", "wait"} /\ pc' = [pc EXCEPT ![t] = "check"]
      /\ http_code' = [http_code EXCEPT ![t] = 0]
      /\ success' = [success EXCEPT ![t] = FALSE]
      /\ answer' = [answer EXCEPT ![t] = None]
      /\ UNCHANGED <<server, wire, i, body, calls, call, result>>
  BY DEF NoAnswer
<1>2. None \in Answers /\ None.code # OK
  BY CodesApart DEF None, Answers
<1>3. TypeOK'
  BY <1>1, <1>2, CodesApart DEF TypeOK
<1>4. InCall'
  BY <1>1 DEF InCall, TypeOK
<1>5. Wire'
  BY <1>1 DEF Wire, IsOfCall, TypeOK, Requests
<1>6. Witness'
  BY <1>1, <1>2, CodesApart DEF Witness, TypeOK
<1> QED
  BY <1>3, <1>4, <1>5, <1>6

LEMMA AnsweredKeeps ==
  ASSUME PumpInv, NEW t \in Threads, NEW complete \in BOOLEAN, Answered(t, complete)
  PROVE  PumpInv'
<1> USE DEF PumpInv
<1>1. /\ pc[t] = "wait" /\ pc' = [pc EXCEPT ![t] = "check"]
      /\ http_code' = [http_code EXCEPT ![t] = answer[t].code]
      /\ success' = [success EXCEPT ![t] = complete]
      /\ body' = [body EXCEPT ![t] = IF complete THEN answer[t].data ELSE @]
      /\ answer' = [answer EXCEPT ![t] = None]
      /\ UNCHANGED <<server, wire, i, calls, call, result>>
  BY DEF Answered, Goto
<1>2. None \in Answers /\ None.code # OK
  BY CodesApart DEF None, Answers
<1>3. TypeOK'
  BY <1>1, <1>2 DEF TypeOK, Answers
<1>4. InCall'
  BY <1>1 DEF InCall, TypeOK
<1>5. Wire'
  BY <1>1 DEF Wire, IsOfCall, TypeOK, Requests
<1>6. Witness'
  <2> SUFFICES ASSUME NEW u \in Threads
               PROVE  /\ answer'[u].code = OK =>
                           pc'[u] = "wait" /\ Testified(call[u], answer'[u].data)
                      /\ http_code'[u] = OK => pc'[u] = "check"
                      /\ http_code'[u] = OK /\ success'[u] =>
                           Testified(call[u], body'[u])
    BY <1>1 DEF Witness, Testified
  <2>1. CASE u = t
    BY <1>1, <1>2, <2>1 DEF Witness, TypeOK, Testified
  <2>2. CASE u # t
    BY <1>1, <2>2 DEF Witness, TypeOK
  <2> QED
    BY <2>1, <2>2
<1> QED
  BY <1>3, <1>4, <1>5, <1>6

LEMMA RetryKeeps ==
  ASSUME PumpInv, NEW t \in Threads, Retry(t)
  PROVE  PumpInv'
<1> USE DEF PumpInv
<1>1. /\ pc[t] = "check" /\ pc' = [pc EXCEPT ![t] = "attempt"]
      /\ i[t] + 1 < RETRY_COUNT_ON_ERROR /\ i' = [i EXCEPT ![t] = @ + 1]
      /\ http_code' = [http_code EXCEPT ![t] = 0]
      /\ success' = [success EXCEPT ![t] = FALSE]
      /\ UNCHANGED <<server, wire, answer, body, calls, call, result>>
  BY DEF Retry, Goto
<1>3. TypeOK'
  BY <1>1, CodesApart, RetryCountIsPositive DEF TypeOK
<1>4. InCall'
  BY <1>1 DEF InCall, TypeOK
<1>5. Wire'
  BY <1>1 DEF Wire, IsOfCall, TypeOK, Requests
<1>6. Witness'
  BY <1>1, CodesApart DEF Witness, TypeOK
<1> QED
  BY <1>3, <1>4, <1>5, <1>6

\* What the caller is given is a content that the file had during the call, if it
\* is one at all.
LEMMA ReturnKeeps ==
  ASSUME PumpInv, NEW t \in Threads, Return(t)
  PROVE  PumpInv'
<1> USE DEF PumpInv
<1> DEFINE given == IF ~Succeeded(t) THEN Failed
                    ELSE IF call[t].data # NoData THEN Saved ELSE body[t]
<1>1. /\ pc[t] = "check" /\ pc' = [pc EXCEPT ![t] = "idle"]
      /\ result' = [result EXCEPT ![t] = given]
      /\ call' = [call EXCEPT ![t] = NoCall]
      /\ i' = [i EXCEPT ![t] = 0]
      /\ http_code' = [http_code EXCEPT ![t] = 0]
      /\ success' = [success EXCEPT ![t] = FALSE]
      /\ body' = [body EXCEPT ![t] = NoData]
      /\ UNCHANGED <<server, wire, answer, calls>>
  BY DEF Return, Goto
<1>2. given \in Data \cup {Saved, Failed}
  BY <1>1 DEF Succeeded, Witness, Testified, TypeOK, InCall, Calls
<1>3. TypeOK'
  BY <1>1, <1>2, CodesApart, RetryCountIsPositive DEF TypeOK
<1>4. InCall'
  BY <1>1 DEF InCall, TypeOK
<1>5. Wire'
  BY <1>1 DEF Wire, IsOfCall, TypeOK, Requests
<1>6. Witness'
  BY <1>1, CodesApart DEF Witness, TypeOK
<1> QED
  BY <1>3, <1>4, <1>5, <1>6

\* What an answer changes: nothing, or what the thread finds that waits for it.
LEMMA ReplyAnswers ==
  ASSUME PumpInv, NEW r \in wire, NEW code \in Codes, Reply(r, code)
  PROVE  /\ answer' \in [Threads -> Answers]
         /\ \A t \in Threads :
              answer'[t] # answer[t] =>
                /\ t = r.from /\ IsOfCall(r, t) /\ pc[t] = "wait"
                /\ answer'[t].code = code
                /\ code = OK => answer'[t].data = server[r.file]
<1> DEFINE new == [code |-> code, data |-> IF code = OK THEN server[r.file] ELSE NoData]
<1>1. r.from \in Threads /\ r.file \in Files
  BY DEF PumpInv, TypeOK, Requests
<1>2. new \in Answers
  BY <1>1 DEF PumpInv, TypeOK, Answers
<1>3. CASE Awaited(r)
  <2>1. answer' = [answer EXCEPT ![r.from] = new]
    BY <1>3 DEF Reply
  <2>2. \A t \in Threads : answer'[t] = IF t = r.from THEN new ELSE answer[t]
    BY <2>1 DEF PumpInv, TypeOK
  <2>3. new.code = code /\ (code = OK => new.data = server[r.file])
    OBVIOUS
  <2> QED
    BY <1>1, <1>2, <1>3, <2>1, <2>2, <2>3 DEF PumpInv, TypeOK, Awaited
<1>4. CASE ~Awaited(r)
  BY <1>4 DEF Reply, PumpInv, TypeOK
<1> QED
  BY <1>3, <1>4

\* The calls under way after a put of r has been served.
LEMMA PutIsSeen ==
  ASSUME PumpInv, NEW r \in wire, ServePut(r)
  PROVE  /\ r.file \in Files /\ r.data \in Data /\ r.data # NoData
         /\ server' = [server EXCEPT ![r.file] = r.data]
         /\ call' \in [Threads -> Calls \cup {NoCall}]
         /\ \A t \in Threads :
              IF call[t] # NoCall /\ call[t].file = r.file
              THEN /\ call'[t] # NoCall
                   /\ call'[t].file = call[t].file /\ call'[t].data = call[t].data
                   /\ call'[t].seen = call[t].seen \cup {r.data}
                   /\ call'[t].done = (call[t].done \/ IsOfCall(r, t))
              ELSE call'[t] = call[t]
<1>1. r.file \in Files /\ r.data \in Data /\ r.data # NoData
  BY DEF ServePut, PumpInv, TypeOK, Requests
<1>2. \A t \in Threads :
        IF pc[t] # "idle" /\ call[t].file = r.file
        THEN call'[t] = [call[t] EXCEPT !.seen = @ \cup {r.data},
                                        !.done = @ \/ IsOfCall(r, t)]
        ELSE call'[t] = call[t]
  BY DEF ServePut
<1>3. \A t \in Threads : call[t] = NoCall <=> pc[t] = "idle"
  BY DEF PumpInv, InCall
<1>4. \A t \in Threads : call[t] \in Calls \cup {NoCall}
  BY DEF PumpInv, TypeOK
<1>5. ASSUME NEW t \in Threads
      PROVE  /\ call'[t] \in Calls \cup {NoCall}
             /\ IF call[t] # NoCall /\ call[t].file = r.file
                THEN /\ call'[t] # NoCall
                     /\ call'[t].file = call[t].file /\ call'[t].data = call[t].data
                     /\ call'[t].seen = call[t].seen \cup {r.data}
                     /\ call'[t].done = (call[t].done \/ IsOfCall(r, t))
                ELSE call'[t] = call[t]
  <2>1. CASE call[t] # NoCall /\ call[t].file = r.file
    <3>1. call[t] \in Calls
      BY <1>4, <2>1
    <3>2. call'[t] = [call[t] EXCEPT !.seen = @ \cup {r.data},
                                     !.done = @ \/ IsOfCall(r, t)]
      BY <1>2, <1>3, <2>1
    <3>3. IsOfCall(r, t) \in BOOLEAN
      BY DEF IsOfCall
    <3>d. (call[t].done \/ IsOfCall(r, t)) \in BOOLEAN
      OBVIOUS
    <3>e. call[t].seen \cup {r.data} \in SUBSET Data
      BY <1>1, <3>1 DEF Calls
    <3>4. call'[t] \in Calls
      BY <3>1, <3>2, <3>d, <3>e DEF Calls
    <3>5. /\ call'[t].file = call[t].file /\ call'[t].data = call[t].data
          /\ call'[t].seen = call[t].seen \cup {r.data}
          /\ call'[t].done = (call[t].done \/ IsOfCall(r, t))
      BY <3>1, <3>2 DEF Calls
    <3> QED
      BY <2>1, <3>4, <3>5, NoCallIsNoCall DEF Calls
  <2>2. CASE ~(call[t] # NoCall /\ call[t].file = r.file)
    BY <1>2, <1>3, <1>4, <2>2
  <2> QED
    BY <2>1, <2>2
<1>6. call' = [t \in Threads |-> call'[t]]
  BY DEF ServePut
<1> QED
  BY <1>1, <1>5, <1>6 DEF ServePut

LEMMA ServeKeeps ==
  ASSUME PumpInv, NEW r \in wire, Serve(r)
  PROVE  PumpInv'
<1> USE DEF PumpInv
<1>1. /\ wire' = wire \ {r}
      /\ UNCHANGED <<pc, i, http_code, success, body, calls, result>>
  BY DEF Serve
<1>2. PICK code \in Codes : /\ Reply(r, code)
                            /\ \/ ServePut(r) /\ code = OK
                               \/ ServeGet(r) /\ code = OK
                               \/ UNCHANGED <<server, call>> /\ code # OK
  BY CodesApart DEF Serve, ServePut, ServeGet, Refuse
<1>3. r.from \in Threads /\ r.file \in Files
      /\ (IsOfCall(r, r.from) => Contents(r) = Contents(call[r.from]))
  BY DEF TypeOK, Requests, Wire
<1>4. IsOfCall(r, r.from) => /\ call[r.from] # NoCall
                             /\ call[r.from].file = r.file
                             /\ call[r.from].data = r.data
  BY <1>3 DEF Contents, IsOfCall, InCall
<1>5. TypeOK' /\ InCall' /\ Wire' /\ Witness'
  <2>1. CASE ServePut(r) /\ code = OK
    <3>1. TypeOK'
      BY <1>1, <1>2, <2>1, ReplyAnswers, PutIsSeen DEF TypeOK
    <3>2. InCall'
      <4> SUFFICES ASSUME NEW t \in Threads
                   PROVE  /\ call'[t] = NoCall <=> pc[t] = "idle"
                          /\ call'[t] # NoCall => server'[call'[t].file] \in call'[t].seen
        BY <1>1 DEF InCall
      <4>1. CASE call[t] = NoCall
        BY <2>1, <4>1, PutIsSeen DEF InCall
      <4>2. CASE call[t] # NoCall
        <5>1. call[t].file \in Files /\ server \in [Files -> Data]
          BY <4>2 DEF TypeOK, Calls
        <5> QED
          BY <2>1, <4>2, <5>1, PutIsSeen DEF InCall
      <4> QED
        BY <4>1, <4>2
    <3>3. Wire'
      BY <1>1, <2>1, PutIsSeen, ZenonT(60) DEF Wire, IsOfCall, Contents, InCall, TypeOK, Requests
    <3>4. Witness'
      <4>1. ASSUME NEW t \in Threads, NEW data, Testified(call[t], data)
            PROVE  Testified(call'[t], data)
        BY <2>1, <4>1, PutIsSeen DEF Testified
      <4>2. IsOfCall(r, r.from) => \A data : Testified(call'[r.from], data)
        BY <1>3, <1>4, <2>1, PutIsSeen DEF Testified
      <4> QED
        BY <1>1, <1>2, <4>1, <4>2, ReplyAnswers DEF Witness
    <3> QED
      BY <3>1, <3>2, <3>3, <3>4
  <2>2. CASE UNCHANGED <<server, call>> /\ (code # OK \/ ServeGet(r))
    <3>1. TypeOK'
      BY <1>1, <1>2, <2>2, ReplyAnswers DEF TypeOK
    <3>2. InCall'
      BY <1>1, <2>2 DEF InCall
    <3>3. Wire'
      BY <1>1, <2>2 DEF Wire, IsOfCall
    <3>4. Witness'
      <4>1. ASSUME code = OK, IsOfCall(r, r.from), ServeGet(r)
            PROVE  Testified(call[r.from], server[r.file])
        BY <1>3, <1>4, <4>1 DEF Testified, InCall, ServeGet
      <4> QED
        BY <1>1, <1>2, <2>2, <4>1, ReplyAnswers DEF Witness
    <3> QED
      BY <3>1, <3>2, <3>3, <3>4
  <2> QED
    BY <1>2, <2>1, <2>2 DEF ServeGet
<1> QED
  BY <1>5

LEMMA PumpStep == PumpInv /\ [Next]_vars => PumpInv'
<1> SUFFICES ASSUME PumpInv, [Next]_vars
             PROVE  PumpInv'
  OBVIOUS
<1>1. CASE UNCHANGED vars
  BY <1>1 DEF vars, PumpInv, TypeOK, InCall, Wire, Witness, IsOfCall
<1>2. ASSUME NEW t \in Threads, Attempt(t)
      PROVE  PumpInv'
  BY <1>2, SendKeeps, NoAnswerKeeps, AnsweredKeeps DEF Attempt
<1>3. ASSUME NEW t \in Threads, LoopStep(t)
      PROVE  PumpInv'
  BY <1>3, RetryKeeps, ReturnKeeps DEF LoopStep
<1> QED
  BY <1>1, <1>2, <1>3, BeginKeeps, ServeKeeps DEF Next

(* What a call of pumpnet_lib_get or pumpnet_lib_put knows is true: a code of *)
(* 200 in its locals comes from an answer to a request of that very call, and *)
(* none of the requests on the wire belongs to a call that is yet to come.    *)
THEOREM PumpInvariant == Spec => []PumpInv
BY InitPump, PumpStep, PTL DEF Spec

-----------------------------------------------------------------------------
(* The refinement: a call begins, is applied and returns as in the abstract  *)
(* store; sending, waiting and trying again are not seen there.              *)

Late == {Contents(r) : r \in LatePuts}

LEMMA BeginRefines ==
  ASSUME PumpInv, NEW t \in Threads, NEW file \in Files,
         NEW data \in Data \cup {NoData}, Begin(t, file, data)
  PROVE  Store!Next
<1>1. /\ pc[t] = "idle" /\ call[t] = NoCall
      /\ pc' = [pc EXCEPT ![t] = "attempt"]
      /\ calls' = [calls EXCEPT ![t] = @ + 1]
      /\ UNCHANGED <<server, wire, result>>
  BY DEF Begin, Goto, PumpInv, InCall
<1>2. \A r \in wire : IsOfCall(r, r.from)' <=> IsOfCall(r, r.from)
  BY <1>1 DEF IsOfCall, PumpInv, TypeOK, Wire, Requests
<1>3. Late' = Late
  BY <1>1, <1>2 DEF Late, LatePuts, Contents
<1>4. Store!Begin(t, file, data)
  BY <1>1, <1>3 DEF Begin, Store!Begin, Store!Busy, Late
<1> QED
  BY <1>4 DEF Store!Next

\* Between its begin and its return a call keeps the requests it has sent, and
\* whatever it does otherwise, no put becomes late.
LEMMA AttemptRefines ==
  ASSUME PumpInv, NEW t \in Threads, Attempt(t) \/ Retry(t)
  PROVE  UNCHANGED <<server, call, Late, result>>
<1>1. /\ pc[t] # "idle" /\ pc'[t] # "idle"
      /\ \A u \in Threads \ {t} : pc'[u] = pc[u]
      /\ UNCHANGED <<server, call, calls, result>>
  BY DEF Attempt, Send, NoAnswer, Answered, Retry, Goto, PumpInv, TypeOK
<1>2. wire' = wire \/ \E r : /\ wire' = wire \cup {r}
                             /\ r.from = t /\ r.nr = calls[t]
  BY DEF Attempt, Send, NoAnswer, Answered, Retry
<1>3. \A r : r.from \in Threads => (IsOfCall(r, r.from)' <=> IsOfCall(r, r.from))
  BY <1>1 DEF IsOfCall
<1>4. \A r \in wire : r.from \in Threads
  BY DEF PumpInv, TypeOK, Requests
<1>5. \A r : r.from = t /\ r.nr = calls[t] => IsOfCall(r, r.from)
  BY <1>1 DEF IsOfCall
<1>6. LatePuts' = LatePuts
  BY <1>2, <1>3, <1>4, <1>5 DEF LatePuts
<1> QED
  BY <1>1, <1>6 DEF Late

LEMMA ReturnRefines ==
  ASSUME PumpInv, NEW t \in Threads, Return(t)
  PROVE  Store!Next
<1>1. /\ pc[t] = "check" /\ pc' = [pc EXCEPT ![t] = "idle"]
      /\ call' = [call EXCEPT ![t] = NoCall]
      /\ UNCHANGED <<server, wire, calls>>
  BY DEF Return, Goto
<1>2. call[t] \in Calls /\ call[t] # NoCall
  BY <1>1 DEF PumpInv, InCall, TypeOK
<1>3. \E o \in Store!Outcomes(call[t]) : result' = [result EXCEPT ![t] = o]
  <2> DEFINE o == IF ~Succeeded(t) THEN Failed
                  ELSE IF call[t].data # NoData THEN Saved ELSE body[t]
  <2>1. result' = [result EXCEPT ![t] = o]
    BY DEF Return
  <2>2. Succeeded(t) => Testified(call[t], body[t])
    BY DEF Succeeded, PumpInv, Witness
  <2>3. o \in Store!Outcomes(call[t])
    BY <2>2 DEF Testified, Store!Outcomes, Store!IsPut
  <2> QED
    BY <2>1, <2>3
<1>4. \A r \in wire : /\ r.from \in Threads
                      /\ r.from # t => (IsOfCall(r, r.from)' <=> IsOfCall(r, r.from))
                      /\ r.from = t => ~IsOfCall(r, r.from)'
  BY <1>1 DEF IsOfCall, PumpInv, TypeOK, Requests
<1> DEFINE sent == {r \in wire : r.data # NoData /\ IsOfCall(r, r.from) /\ r.from = t}
<1>5. LatePuts' = LatePuts \cup sent
  BY <1>1, <1>4 DEF LatePuts
<1>6. \A r \in sent : call[t].data # NoData /\ Contents(r) = Contents(call[t])
  BY <1>2 DEF PumpInv, Wire, Contents
<1>7. Late' \in {Late, Late \cup Store!Overdue(call[t])}
  <2>1. CASE sent = {}
    BY <1>5, <2>1 DEF Late, Contents
  <2>2. CASE sent # {}
    <3>1. Store!Overdue(call[t]) = {Contents(call[t])}
      BY <1>6, <2>2 DEF Store!Overdue, Store!IsPut, Contents
    <3>2. Late' = {Contents(r) : r \in LatePuts \cup sent}
      BY <1>5 DEF Late, Contents
    <3>3. \A r \in sent : Contents(r) = Contents(call[t])
      BY <1>6
    <3> HIDE DEF sent
    <3> QED
      BY <2>2, <3>1, <3>2, <3>3 DEF Late
  <2> QED
    BY <2>1, <2>2
<1>8. Store!Return(t)
  BY <1>1, <1>2, <1>3, <1>7 DEF Store!Return, Store!Busy, Late
<1> QED
  BY <1>8 DEF Store!Next

\* A put that is served is applied for its call, or late; one that is refused is
\* no longer late.
LEMMA ServeRefines ==
  ASSUME PumpInv, NEW r \in wire, Serve(r)
  PROVE  Store!Next \/ UNCHANGED <<server, call, Late, result>>
<1>1. /\ wire' = wire \ {r} /\ UNCHANGED <<pc, calls, result>>
      /\ \A q : IsOfCall(q, q.from)' <=> IsOfCall(q, q.from)
  BY DEF Serve, IsOfCall
<1>2. LatePuts' = LatePuts \ {r}
  BY <1>1 DEF LatePuts
<1>3. Late' \in {Late, Late \ {Contents(r)}}
  BY <1>2 DEF Late
<1>4. r \notin LatePuts => Late' = Late
  BY <1>2 DEF Late
<1>5. r.from \in Threads /\ (IsOfCall(r, r.from) => Contents(r) = Contents(call[r.from]))
  BY DEF PumpInv, TypeOK, Requests, Wire
<1>6. CASE r \in LatePuts
  <2>1. ~IsOfCall(r, r.from) /\ Contents(r) \in Late /\ r.data # NoData
    BY <1>6 DEF LatePuts, Late
  <2>2. \/ /\ server' = [server EXCEPT ![r.file] = r.data]
           /\ call' = Store!Witnessed(NoCall, r.file, r.data)
        \/ UNCHANGED <<server, call>>
    <3>1. CASE ServePut(r)
      <4>1. ASSUME NEW u \in Threads
            PROVE  ~IsOfCall(r, u) /\ u # NoCall /\ (pc[u] # "idle" <=> call[u] # NoCall)
        BY <2>1, SentinelsAreDistinct DEF IsOfCall, PumpInv, InCall
      <4>2. ASSUME NEW u \in Threads, call[u] # NoCall
            PROVE  call[u].done \in BOOLEAN
        BY <4>2 DEF PumpInv, TypeOK, Calls
      <4>3. call' = Store!Witnessed(NoCall, r.file, r.data)
        BY <3>1, <4>1, <4>2 DEF ServePut, Store!Witnessed, Store!Busy
      <4> QED
        BY <3>1, <4>3 DEF ServePut
    <3> QED
      BY <3>1 DEF Serve, ServeGet, Refuse
  <2>3. Store!ApplyLate(Contents(r))
    BY <1>1, <1>3, <2>2 DEF Store!ApplyLate, Contents, Late
  <2> QED
    BY <2>1, <2>3 DEF Store!Next, Late
<1>7. CASE r \notin LatePuts /\ ServePut(r)
  <2>1. /\ IsOfCall(r, r.from) /\ call[r.from] # NoCall /\ r.data # NoData
        /\ call[r.from].file = r.file /\ call[r.from].data = r.data
    BY <1>5, <1>7 DEF LatePuts, ServePut, Contents, PumpInv, InCall, IsOfCall
  <2>2. call' = Store!Witnessed(r.from, r.file, r.data)
    <3>1. ASSUME NEW u \in Threads
          PROVE  (IsOfCall(r, u) <=> u = r.from) /\ (pc[u] # "idle" <=> call[u] # NoCall)
      BY <2>1 DEF IsOfCall, PumpInv, InCall
    <3> QED
      BY <1>7, <3>1 DEF ServePut, Store!Witnessed, Store!Busy
  <2>3. Store!Apply(r.from)
    BY <1>1, <1>4, <1>7, <2>1, <2>2
       DEF Store!Apply, Store!Busy, Store!IsPut, ServePut, Late
  <2> QED
    BY <1>5, <2>3 DEF Store!Next
<1>8. CASE r \notin LatePuts /\ ~ServePut(r)
  BY <1>1, <1>4, <1>8 DEF Serve, ServeGet, Refuse
<1> QED
  BY <1>6, <1>7, <1>8

(* pumpnet_lib_get and pumpnet_lib_put keep the promise of ProfileServer,    *)
(* however many requests are lost, delayed and repeated: a put that returns  *)
(* true has reached the server during the call, and a get returns what the   *)
(* server had during the call.                                               *)
THEOREM StoreRefinement == Spec => ImplementsStore
<1>1. Init => Store!Init
  BY DEF Init, Store!Init, LatePuts
<1>2. PumpInv /\ [Next]_vars => [Store!Next]_(Store!vars)
  <2> SUFFICES ASSUME PumpInv, [Next]_vars
               PROVE  Store!Next \/ UNCHANGED <<server, call, Late, result>>
    BY DEF Store!vars, Late
  <2>1. CASE UNCHANGED vars
    BY <2>1 DEF vars, Late, LatePuts, IsOfCall
  <2>2. ASSUME NEW t \in Threads, Attempt(t) \/ Retry(t)
        PROVE  UNCHANGED <<server, call, Late, result>>
    BY <2>2, AttemptRefines
  <2> QED
    BY <2>1, <2>2, BeginRefines, ReturnRefines, ServeRefines DEF Next, LoopStep
<1> QED
  BY <1>1, <1>2, PumpInvariant, PTL DEF Spec, ImplementsStore, Store!Spec
=============================================================================
