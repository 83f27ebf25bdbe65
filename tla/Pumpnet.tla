------------------------------- MODULE Pumpnet -------------------------------
(***************************************************************************)
(* The pumpnet client: pumpnet_lib_get and pumpnet_lib_put with the retry  *)
(* loop of _pumpnet_lib_get_put over pumpnet_lib_http_get_put, on a        *)
(* network and a server that may lose, delay and refuse requests.          *)
(*                                                                         *)
(* Every attempt uses a connection of its own.  An attempt whose           *)
(* connection breaks yields the http code 0, and is made again although    *)
(* its request may still be on its way to the server.                      *)
(***************************************************************************)
EXTENDS Naturals

CONSTANTS
  Threads,                \* the threads of the game
  Files,                  \* (player reference, file type) pairs
  Data,                   \* the contents of a profile file
  NoData,                 \* the data argument of a get
  NoCall,                 \* the call of a thread that is not in a call
  Saved,                  \* a put that returned true
  Failed,                 \* a get or put that returned false
  RETRY_COUNT_ON_ERROR,   \* attempts of one call (10 in the code)
  MaxCalls                \* bound: how many calls each thread makes

ASSUME SentinelsAreDistinct ==
  /\ NoCall \notin Threads
  /\ {NoData, Saved, Failed} \cap Data = {}
  /\ Saved # Failed
ASSUME NoCallIsNoCall ==
  NoCall \notin [file : Files, data : Data \cup {NoData}, done : BOOLEAN,
                seen : SUBSET Data]
ASSUME RetryCountIsPositive == RETRY_COUNT_ON_ERROR \in Nat \ {0}
ASSUME MaxCallsType == MaxCalls \in [Threads -> Nat]

OK == 200
PRECONDITION_FAILED == 412
ServerErrors == {PRECONDITION_FAILED, 500}
\* The http codes after which the loop goes on.
Retried == {0, PRECONDITION_FAILED}

VARIABLES
  server,     \* the content of each file
  wire,       \* the requests on their way to the server
  answer,     \* the answer on the connection a thread waits on; code 0: none
  pc,         \* where each thread is in a call
  i,          \* the loop variable of _pumpnet_lib_get_put
  http_code,  \* its local http_code
  success,    \* its local success
  body,       \* the response buffer
  calls,      \* how many calls each thread has begun
  call,       \* the arguments of the call, and what the server did meanwhile
  result      \* what the last call of each thread returned

vars == <<server, wire, answer, pc, i, http_code, success, body, calls, call,
          result>>

Codes == {0, OK} \cup ServerErrors
Calls == [file : Files, data : Data \cup {NoData}, done : BOOLEAN,
          seen : SUBSET Data]
\* from, nr and try identify the connection.
Requests == [from : Threads, nr : Nat,
             try : 0 .. RETRY_COUNT_ON_ERROR - 1,
             file : Files, data : Data \cup {NoData}]
Answers == [code : Codes, data : Data \cup {NoData}]
None == [code |-> 0, data |-> NoData]

Init ==
  /\ server \in [Files -> Data]
  /\ wire = {}
  /\ answer = [t \in Threads |-> None]
  /\ pc = [t \in Threads |-> "idle"]
  /\ i = [t \in Threads |-> 0]
  /\ http_code = [t \in Threads |-> 0]
  /\ success = [t \in Threads |-> FALSE]
  /\ body = [t \in Threads |-> NoData]
  /\ calls = [t \in Threads |-> 0]
  /\ call = [t \in Threads |-> NoCall]
  /\ result = [t \in Threads |-> Failed]

Goto(t, from, to) == pc[t] = from /\ pc' = [pc EXCEPT ![t] = to]

-----------------------------------------------------------------------------

\* pumpnet_lib_get or pumpnet_lib_put is called.
Begin(t, file, data) ==
  /\ Goto(t, "idle", "attempt")
  /\ calls[t] < MaxCalls[t]
  /\ calls' = [calls EXCEPT ![t] = @ + 1]
  /\ call' = [call EXCEPT ![t] = [file |-> file, data |-> data, done |-> FALSE,
                                  seen |-> {server[file]}]]
  /\ UNCHANGED <<server, wire, answer, i, http_code, success, body, result>>

\* curl_easy_perform sends the request.
Send(t) ==
  /\ Goto(t, "attempt", "wait")
  /\ wire' = wire \cup {[from |-> t, nr |-> calls[t], try |-> i[t],
                         file |-> call[t].file, data |-> call[t].data]}
  /\ UNCHANGED <<server, answer, i, http_code, success, body, calls, call,
                 result>>

\* No curl handle, no connection, or the connection breaks before an answer.
NoAnswer(t) ==
  /\ pc[t] \in {"attempt", "wait"}
  /\ pc' = [pc EXCEPT ![t] = "check"]
  /\ http_code' = [http_code EXCEPT ![t] = 0]
  /\ success' = [success EXCEPT ![t] = FALSE]
  /\ answer' = [answer EXCEPT ![t] = None]
  /\ UNCHANGED <<server, wire, i, body, calls, call, result>>

\* An answer arrives; complete tells whether its body has the expected size.
Answered(t, complete) ==
  /\ Goto(t, "wait", "check")
  /\ answer[t] # None
  /\ http_code' = [http_code EXCEPT ![t] = answer[t].code]
  /\ success' = [success EXCEPT ![t] = complete]
  /\ body' = [body EXCEPT ![t] = IF complete THEN answer[t].data ELSE @]
  /\ answer' = [answer EXCEPT ![t] = None]
  /\ UNCHANGED <<server, wire, i, calls, call, result>>

\* Mutation: the bound of the loop is missing.
Retry_Unbounded(t) ==
  /\ http_code[t] \in Retried
  /\ Goto(t, "check", "attempt")
  /\ i' = [i EXCEPT ![t] = @ + 1]
  /\ http_code' = [http_code EXCEPT ![t] = 0]
  /\ success' = [success EXCEPT ![t] = FALSE]
  /\ UNCHANGED <<server, wire, answer, body, calls, call, result>>

\* Next round of the loop, after the back-off.
Retry(t) ==
  /\ http_code[t] \in Retried
  /\ i[t] + 1 < RETRY_COUNT_ON_ERROR
  /\ Goto(t, "check", "attempt")
  /\ i' = [i EXCEPT ![t] = @ + 1]
  /\ http_code' = [http_code EXCEPT ![t] = 0]
  /\ success' = [success EXCEPT ![t] = FALSE]
  /\ UNCHANGED <<server, wire, answer, body, calls, call, result>>

\* Mutation: the http code is not looked at.
Succeeded_AnyCode(t) == success[t]

Succeeded(t) == success[t] /\ http_code[t] = OK

\* The loop ends, by its break or its bound; the locals are gone.
Return(t) ==
  /\ http_code[t] \in Retried => i[t] + 1 = RETRY_COUNT_ON_ERROR
  /\ Goto(t, "check", "idle")
  /\ result' = [result EXCEPT ![t] = IF ~Succeeded(t) THEN Failed
                                     ELSE IF call[t].data # NoData THEN Saved
                                     ELSE body[t]]
  /\ call' = [call EXCEPT ![t] = NoCall]
  /\ i' = [i EXCEPT ![t] = 0]
  /\ http_code' = [http_code EXCEPT ![t] = 0]
  /\ success' = [success EXCEPT ![t] = FALSE]
  /\ body' = [body EXCEPT ![t] = NoData]
  /\ UNCHANGED <<server, wire, answer, calls>>

-----------------------------------------------------------------------------
(* The network and the server, as the client may find them.  A request that *)
(* is lost stays on the wire for ever.                                      *)

IsOfCall(r, t) == r.from = t /\ r.nr = calls[t] /\ pc[t] # "idle"

Awaited(r) == IsOfCall(r, r.from) /\ r.try = i[r.from] /\ pc[r.from] = "wait"

Reply(r, code) ==
  answer' = IF Awaited(r)
            THEN [answer EXCEPT ![r.from] =
                    [code |-> code,
                     data |-> IF code = OK THEN server[r.file] ELSE NoData]]
            ELSE answer

ServePut(r) ==
  /\ r.data # NoData
  /\ server' = [server EXCEPT ![r.file] = r.data]
  /\ call' = [t \in Threads |->
                IF pc[t] # "idle" /\ call[t].file = r.file
                THEN [call[t] EXCEPT !.seen = @ \cup {r.data},
                                     !.done = @ \/ IsOfCall(r, t)]
                ELSE call[t]]
  /\ Reply(r, OK)

ServeGet(r) ==
  /\ r.data = NoData
  /\ Reply(r, OK)
  /\ UNCHANGED <<server, call>>

Refuse(r) ==
  /\ \E code \in ServerErrors : Reply(r, code)
  /\ UNCHANGED <<server, call>>

Serve(r) ==
  /\ ServePut(r) \/ ServeGet(r) \/ Refuse(r)
  /\ wire' = wire \ {r}
  /\ UNCHANGED <<pc, i, http_code, success, body, calls, result>>

-----------------------------------------------------------------------------

Attempt(t) == Send(t) \/ NoAnswer(t) \/ \E c \in BOOLEAN : Answered(t, c)

LoopStep(t) == Retry(t) \/ Return(t)

Next ==
  \/ \E t \in Threads :
       \/ \E file \in Files, data \in Data \cup {NoData} : Begin(t, file, data)
       \/ Attempt(t)
       \/ LoopStep(t)
  \/ \E r \in wire : Serve(r)

Spec == Init /\ [][Next]_vars
-----------------------------------------------------------------------------

TypeOK ==
  /\ server \in [Files -> Data]
  /\ wire \subseteq Requests
  /\ answer \in [Threads -> Answers]
  /\ pc \in [Threads -> {"idle", "attempt", "wait", "check"}]
  /\ i \in [Threads -> 0 .. RETRY_COUNT_ON_ERROR - 1]
  /\ http_code \in [Threads -> Codes]
  /\ success \in [Threads -> BOOLEAN]
  /\ body \in [Threads -> Data \cup {NoData}]
  /\ calls \in [Threads -> Nat]
  /\ call \in [Threads -> Calls \cup {NoCall}]
  /\ result \in [Threads -> Data \cup {Saved, Failed}]

\* The calls implement those of the abstract store: a put that is reported as
\* done has reached the server, and a get returns what the server had during
\* the call, although requests are lost, delayed and repeated.
Contents(r) == [file |-> r.file, data |-> r.data]
LatePuts == {q \in wire : q.data # NoData /\ ~IsOfCall(q, q.from)}
Store == INSTANCE ProfileServer WITH late <- {Contents(r) : r \in LatePuts}

ImplementsStore == Store!Spec
=============================================================================
