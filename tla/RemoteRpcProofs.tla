---------------------------- MODULE RemoteRpcProofs ----------------------------
(***************************************************************************)
(* Proofs about the remote session, for any calls, operation ids, files and*)
(* pipes, with a connection and an agent that may fail at any time.        *)
(***************************************************************************)
EXTENDS RemoteRpc, SequenceTheorems, TLAPS

ToAgentFrame == [kind : {"request", "cancel"}, id : Requests]
ToClientFrame == [id : Requests, answer : Answers]

\* The request has not left the desktop, and will not, when its caller is done.
Unsent(r) == pc[r] \in {"idle", "start", "write"} \/ result[r] = "failed"

Refusing(r) == AgentAt("refusing") /\ agent.id = r

\* An answer of the host has arrived at the desktop, or is on its way.
Arrived(r) ==
    \/ reader.at = "sending" /\ r \in reader.to
    \/ inbox[r] \in Answers
    \/ result[r] \in Answers
Replied(r) == Arrived(r) \/ \E i \in 1..Len(toClient) : toClient[i].id = r

\* Nothing has come of a request yet.
Fresh(r) == worker[r] = "none" /\ ~ Refusing(r) /\ ~ Replied(r)

\* The requests that have left the desktop, and those nothing has come of yet.
Sent == {r \in Requests : ~ Unsent(r)}
Untouched == {r \in Requests : Fresh(r)}

\* How far a caller is, what it has got, and when it is registered.
CallerOf(r) ==
    /\ pc[r] \in {"idle", "start", "write", "wait"} => result[r] = "none"
    /\ pc[r] = "drop" => result[r] \in {"timeout", "failed"}
    /\ pc[r] = "cancel" => result[r] = "timeout"
    /\ pc[r] \in {"idle", "cancel", "done"} => r \notin pending
    /\ inbox[r] # "none" \/ r \in reader.to => r \notin pending /\ pc[r] # "idle"
    /\ result[r] = "failed" => link = "down"
CallerInv == \A r \in Requests : CallerOf(r)

\* The reader thread delivers answers while it reads, and nothing else at its end.
ReaderInv ==
    /\ reader.at = "sending" => reader.what \in Answers
    /\ reader.at \in {"failing", "gone"} => link = "down"
    /\ reader.at = "failing" => reader.what = "offline"

\* Only a request is refused.
RefusingInv == AgentAt("refusing") => agent.id # None

\* A success comes from a command that was carried out.
OkOf(r) ==
    /\ worker[r] \in {"unregister", "respond"} /\ verdict[r] = "ok" => r \in effect
    /\ r \in reader.to /\ reader.what = "ok" => r \in effect
    /\ inbox[r] = "ok" \/ result[r] = "ok" => r \in effect
OkInv ==
    /\ \A r \in Requests : OkOf(r)
    /\ \A i \in 1..Len(toClient) : toClient[i].answer = "ok" => toClient[i].id \in effect

\* Whoever works on the usage records holds the guard, and has not started before
\* its reset.
WorkOf(r) ==
    /\ worker[r] \in {"backup", "reset", "import"} => guard = r
    /\ worker[r] \in {"none", "lock", "backup", "reset"} => todo[r] = Files
WorkInv == \A r \in Requests : WorkOf(r)

\* A request is at one place at a time: in the pipe, in the hands of the agent, or
\* answered; and one whose operation id is in use is being worked on.
StageOf(r) ==
    /\ Unsent(r) => Fresh(r)
    /\ Refusing(r) => worker[r] = "none" /\ ~ Replied(r)
    /\ worker[r] \notin {"none", "ended"} => ~ Replied(r)
    /\ Registered(r) => worker[r] \notin {"none", "respond"} /\ ~ Replied(r)
StageInv == \A r \in Requests : StageOf(r)

\* A request is sent once, and a cancellation by a caller whose time is up.
ToAgentInv ==
    /\ \A i \in 1..Len(toAgent) :
          /\ toAgent[i].id \in Sent
          /\ toAgent[i].kind = "request" => toAgent[i].id \in Untouched
          /\ toAgent[i].kind = "cancel" => result[toAgent[i].id] = "timeout"
    /\ \A i, j \in 1..Len(toAgent) :
          toAgent[i].kind = "request" /\ toAgent[i] = toAgent[j] => i = j

\* A request is answered once, and not after its answer has arrived.
ToClientInv ==
    /\ \A i \in 1..Len(toClient) : ~ Arrived(toClient[i].id)
    /\ \A i, j \in 1..Len(toClient) : toClient[i].id = toClient[j].id => i = j

\* As long as the connection stands, a call without an answer is registered,
\* unless its time is up.
AwaitedInv ==
    \A r \in Requests :
        link = "up" /\ pc[r] # "idle" /\ ~ Replied(r) => r \in pending \/ result[r] = "timeout"

\* The inductive invariant.
Inv ==
    /\ TypeOK /\ CallerInv /\ ReaderInv /\ RefusingInv /\ OkInv /\ WorkInv /\ StageInv
    /\ ToAgentInv /\ ToClientInv /\ AwaitedInv
    /\ AnswerExpected /\ OwnCancel /\ RebuildAlone
-----------------------------------------------------------------------------
(* Pipes.                                                                  *)

\* The frames of t are frames of s, in the same order.
Part(t, s) == \E k \in Nat : Len(t) + k <= Len(s) /\ \A i \in 1..Len(t) : t[i] = s[i + k]

\* What is left of a pipe after a frame was taken is a part of it.
LEMMA TailPart ==
    ASSUME NEW S, NEW s \in Seq(S), s # <<>>
    PROVE  Tail(s) \in Seq(S) /\ Part(Tail(s), s) /\ Head(s) = s[1] /\ Len(s) >= 1
<1>1. Tail(s) \in Seq(S) /\ Len(Tail(s)) = Len(s) - 1
      /\ \A i \in 1..Len(Tail(s)) : Tail(s)[i] = s[i + 1]
  BY HeadTailProperties
<1>2. Len(s) \in Nat /\ Len(s) >= 1 /\ Head(s) = s[1]
  BY EmptySeq, LenProperties
<1>3. Len(Tail(s)) + 1 <= Len(s)
  BY <1>1, <1>2
<1> QED BY <1>1, <1>2, <1>3 DEF Part

\* What arrives of a pipe is a part of it.
LEMMA ArrivesPart ==
    ASSUME NEW S, NEW s \in Seq(S), NEW t \in Arrives(s)
    PROVE  t \in Seq(S) /\ Part(t, s)
<1>1. PICK n \in 0..Len(s) : t = SubSeq(s, 1, n)
  BY DEF Arrives
<1>2. Len(s) \in Nat /\ n \in Int /\ \A i \in 1..n : s[i] \in S
  BY <1>1, ElementOfSeq, LenProperties
<1>3. t \in Seq(S) /\ Len(t) = IF 1 <= n THEN n - 1 + 1 ELSE 0
  BY <1>1, <1>2, SubSeqProperties
<1>4. \A i \in 1..n - 1 + 1 : t[i] = s[1 + i - 1]
  BY <1>1, <1>2, SubSeqProperties
<1>5. Len(t) = n /\ \A i \in 1..n : t[i] = s[i + 0]
  BY <1>2, <1>3, <1>4
<1>6. Len(t) + 0 <= Len(s)
  BY <1>2, <1>5
<1> QED BY <1>3, <1>5, <1>6 DEF Part

\* A pipe with a frame more.
LEMMA AppendFrame ==
    ASSUME NEW S, NEW s \in Seq(S), NEW e \in S
    PROVE  /\ Append(s, e) \in Seq(S)
           /\ Len(Append(s, e)) = Len(s) + 1 /\ Len(s) \in Nat
           /\ \A i \in 1..Len(s) : Append(s, e)[i] = s[i]
           /\ Append(s, e)[Len(s) + 1] = e
  BY AppendProperties, LenProperties

\* The pipes as sequences of frames.
LEMMA Pipes ==
    ASSUME TypeOK
    PROVE  /\ toAgent \in Seq(ToAgentFrame) /\ toClient \in Seq(ToClientFrame)
           /\ \A i \in 1..Len(toAgent) : toAgent[i] \in ToAgentFrame
           /\ \A i \in 1..Len(toClient) : toClient[i] \in ToClientFrame
<1>1. toAgent \in Seq(ToAgentFrame) /\ toClient \in Seq(ToClientFrame)
  BY DEF TypeOK, ToAgentFrame, ToClientFrame
<1> QED BY <1>1, ElementOfSeq

\* One more frame on its way to the agent.
LEMMA SendPipe ==
    ASSUME TypeOK, NEW frame \in ToAgentFrame, Send(frame)
    PROVE  /\ toAgent' \in Seq(ToAgentFrame) /\ link = "up"
           /\ \A i \in 1..Len(toAgent') :
                 \/ i \in 1..Len(toAgent) /\ toAgent'[i] = toAgent[i]
                 \/ i = Len(toAgent) + 1 /\ toAgent'[i] = frame
<1>1. toAgent \in Seq(ToAgentFrame) /\ toAgent' = Append(toAgent, frame)
  BY Pipes DEF Send
<1>2. /\ toAgent' \in Seq(ToAgentFrame)
      /\ Len(toAgent') = Len(toAgent) + 1 /\ Len(toAgent) \in Nat
      /\ \A i \in 1..Len(toAgent) : toAgent'[i] = toAgent[i]
      /\ toAgent'[Len(toAgent) + 1] = frame
  BY <1>1, AppendFrame
<1> QED BY <1>2 DEF Send

\* One more frame on its way to the desktop, or none.
LEMMA RespondPipe ==
    ASSUME TypeOK, NEW r \in Requests, NEW answer \in Answers, Respond(r, answer)
    PROVE  /\ toClient' \in Seq(ToClientFrame)
           /\ \/ link = "down" /\ toClient' = toClient
              \/ /\ link = "up" /\ Len(toClient') = Len(toClient) + 1
                 /\ \E i \in 1..Len(toClient') : toClient'[i].id = r
                 /\ \A i \in 1..Len(toClient) : i \in 1..Len(toClient') /\ toClient'[i] = toClient[i]
           /\ \A i \in 1..Len(toClient') :
                 \/ i \in 1..Len(toClient) /\ toClient'[i] = toClient[i]
                 \/ i = Len(toClient) + 1 /\ toClient'[i] = [id |-> r, answer |-> answer]
<1>1. [id |-> r, answer |-> answer] \in ToClientFrame
  BY DEF ToClientFrame
<1>2. toClient \in Seq(ToClientFrame)
  BY Pipes
<1>3. CASE link = "up" /\ toClient' = Append(toClient, [id |-> r, answer |-> answer])
  <2>1. /\ toClient' \in Seq(ToClientFrame)
        /\ Len(toClient') = Len(toClient) + 1 /\ Len(toClient) \in Nat
        /\ \A i \in 1..Len(toClient) : toClient'[i] = toClient[i]
        /\ toClient'[Len(toClient) + 1] = [id |-> r, answer |-> answer]
    BY <1>1, <1>2, <1>3, AppendFrame
  <2>2. toClient'[Len(toClient) + 1].id = r /\ Len(toClient) + 1 \in 1..Len(toClient')
    BY <2>1
  <2> QED BY <1>3, <2>1, <2>2
<1>4. CASE link = "down" /\ toClient' = toClient
  BY <1>2, <1>4
<1> QED BY <1>3, <1>4 DEF Respond

\* One frame less on its way to the agent.
LEMMA TakePipe ==
    ASSUME TypeOK, NEW kind, Take(kind)
    PROVE  /\ toAgent' \in Seq(ToAgentFrame) /\ Part(toAgent', toAgent)
           /\ Head(toAgent) = toAgent[1] /\ Len(toAgent) >= 1
           /\ toAgent[1] \in ToAgentFrame /\ toAgent[1].kind = kind
           /\ Len(toAgent) \in Nat /\ Len(toAgent') = Len(toAgent) - 1
           /\ \A i \in 1..Len(toAgent') : toAgent'[i] = toAgent[i + 1]
<1>1. toAgent \in Seq(ToAgentFrame) /\ toAgent # <<>> /\ toAgent' = Tail(toAgent)
  BY Pipes DEF Take
<1>2. Len(toAgent) \in Nat
  BY <1>1, LenProperties
<1> QED BY <1>1, <1>2, TailPart, HeadTailProperties DEF Take
-----------------------------------------------------------------------------
(* Types.                                                                  *)

\* The command of a worker returns, whatever it was.
Finishing(r) ==
    /\ worker[r] \in {"run", "backup", "reset", "import"}
    /\ \E answer \in Answers : Finish(r, answer)

\* Run, Abort and Imported are the ways in which a command returns.
LEMMA Finishes ==
    ASSUME TypeOK, NEW r \in Requests, Run(r) \/ Abort(r) \/ Imported(r)
    PROVE  Finishing(r)
  BY DEF Finishing, Run, Abort, Imported, WorkerAt, Answers

\* A step of a caller keeps the types.
LEMMA CallerType ==
    ASSUME Inv, NEW q \in Requests, Register(q) \/ Caller(q)
    PROVE  TypeOK'
<1> USE DEF Inv, TypeOK, Goto, CallPoint, pipes, host, database
<1>1. CASE Register(q)
  BY <1>1 DEF Register
<1>2. CASE StartReader(q)
  BY <1>2 DEF StartReader
<1>3. CASE Write(q)
  <2>1. [kind |-> "request", id |-> q] \in ToAgentFrame
    BY DEF ToAgentFrame
  <2>2. toAgent' \in Seq(ToAgentFrame)
    BY <1>3, <2>1, SendPipe, Pipes DEF Write
  <2>3. pc' \in [Requests -> CallPoint] /\ result' \in [Requests -> Results]
    BY <1>3 DEF Write, Results
  <2>4. \A r \in Requests : pc'[r] = "done" => result'[r] # "none"
    BY <1>3 DEF Write
  <2>5. toAgent' \in Seq([kind : {"request", "cancel"}, id : Requests])
    BY <2>2 DEF ToAgentFrame
  <2> QED BY <1>3, <2>3, <2>4, <2>5 DEF Write
<1>4. CASE Receive(q)
  BY <1>4 DEF Receive, Results
<1>5. CASE Expire(q)
  BY <1>5 DEF Expire, Results
<1>6. CASE Drop(q)
  BY <1>6 DEF Drop, CallerInv, CallerOf
<1>7. CASE SendCancel(q)
  <2>1. [kind |-> "cancel", id |-> q] \in ToAgentFrame
    BY DEF ToAgentFrame
  <2>2. toAgent' \in Seq(ToAgentFrame)
    BY <1>7, <2>1, SendPipe, Pipes DEF SendCancel
  <2> QED BY <1>7, <2>2 DEF SendCancel, ToAgentFrame, CallerInv, CallerOf
<1> QED
  BY <1>1, <1>2, <1>3, <1>4, <1>5, <1>6, <1>7 DEF Caller

\* A step of the reader thread, and a failure of the connection, keep the types.
LEMMA ReaderType ==
    ASSUME Inv, Reader \/ Cut \/ AgentDies
    PROVE  TypeOK'
<1> USE DEF Inv, TypeOK, pipes, host, database, client
<1>1. CASE Read
  <2>1. Head(toClient) \in ToClientFrame /\ Tail(toClient) \in Seq(ToClientFrame)
    BY <1>1, HeadTailProperties DEF Read, ToClientFrame
  <2>2. Addressee(Head(toClient).id) \subseteq Requests
    BY <2>1 DEF Addressee
  <2>3. reader' \in [at : {"unstarted", "reading", "sending", "failing", "gone"},
                     to : SUBSET Requests, what : Answers \cup {"offline"}]
    BY <1>1, <2>1, <2>2 DEF Read, ToClientFrame
  <2> QED BY <1>1, <2>1, <2>3 DEF Read, ToClientFrame
<1>2. CASE ReadEnd
  BY <1>2 DEF ReadEnd
<1>3. CASE Deliver
  BY <1>3 DEF Deliver
<1>4. CASE Cut
  BY <1>4, ArrivesPart DEF Cut, Break
<1>5. CASE AgentDies
  <2>1. toAgent' \in Seq(ToAgentFrame) /\ toClient' \in Seq(ToClientFrame)
    BY <1>5, ArrivesPart DEF AgentDies, Break, ToAgentFrame, ToClientFrame
  <2> QED BY <1>5, <2>1 DEF AgentDies, Break, WorkerPoint, ToAgentFrame, ToClientFrame
<1> QED
  BY <1>1, <1>2, <1>3, <1>4, <1>5 DEF Reader

\* A step of the agent's reading loop keeps the types.
LEMMA AgentType ==
    ASSUME Inv, Agent
    PROVE  TypeOK'
<1> USE DEF Inv, TypeOK, pipes, database, client
<1>1. ASSUME NEW kind, Take(kind)
      PROVE  Head(toAgent).id \in Requests /\ toAgent' \in Seq(ToAgentFrame)
  BY <1>1, TakePipe DEF ToAgentFrame
<1>2. CASE Accept
  BY <1>1, <1>2, OperationAssumption DEF Accept, WorkerPoint, ToAgentFrame
<1>3. CASE Refuse
  BY <1>1, <1>3 DEF Refuse, ToAgentFrame
<1>4. CASE WriteRefusal
  <2>1. agent.id \in Requests
    BY <1>4, NoneAssumption DEF WriteRefusal, AgentAt, RefusingInv
  <2>2. "error" \in Answers
    BY DEF Answers
  <2>3. toClient' \in Seq(ToClientFrame)
    BY <1>4, <2>1, <2>2, RespondPipe, Pipes DEF WriteRefusal
  <2> QED BY <1>4, <2>3 DEF WriteRefusal, Respond, ToClientFrame
<1>5. CASE TakeCancel
  BY <1>1, <1>5 DEF TakeCancel, Cancellable, ToAgentFrame
<1>6. CASE EndSession
  BY <1>6 DEF EndSession
<1>7. CASE Leave
  BY <1>7 DEF Leave
<1> QED
  BY <1>2, <1>3, <1>4, <1>5, <1>6, <1>7 DEF Agent

\* A step of a worker keeps the types.
LEMMA WorkerType ==
    ASSUME Inv, NEW q \in Requests, Acquire(q) \/ Work(q)
    PROVE  TypeOK'
<1> USE DEF Inv, TypeOK, pipes, database, client, WorkerPoint, WorkerGoto
<1>1. CASE Acquire(q)
  BY <1>1 DEF Acquire
<1>2. CASE Run(q) \/ Abort(q) \/ Imported(q)
  <2>1. Finishing(q)
    BY <1>2, Finishes
  <2> QED BY <2>1 DEF Finishing, Finish, Released
<1>3. CASE Backup(q)
  BY <1>3 DEF Backup, Step
<1>4. CASE Reset(q)
  BY <1>4 DEF Reset, Step
<1>5. CASE Import(q)
  BY <1>5 DEF Import, Step
<1>6. CASE Unregister(q)
  BY <1>6, OperationAssumption DEF Unregister
<1>7. CASE WriteResponse(q)
  <2>1. verdict[q] \in Answers
    OBVIOUS
  <2>2. toClient' \in Seq(ToClientFrame)
    BY <1>7, <2>1, RespondPipe DEF WriteResponse
  <2> QED BY <1>7, <2>2 DEF WriteResponse, ToClientFrame, Respond
<1> QED
  BY <1>1, <1>2, <1>3, <1>4, <1>5, <1>6, <1>7 DEF Work
-----------------------------------------------------------------------------
(* What a step leaves alone.                                               *)

\* The agent and its workers do not touch the desktop.
LEMMA HostFrame ==
    ASSUME Agent \/ \E q \in Requests : Acquire(q) \/ Work(q)
    PROVE  UNCHANGED <<client, link>>
<1>1. CASE Agent
  BY <1>1 DEF Agent, Accept, Refuse, WriteRefusal, TakeCancel, EndSession, Leave, pipes
<1>2. ASSUME NEW q \in Requests, Acquire(q) \/ Work(q)
      PROVE  UNCHANGED <<client, link>>
  BY <1>2 DEF Work, Acquire, Run, Abort, Finish, Backup, Reset, Import, Imported, Step,
              Unregister, WriteResponse, pipes
<1> QED BY <1>1, <1>2

\* The desktop does not touch the agent and its workers.
LEMMA ClientFrame ==
    ASSUME Reader \/ \E q \in Requests : Register(q) \/ Caller(q)
    PROVE  UNCHANGED <<host, link>>
<1>1. CASE Reader
  BY <1>1 DEF Reader, Read, ReadEnd, Deliver, pipes
<1>2. ASSUME NEW q \in Requests, Register(q) \/ Caller(q)
      PROVE  UNCHANGED <<host, link>>
  BY <1>2 DEF Register, Caller, StartReader, Write, Receive, Expire, Drop, SendCancel, pipes
<1> QED BY <1>1, <1>2

\* What a failure of the connection leaves alone.
LEMMA BreakFrame ==
    ASSUME TypeOK, Cut \/ AgentDies
    PROVE  /\ UNCHANGED <<client, registry, cancelled, verdict, database, effect>>
           /\ link' = "down"
           /\ Part(toAgent', toAgent) /\ Part(toClient', toClient)
           /\ \/ agent' = agent /\ worker' = worker /\ guard' = guard
              \/ /\ agent'.at = "gone" /\ agent'.id = None
                 /\ \A r \in Requests : worker'[r] = worker[r] \/ worker'[r] = "ended"
                 /\ \A r \in Requests : worker[r] # "none" => worker'[r] = "ended"
                 /\ \A r \in Requests : worker[r] = "none" => worker'[r] = "none"
<1>1. toAgent \in Seq(ToAgentFrame) /\ toClient \in Seq(ToClientFrame)
  BY Pipes
<1>2. Part(toAgent', toAgent) /\ Part(toClient', toClient) /\ link' = "down"
  BY <1>1, ArrivesPart DEF Cut, AgentDies, Break
<1>3. CASE Cut
  BY <1>2, <1>3 DEF Cut, host
<1>4. CASE AgentDies
  BY <1>2, <1>4 DEF AgentDies, TypeOK, Running
<1> QED BY <1>3, <1>4

\* The steps of the system, by who takes them.
LEMMA Steps ==
    ASSUME Next
    PROVE  \/ \E q \in Requests : Register(q) \/ Caller(q)
           \/ Reader
           \/ Cut \/ AgentDies
           \/ Agent
           \/ \E q \in Requests : Acquire(q) \/ Work(q)
  BY DEF Next
-----------------------------------------------------------------------------
(* The callers and the reader thread.                                      *)

\* Every step keeps what is known of the callers.
LEMMA CallerStep ==
    ASSUME Inv, Next
    PROVE  CallerInv'
<1> SUFFICES ASSUME NEW r \in Requests PROVE CallerOf(r)'
  BY DEF CallerInv
<1>0. CallerOf(r) /\ TypeOK
  BY DEF Inv, CallerInv
<1> USE DEF CallerOf, TypeOK, Goto
<1>1. CASE Cut \/ AgentDies \/ Agent \/ \E q \in Requests : Acquire(q) \/ Work(q)
  BY <1>0, <1>1, BreakFrame, HostFrame DEF client
<1>2. ASSUME NEW q \in Requests, Register(q) \/ Caller(q)
      PROVE  CallerOf(r)'
  <2>0. CallerOf(q)
    BY DEF Inv, CallerInv
  <2>1. CASE Register(q)
    BY <1>0, <2>0, <2>1 DEF Register, pipes
  <2>2. CASE StartReader(q)
    BY <1>0, <2>0, <2>2 DEF StartReader, pipes
  <2>3. CASE Write(q)
    BY <1>0, <2>0, <2>3 DEF Write
  <2>4. CASE Receive(q)
    BY <1>0, <2>0, <2>4 DEF Receive, pipes, Answers
  <2>5. CASE Expire(q)
    BY <1>0, <2>0, <2>5 DEF Expire, pipes
  <2>6. CASE Drop(q)
    BY <1>0, <2>0, <2>6 DEF Drop, pipes
  <2>7. CASE SendCancel(q)
    BY <1>0, <2>0, <2>7 DEF SendCancel
  <2> QED BY <1>2, <2>1, <2>2, <2>3, <2>4, <2>5, <2>6, <2>7 DEF Caller
<1>3. CASE Read
  BY <1>0, <1>3 DEF Read, Addressee
<1>4. CASE ReadEnd
  BY <1>0, <1>4 DEF ReadEnd, pipes
<1>5. CASE Deliver
  BY <1>0, <1>5 DEF Deliver, pipes
<1> QED
  BY Steps, <1>1, <1>2, <1>3, <1>4, <1>5 DEF Reader

\* Every step keeps what is known of the reader thread, and of a refusal.
LEMMA ReaderStep ==
    ASSUME Inv, Next
    PROVE  ReaderInv' /\ RefusingInv'
<1>0. ReaderInv /\ RefusingInv /\ TypeOK
  BY DEF Inv
<1>1. ReaderInv'
  <2> USE DEF ReaderInv
  <2>1. CASE Cut \/ AgentDies \/ Agent \/ \E q \in Requests : Acquire(q) \/ Work(q)
    BY <1>0, <2>1, BreakFrame, HostFrame DEF client
  <2>2. ASSUME NEW q \in Requests, Register(q) \/ Caller(q)
        PROVE  ReaderInv'
    <3>1. reader' = reader \/ (reader.at = "unstarted" /\ reader'.at = "reading")
      <4>1. CASE StartReader(q)
        BY <1>0, <4>1 DEF TypeOK, StartReader
      <4>2. CASE ~ StartReader(q)
        BY <2>2, <4>2 DEF Register, Caller, Write, Receive, Expire, Drop, SendCancel
      <4> QED BY <4>1, <4>2
    <3> QED BY <1>0, <2>2, <3>1, ClientFrame
  <2>3. CASE Read
    <3>1. Head(toClient).answer \in Answers
      BY <1>0, <2>3, Pipes, HeadTailProperties DEF Read, ToClientFrame
    <3> QED BY <1>0, <2>3, <3>1 DEF Read
  <2>4. CASE ReadEnd \/ Deliver
    BY <1>0, <2>4 DEF ReadEnd, Deliver, pipes
  <2> QED BY Steps, <2>1, <2>2, <2>3, <2>4 DEF Reader
<1>2. RefusingInv'
  <2> USE DEF RefusingInv, AgentAt
  <2>1. CASE Reader \/ \E q \in Requests : Register(q) \/ Caller(q)
    BY <1>0, <2>1, ClientFrame DEF host
  <2>2. CASE Cut \/ AgentDies
    BY <1>0, <2>2, BreakFrame
  <2>3. CASE Agent
    <3>1. CASE Refuse
      <4>1. Head(toAgent).id \in Requests
        BY <1>0, <3>1, TakePipe DEF Refuse, ToAgentFrame
      <4> QED BY <3>1, <4>1, NoneAssumption DEF Refuse
    <3>2. CASE ~ Refuse
      BY <1>0, <2>3, <3>2 DEF Agent, Accept, WriteRefusal, TakeCancel, EndSession, Leave
    <3> QED BY <3>1, <3>2
  <2>4. ASSUME NEW q \in Requests, Acquire(q) \/ Work(q)
        PROVE  agent' = agent
    BY <2>4 DEF Work, Acquire, Run, Abort, Finish, Backup, Reset, Import, Imported, Step,
                Unregister, WriteResponse
  <2> QED BY <1>0, Steps, <2>1, <2>2, <2>3, <2>4
<1> QED BY <1>1, <1>2
-----------------------------------------------------------------------------
(* Successes, and the usage records.                                       *)

\* Every step keeps it that a success comes from a command carried out.
LEMMA OkStep ==
    ASSUME Inv, Next
    PROVE  OkInv'
<1>0. OkInv /\ TypeOK
  BY DEF Inv
<1> USE DEF OkInv, OkOf
<1>1. CASE Cut \/ AgentDies
  <2>1. PICK k \in Nat : Len(toClient') + k <= Len(toClient)
                         /\ \A i \in 1..Len(toClient') : toClient'[i] = toClient[i + k]
    BY <1>0, <1>1, BreakFrame DEF Part
  <2>2. Len(toClient) \in Nat /\ Len(toClient') \in Nat
    BY <1>0, <1>1, Pipes, ArrivesPart, LenProperties DEF Cut, AgentDies, Break
  <2>3. \A i \in 1..Len(toClient') : i + k \in 1..Len(toClient)
    BY <2>1, <2>2
  <2> QED BY <1>0, <1>1, <2>1, <2>3, BreakFrame DEF client
<1>2. ASSUME NEW q \in Requests, Register(q) \/ Caller(q)
      PROVE  OkInv'
  <2>1. toClient' = toClient /\ inbox' = inbox /\ UNCHANGED host
    BY <1>2, ClientFrame DEF Register, Caller, StartReader, Write, Receive, Expire, Drop, SendCancel, pipes
  <2>2. reader'.to = reader.to /\ reader'.what = reader.what
    <3>1. CASE StartReader(q)
      BY <1>0, <3>1 DEF TypeOK, StartReader
    <3>2. CASE ~ StartReader(q)
      BY <1>2, <3>2 DEF Register, Caller, Write, Receive, Expire, Drop, SendCancel
    <3> QED BY <3>1, <3>2
  <2>3. \A r \in Requests : result'[r] = "ok" => result[r] = "ok" \/ inbox[r] = "ok"
    BY <1>0, <1>2 DEF TypeOK, Register, Caller, StartReader, Write, Receive, Expire, Drop, SendCancel
  <2> QED BY <1>0, <2>1, <2>2, <2>3 DEF host
<1>3. CASE Read
  <2>1. /\ toClient \in Seq(ToClientFrame) /\ toClient # <<>> /\ toClient' = Tail(toClient)
        /\ Len(toClient) \in Nat /\ Len(toClient) >= 1 /\ Head(toClient) = toClient[1]
        /\ Len(toClient') = Len(toClient) - 1
        /\ \A i \in 1..Len(toClient') : toClient'[i] = toClient[i + 1]
    BY <1>0, <1>3, Pipes, TailPart, HeadTailProperties, LenProperties DEF Read
  <2>2. toClient[1].answer = "ok" => toClient[1].id \in effect
    BY <1>0, <2>1
  <2>3. \A i \in 1..Len(toClient') : toClient'[i].answer = "ok" => toClient'[i].id \in effect
    BY <1>0, <2>1
  <2>4. effect' = effect /\ worker' = worker /\ verdict' = verdict /\ inbox' = inbox /\ result' = result
    BY <1>3 DEF Read, host
  <2>5. \/ reader' = reader
        \/ reader'.to \subseteq {toClient[1].id} /\ reader'.what = toClient[1].answer
    BY <1>3, <2>1 DEF Read, Addressee
  <2> QED BY <1>0, <2>2, <2>3, <2>4, <2>5
<1>4. CASE ReadEnd
  BY <1>0, <1>4 DEF ReadEnd, pipes, host
<1>5. CASE Deliver
  BY <1>0, <1>5 DEF Deliver, pipes, host
<1>6. CASE Agent
  <2>1. UNCHANGED <<client, verdict, effect>>
    BY <1>6, HostFrame DEF Agent, Accept, Refuse, WriteRefusal, TakeCancel, EndSession, Leave
  <2>2. \A r \in Requests : worker'[r] \in {"unregister", "respond"} => worker'[r] = worker[r]
    BY <1>0, <1>6 DEF TypeOK, Agent, Accept, Refuse, WriteRefusal, TakeCancel, EndSession, Leave
  <2>3. \A i \in 1..Len(toClient') : toClient'[i].answer = "ok" => toClient'[i].id \in effect
    <3>1. CASE WriteRefusal
      <4>1. agent.id \in Requests /\ "error" \in Answers
        BY <1>0, <3>1, NoneAssumption DEF Inv, TypeOK, WriteRefusal, AgentAt, RefusingInv, Answers
      <4>2. CASE Respond(agent.id, "error")
        <5>1. \A i \in 1..Len(toClient') :
                 \/ i \in 1..Len(toClient) /\ toClient'[i] = toClient[i]
                 \/ i = Len(toClient) + 1 /\ toClient'[i] = [id |-> agent.id, answer |-> "error"]
          BY <1>0, <4>1, <4>2, RespondPipe
        <5> QED BY <1>0, <5>1
      <4>3. CASE toClient' = toClient
        BY <1>0, <4>3
      <4> QED BY <3>1, <4>2, <4>3 DEF WriteRefusal
    <3>2. CASE ~ WriteRefusal
      BY <1>0, <1>6, <3>2 DEF Agent, Accept, Refuse, TakeCancel, EndSession, Leave, pipes
    <3> QED BY <3>1, <3>2
  <2> QED BY <1>0, <2>1, <2>2, <2>3 DEF client
<1>7. ASSUME NEW q \in Requests, Acquire(q) \/ Work(q)
      PROVE  OkInv'
  <2>1. UNCHANGED client
    BY <1>7, HostFrame
  <2>2. CASE Finishing(q)
    BY <1>0, <2>1, <2>2 DEF TypeOK, Finishing, Finish, WorkerGoto, client, pipes
  <2>3. CASE Acquire(q) \/ Backup(q) \/ Reset(q) \/ Import(q)
    BY <1>0, <2>1, <2>3 DEF TypeOK, Acquire, Backup, Reset, Import, Step, WorkerGoto, client, pipes
  <2>4. CASE Unregister(q)
    BY <1>0, <2>1, <2>4 DEF TypeOK, Unregister, WorkerAt, WorkerGoto, client, pipes
  <2>5. CASE WriteResponse(q)
    <3>1. worker[q] = "respond" /\ verdict[q] \in Answers /\ Respond(q, verdict[q])
      BY <1>0, <2>5 DEF TypeOK, WriteResponse, WorkerAt
    <3>2. \A i \in 1..Len(toClient') : toClient'[i].answer = "ok" => toClient'[i].id \in effect
      <4>1. \A i \in 1..Len(toClient') :
               \/ i \in 1..Len(toClient) /\ toClient'[i] = toClient[i]
               \/ i = Len(toClient) + 1 /\ toClient'[i] = [id |-> q, answer |-> verdict[q]]
        BY <1>0, <3>1, RespondPipe
      <4> QED BY <1>0, <3>1, <4>1
    <3> QED BY <1>0, <2>1, <2>5, <3>2 DEF TypeOK, WriteResponse, WorkerGoto, client
  <2> QED BY <1>0, <1>7, <2>2, <2>3, <2>4, <2>5, Finishes DEF Work
<1> QED
  BY Steps, <1>1, <1>2, <1>3, <1>4, <1>5, <1>6, <1>7 DEF Reader

\* Every step keeps the order in which the usage records are worked on.
LEMMA WorkStep ==
    ASSUME Inv, Next
    PROVE  WorkInv' /\ RebuildAlone'
<1>0. WorkInv /\ RebuildAlone /\ TypeOK
  BY DEF Inv
<1> USE DEF WorkInv, WorkOf, RebuildAlone
<1>1. CASE Reader \/ \E q \in Requests : Register(q) \/ Caller(q)
  BY <1>0, <1>1, ClientFrame DEF host, database
<1>2. CASE Cut \/ AgentDies
  BY <1>0, <1>2, BreakFrame DEF database
<1>3. CASE Agent
  <2>1. UNCHANGED <<guard, database>>
    BY <1>3 DEF Agent, Accept, Refuse, WriteRefusal, TakeCancel, EndSession, Leave
  <2>2. \A r \in Requests : worker'[r] = worker[r]
                            \/ worker'[r] = "run" \/ (worker'[r] = "lock" /\ worker[r] = "none")
    <3>1. CASE Accept
      <4>1. worker[Head(toAgent).id] = "none"
        BY <1>0, <3>1, TakePipe DEF Inv, ToAgentInv, Untouched, Fresh, Accept
      <4> QED BY <1>0, <3>1, <4>1 DEF TypeOK, Accept
    <3>2. CASE ~ Accept
      BY <1>3, <3>2 DEF Agent, Refuse, WriteRefusal, TakeCancel, EndSession, Leave
    <3> QED BY <3>1, <3>2
  <2> QED BY <1>0, <2>1, <2>2 DEF database
<1>4. ASSUME NEW q \in Requests, Acquire(q) \/ Work(q)
      PROVE  WorkInv' /\ RebuildAlone'
  <2>1. CASE Finishing(q)
    BY <1>0, <2>1 DEF TypeOK, Finishing, Finish, Released, WorkerGoto, database
  <2>2. CASE Acquire(q)
    BY <1>0, <2>2, NoneAssumption DEF TypeOK, Acquire, MayAcquire, WorkerAt, WorkerGoto, database
  <2>3. CASE Backup(q)
    BY <1>0, <2>3 DEF TypeOK, Backup, Step, WorkerAt, WorkerGoto
  <2>4. CASE Reset(q)
    BY <1>0, <2>4 DEF TypeOK, Reset, Step, WorkerAt, WorkerGoto
  <2>5. CASE Import(q)
    BY <1>0, <2>5 DEF TypeOK, Import, Step, WorkerAt, WorkerGoto
  <2>6. CASE Unregister(q)
    BY <1>0, <2>6 DEF TypeOK, Unregister, WorkerGoto, database
  <2>7. CASE WriteResponse(q)
    BY <1>0, <2>7 DEF TypeOK, WriteResponse, WorkerGoto, database
  <2> QED BY <1>0, <1>4, <2>1, <2>2, <2>3, <2>4, <2>5, <2>6, <2>7, Finishes DEF Work
<1> QED
  BY Steps, <1>1, <1>2, <1>3, <1>4

\* No step cancels an operation of someone else.
LEMMA CancelStep ==
    ASSUME Inv, Next
    PROVE  OwnCancel'
<1>0. OwnCancel /\ TypeOK /\ CallerInv
  BY DEF Inv
<1> USE DEF OwnCancel
<1>1. CASE Reader \/ \E q \in Requests : Register(q) \/ Caller(q)
  <2>1. \A r \in Requests : result[r] = "timeout" => result'[r] = "timeout"
    <3>1. CASE Reader
      BY <3>1 DEF Reader, Read, ReadEnd, Deliver
    <3>2. ASSUME NEW q \in Requests, Register(q) \/ Caller(q)
          PROVE  \A r \in Requests : result[r] = "timeout" => result'[r] = "timeout"
      BY <1>0, <3>2 DEF TypeOK, CallerInv, CallerOf, Register, Caller, StartReader, Write,
                        Receive, Expire, Drop, SendCancel
    <3> QED BY <1>1, <3>1, <3>2
  <2> QED BY <1>0, <1>1, <2>1, ClientFrame DEF host, TypeOK
<1>2. CASE Cut \/ AgentDies
  BY <1>0, <1>2, BreakFrame DEF client, TypeOK
<1>3. CASE Agent
  <2>0. result' = result
    BY <1>3, HostFrame DEF client
  <2>1. CASE TakeCancel
    <3>1. result[Head(toAgent).id] = "timeout"
      BY <1>0, <2>1, TakePipe DEF Inv, ToAgentInv, TakeCancel
    <3> QED BY <1>0, <2>0, <2>1, <3>1 DEF TakeCancel, Cancellable
  <2>2. CASE EndSession
    BY <2>0, <2>2 DEF EndSession
  <2>3. CASE Accept \/ Refuse \/ WriteRefusal \/ Leave
    BY <1>0, <2>0, <2>3 DEF Accept, Refuse, WriteRefusal, Leave, AgentAt, Take
  <2> QED BY <1>3, <2>1, <2>2, <2>3 DEF Agent
<1>4. ASSUME NEW q \in Requests, Acquire(q) \/ Work(q)
      PROVE  OwnCancel'
  <2>1. UNCHANGED <<agent, cancelled, result>>
    BY <1>4, HostFrame DEF client, Work, Acquire, Run, Abort, Finish, Backup, Reset, Import, Imported, Step,
                Unregister, WriteResponse
  <2> QED BY <1>0, <2>1
<1> QED
  BY Steps, <1>1, <1>2, <1>3, <1>4
-----------------------------------------------------------------------------
(* Where a request is.                                                     *)

\* A step of one caller moves no other, and settles a result once.
LEMMA CallerMoves ==
    ASSUME Inv, NEW q \in Requests, Register(q) \/ Caller(q)
    PROVE  /\ \A r \in Requests : pc'[r] \in {"idle", "start", "write"} => pc[r] \in {"idle", "start", "write"}
           /\ \A r \in Requests : result'[r] = result[r]
                                  \/ (pc[r] \in {"write", "wait"} /\ result[r] = "none"
                                      /\ (result'[r] = "failed" => pc[r] = "write")
                                      /\ (result'[r] \in Answers => inbox[r] \in Answers))
           /\ inbox' = inbox /\ toClient' = toClient /\ UNCHANGED <<host, link>>
           /\ reader'.to = reader.to /\ reader'.what = reader.what
           /\ reader'.at = "sending" <=> reader.at = "sending"
<1>0. TypeOK /\ CallerOf(q)
  BY DEF Inv, CallerInv
<1>1. reader' = reader
      \/ (reader.at = "unstarted" /\ reader'.at = "reading" /\ reader'.to = reader.to
          /\ reader'.what = reader.what)
  <2>1. CASE StartReader(q)
    BY <1>0, <2>1 DEF TypeOK, StartReader
  <2>2. CASE ~ StartReader(q)
    BY <2>2 DEF Register, Caller, Write, Receive, Expire, Drop, SendCancel
  <2> QED BY <2>1, <2>2
<1>2. inbox' = inbox /\ toClient' = toClient /\ UNCHANGED <<host, link>>
  BY ClientFrame DEF Register, Caller, StartReader, Write, Receive, Expire, Drop, SendCancel, pipes
<1>3. \A r \in Requests : r # q => pc'[r] = pc[r] /\ result'[r] = result[r]
  BY <1>0 DEF TypeOK, Goto, Register, Caller, StartReader, Write, Receive, Expire, Drop, SendCancel
<1>4. pc'[q] \in {"idle", "start", "write"} => pc[q] \in {"idle", "start", "write"}
  BY <1>0 DEF TypeOK, Goto, Register, Caller, StartReader, Write, Receive, Expire, Drop, SendCancel
<1>5. \/ result'[q] = result[q]
      \/ /\ pc[q] \in {"write", "wait"} /\ result[q] = "none"
         /\ result'[q] = "failed" => pc[q] = "write"
         /\ result'[q] \in Answers => inbox[q] \in Answers
  BY <1>0 DEF TypeOK, CallerOf, Goto, Register, Caller, StartReader, Write, Receive, Expire, Drop, SendCancel, Answers
<1> QED BY <1>1, <1>2, <1>3, <1>4, <1>5

\* What has not left the desktop never has before.
LEMMA UnsentStep ==
    ASSUME Inv, Next, NEW r \in Requests, Unsent(r)'
    PROVE  Unsent(r)
<1>1. CASE \E q \in Requests : Register(q) \/ Caller(q)
  BY <1>1, CallerMoves DEF Unsent, Inv, TypeOK
<1>2. CASE Reader
  BY <1>2 DEF Unsent, Reader, Read, ReadEnd, Deliver
<1>3. CASE Cut \/ AgentDies \/ Agent \/ \E q \in Requests : Acquire(q) \/ Work(q)
  BY <1>3, BreakFrame, HostFrame DEF Unsent, client, Inv
<1> QED BY Steps, <1>1, <1>2, <1>3

\* The part of the answers' pipe that is left names nobody new.
LEMMA PartIds ==
    ASSUME NEW S, NEW s \in Seq(S), NEW t \in Seq(S), Part(t, s)
    PROVE  /\ \A i \in 1..Len(t) : \E j \in 1..Len(s) : t[i] = s[j]
           /\ \A i, j \in 1..Len(t) : \E m, n \in 1..Len(s) :
                 t[i] = s[m] /\ t[j] = s[n] /\ (m = n => i = j)
<1>1. PICK k \in Nat : Len(t) + k <= Len(s) /\ \A i \in 1..Len(t) : t[i] = s[i + k]
  BY DEF Part
<1>2. Len(s) \in Nat /\ Len(t) \in Nat
  BY LenProperties
<1>3. \A i \in 1..Len(t) : i + k \in 1..Len(s)
  BY <1>1, <1>2
<1>4. \A i, j \in 1..Len(t) : i + k = j + k => i = j
  BY <1>2
<1> QED BY <1>1, <1>3, <1>4

\* The pipe of the answers, as one is read.
LEMMA ReadPipe ==
    ASSUME TypeOK, Read
    PROVE  /\ toClient' \in Seq(ToClientFrame) /\ Part(toClient', toClient)
           /\ Head(toClient) = toClient[1] /\ 1 \in 1..Len(toClient)
           /\ toClient[1] \in ToClientFrame
           /\ \A i \in 1..Len(toClient') : i + 1 \in 1..Len(toClient) /\ toClient'[i] = toClient[i + 1]
           /\ \A i \in 1..Len(toClient) : i = 1 \/ (i - 1 \in 1..Len(toClient') /\ toClient'[i - 1] = toClient[i])
<1>1. toClient \in Seq(ToClientFrame) /\ toClient # <<>> /\ toClient' = Tail(toClient)
  BY Pipes DEF Read
<1>2. Len(toClient) \in Nat
  BY <1>1, LenProperties
<1>3. /\ toClient' \in Seq(ToClientFrame) /\ Len(toClient') = Len(toClient) - 1
      /\ \A i \in 1..Len(toClient') : toClient'[i] = toClient[i + 1]
      /\ Part(toClient', toClient) /\ Head(toClient) = toClient[1] /\ Len(toClient) >= 1
      /\ Head(toClient) \in ToClientFrame
  BY <1>1, TailPart, HeadTailProperties
<1>4. \A i \in 1..Len(toClient) :
         i = 1 \/ (i - 1 \in 1..Len(toClient') /\ toClient'[i - 1] = toClient[i - 1 + 1] /\ i - 1 + 1 = i)
  BY <1>2, <1>3
<1> QED BY <1>2, <1>3, <1>4

\* The only new answers are those the agent writes.
LEMMA NewReply ==
    ASSUME Inv, Next, NEW r \in Requests, Replied(r)'
    PROVE  \/ Replied(r)
           \/ WorkerAt(r, "respond") /\ WriteResponse(r)
           \/ Refusing(r) /\ WriteRefusal
<1>0. TypeOK /\ ReaderInv
  BY DEF Inv
<1>1. CASE \E q \in Requests : Register(q) \/ Caller(q)
  BY <1>1, CallerMoves DEF Replied, Arrived
<1>2. CASE Read
  <2>1. \A i \in 1..Len(toClient') : i + 1 \in 1..Len(toClient) /\ toClient'[i] = toClient[i + 1]
    BY <1>0, <1>2, ReadPipe
  <2>2. reader' = reader \/ (reader'.to \subseteq {toClient[1].id} /\ 1 \in 1..Len(toClient))
    BY <1>0, <1>2, ReadPipe DEF Read, Addressee
  <2> QED BY <1>2, <2>1, <2>2 DEF Replied, Arrived, Read
<1>3. CASE ReadEnd
  BY <1>3 DEF ReadEnd, Replied, Arrived, pipes
<1>4. CASE Deliver
  <2>1. reader'.at # "sending" /\ toClient' = toClient /\ result' = result
    BY <1>4 DEF Deliver, pipes
  <2>2. inbox'[r] \in Answers => inbox[r] \in Answers \/ (r \in reader.to /\ reader.at = "sending")
    BY <1>0, <1>4 DEF Deliver, ReaderInv, Answers
  <2> QED BY <2>1, <2>2 DEF Replied, Arrived
<1>5. CASE Cut \/ AgentDies
  <2>1. toClient \in Seq(ToClientFrame) /\ toClient' \in Seq(ToClientFrame)
    BY <1>0, <1>5, Pipes, ArrivesPart DEF Cut, AgentDies, Break
  <2>2. \A i \in 1..Len(toClient') : \E j \in 1..Len(toClient) : toClient'[i] = toClient[j]
    BY <1>0, <1>5, <2>1, BreakFrame, PartIds
  <2> QED BY <1>0, <1>5, <2>2, BreakFrame DEF Replied, Arrived, client
<1>6. CASE Agent
  <2>0. UNCHANGED client
    BY <1>6, HostFrame
  <2>1. CASE WriteRefusal /\ Respond(agent.id, "error")
    <3>1. agent.id \in Requests /\ "error" \in Answers
      BY <1>0, <2>1, NoneAssumption DEF Inv, TypeOK, WriteRefusal, AgentAt, RefusingInv, Answers
    <3>2. \A i \in 1..Len(toClient') :
             \/ i \in 1..Len(toClient) /\ toClient'[i] = toClient[i]
             \/ i = Len(toClient) + 1 /\ toClient'[i] = [id |-> agent.id, answer |-> "error"]
      BY <1>0, <2>1, <3>1, RespondPipe
    <3>3. Replied(r) \/ agent.id = r
      BY <2>0, <3>2 DEF Replied, Arrived, client
    <3> QED BY <2>1, <3>3 DEF Refusing, WriteRefusal
  <2>2. CASE toClient' = toClient
    BY <2>0, <2>2 DEF Replied, Arrived, client
  <2> QED BY <1>6, <2>1, <2>2 DEF Agent, Accept, Refuse, WriteRefusal, TakeCancel, EndSession, Leave, pipes
<1>7. ASSUME NEW q \in Requests, Acquire(q) \/ Work(q)
      PROVE  Replied(r) \/ (WorkerAt(r, "respond") /\ WriteResponse(r))
  <2>0. UNCHANGED client
    BY <1>7, HostFrame
  <2>1. CASE WriteResponse(q)
    <3>1. verdict[q] \in Answers /\ Respond(q, verdict[q])
      BY <1>0, <2>1 DEF TypeOK, WriteResponse
    <3>2. \A i \in 1..Len(toClient') :
             \/ i \in 1..Len(toClient) /\ toClient'[i] = toClient[i]
             \/ i = Len(toClient) + 1 /\ toClient'[i] = [id |-> q, answer |-> verdict[q]]
      BY <1>0, <3>1, RespondPipe
    <3>3. Replied(r) \/ q = r
      BY <2>0, <3>2 DEF Replied, Arrived, client
    <3> QED BY <2>1, <3>3 DEF WriteResponse
  <2>2. CASE ~ WriteResponse(q)
    <3>1. toClient' = toClient
      BY <1>7, <2>2 DEF Work, Acquire, Run, Abort, Finish, Backup, Reset, Import, Imported, Step, Unregister, pipes
    <3> QED BY <2>0, <3>1 DEF Replied, Arrived, client
  <2> QED BY <2>1, <2>2
<1> QED
  BY Steps, <1>1, <1>2, <1>3, <1>4, <1>5, <1>6, <1>7 DEF Reader

\* An answer is only lost with the connection, or when its caller's time is up.
LEMMA LostReply ==
    ASSUME Inv, Next, NEW r \in Requests, Replied(r)
    PROVE  Replied(r)' \/ link' = "down" \/ result[r] = "timeout"
<1>0. TypeOK /\ ReaderInv /\ CallerOf(r) /\ AnswerExpected
  BY DEF Inv, CallerInv
<1>1. CASE \E q \in Requests : Register(q) \/ Caller(q)
  <2>1. result[r] \in Answers => result'[r] \in Answers
    BY <1>1, CallerMoves DEF Answers
  <2> QED BY <1>1, <2>1, CallerMoves DEF Replied, Arrived
<1>2. CASE Read
  <2>1. /\ Head(toClient) = toClient[1] /\ 1 \in 1..Len(toClient)
        /\ \A i \in 1..Len(toClient) : i = 1 \/ (i - 1 \in 1..Len(toClient') /\ toClient'[i - 1] = toClient[i])
    BY <1>0, <1>2, ReadPipe
  <2>2. reader.at = "reading" /\ inbox' = inbox /\ result' = result
    BY <1>2 DEF Read
  <2>3. CASE r = toClient[1].id
    <3>1. 1 \in DOMAIN toClient
      BY <1>0, <2>1, Pipes, LenProperties
    <3>2. r \in pending \/ result[r] = "timeout"
      BY <1>0, <2>3, <3>1 DEF AnswerExpected
    <3>3. r \in pending => reader'.at = "sending" /\ r \in reader'.to
      BY <1>2, <2>1, <2>3 DEF Read, Addressee
    <3> QED BY <3>2, <3>3 DEF Replied, Arrived
  <2>4. CASE r # toClient[1].id
    BY <2>1, <2>2, <2>4 DEF Replied, Arrived
  <2> QED BY <2>3, <2>4
<1>3. CASE ReadEnd
  BY <1>3 DEF ReadEnd, pipes
<1>4. CASE Deliver
  BY <1>0, <1>4 DEF Deliver, ReaderInv, Replied, Arrived, pipes
<1>5. CASE Cut \/ AgentDies
  BY <1>0, <1>5, BreakFrame
<1>6. CASE Agent \/ \E q \in Requests : Acquire(q) \/ Work(q)
  <2>0. UNCHANGED <<client, link>>
    BY <1>6, HostFrame
  <2>1. \A i \in 1..Len(toClient) : i \in 1..Len(toClient') /\ toClient'[i] = toClient[i]
    <3>1. CASE WriteRefusal /\ Respond(agent.id, "error")
      <4>1. agent.id \in Requests /\ "error" \in Answers
        BY <1>0, <3>1, NoneAssumption DEF Inv, TypeOK, WriteRefusal, AgentAt, RefusingInv, Answers
      <4> QED BY <1>0, <3>1, <4>1, RespondPipe
    <3>2. ASSUME NEW q \in Requests, WriteResponse(q)
          PROVE  \A i \in 1..Len(toClient) : i \in 1..Len(toClient') /\ toClient'[i] = toClient[i]
      <4>1. verdict[q] \in Answers /\ Respond(q, verdict[q])
        BY <1>0, <3>2 DEF TypeOK, WriteResponse
      <4> QED BY <1>0, <4>1, RespondPipe
    <3>3. CASE toClient' = toClient
      BY <3>3
    <3>4. CASE Agent
      BY <3>1, <3>3, <3>4 DEF Agent, Accept, Refuse, WriteRefusal, TakeCancel, EndSession, Leave, pipes
    <3>5. ASSUME NEW q \in Requests, Acquire(q) \/ Work(q)
          PROVE  WriteResponse(q) \/ toClient' = toClient
      BY <3>5 DEF Work, Acquire, Run, Abort, Finish, Backup, Reset, Import, Imported, Step, Unregister, pipes
    <3> QED BY <1>6, <3>2, <3>3, <3>4, <3>5
  <2> QED BY <2>0, <2>1 DEF Replied, Arrived, client
<1> QED
  BY Steps, <1>1, <1>2, <1>3, <1>4, <1>5, <1>6 DEF Reader
\* What nothing has come of stays so, until the agent takes it.
LEMMA FreshStep ==
    ASSUME Inv, Next, NEW r \in Requests, Fresh(r),
           ~ (Accept /\ Head(toAgent).id = r), ~ (Refuse /\ Head(toAgent).id = r)
    PROVE  Fresh(r)'
<1>0. TypeOK
  BY DEF Inv
<1>1. ~ Replied(r)'
  BY NewReply DEF Fresh, WorkerAt
<1>2. worker'[r] = "none"
  <2>1. CASE Reader \/ \E q \in Requests : Register(q) \/ Caller(q)
    BY <2>1, ClientFrame DEF Fresh, host
  <2>2. CASE Cut \/ AgentDies
    BY <1>0, <2>2, BreakFrame DEF Fresh
  <2>3. CASE Agent
    BY <1>0, <2>3 DEF Fresh, TypeOK, Agent, Accept, Refuse, WriteRefusal, TakeCancel, EndSession, Leave
  <2>4. ASSUME NEW q \in Requests, Acquire(q) \/ Work(q)
        PROVE  worker'[r] = worker[r]
    <3>1. CASE Finishing(q)
      BY <1>0, <3>1 DEF Fresh, TypeOK, Finishing, Finish, WorkerGoto
    <3>2. CASE ~ Finishing(q)
      BY <1>0, <2>4, <3>2, Finishes DEF Fresh, TypeOK, Work, Acquire, Backup, Reset, Import, Step,
                                   Unregister, WriteResponse, WorkerAt, WorkerGoto
    <3> QED BY <3>1, <3>2
  <2> QED BY Steps, <2>1, <2>2, <2>3, <2>4 DEF Fresh
<1>3. ~ Refusing(r)'
  <2>1. CASE Reader \/ \E q \in Requests : Register(q) \/ Caller(q)
    BY <2>1, ClientFrame DEF Fresh, host, Refusing, AgentAt
  <2>2. CASE Cut \/ AgentDies
    BY <1>0, <2>2, BreakFrame DEF Fresh, Refusing, AgentAt
  <2>3. CASE Agent
    BY <2>3 DEF Fresh, Refusing, AgentAt, Agent, Accept, Refuse, WriteRefusal, TakeCancel, EndSession, Leave
  <2>4. ASSUME NEW q \in Requests, Acquire(q) \/ Work(q)
        PROVE  agent' = agent
    BY <2>4 DEF Work, Acquire, Run, Abort, Finish, Backup, Reset, Import, Imported, Step,
                Unregister, WriteResponse
  <2> QED BY Steps, <2>1, <2>2, <2>3, <2>4 DEF Fresh, Refusing, AgentAt
<1> QED BY <1>1, <1>2, <1>3 DEF Fresh

\* The frame the agent takes is of a request nothing has come of yet.
LEMMA Taken ==
    ASSUME Inv, Take("request")
    PROVE  Head(toAgent).id \in Requests /\ Fresh(Head(toAgent).id) /\ ~ Unsent(Head(toAgent).id)
  BY TakePipe DEF Inv, ToAgentInv, ToAgentFrame, Sent, Untouched

\* Every step keeps a request at one place.
LEMMA StageStep ==
    ASSUME Inv, Next
    PROVE  StageInv'
<1> SUFFICES ASSUME NEW r \in Requests PROVE StageOf(r)'
  BY DEF StageInv
<1>0. TypeOK /\ StageOf(r)
  BY DEF Inv, StageInv
<1>1. Unsent(r)' => Fresh(r)'
  <2> SUFFICES ASSUME Unsent(r)' PROVE Fresh(r)'
    OBVIOUS
  <2>1. Unsent(r) /\ Fresh(r)
    BY <1>0, UnsentStep DEF StageOf
  <2>2. ~ (Accept /\ Head(toAgent).id = r) /\ ~ (Refuse /\ Head(toAgent).id = r)
    BY <2>1, Taken DEF Accept, Refuse
  <2> QED BY <2>1, <2>2, FreshStep
<1>2. CASE Reader \/ (\E q \in Requests : Register(q) \/ Caller(q)) \/ Cut \/ AgentDies
  <2>1. Replied(r)' => Replied(r)
    <3>1. CASE Reader \/ \E q \in Requests : Register(q) \/ Caller(q)
      BY <1>0, <3>1, ClientFrame, NewReply DEF host, TypeOK, WriteResponse, WriteRefusal, WorkerAt, WorkerGoto, AgentAt
    <3>2. CASE Cut \/ AgentDies
      <4>1. toClient \in Seq(ToClientFrame) /\ toClient' \in Seq(ToClientFrame)
        BY <1>0, <3>2, Pipes, ArrivesPart DEF Cut, AgentDies, Break
      <4>2. \A i \in 1..Len(toClient') : \E j \in 1..Len(toClient) : toClient'[i] = toClient[j]
        BY <1>0, <3>2, <4>1, BreakFrame, PartIds
      <4> QED BY <1>0, <3>2, <4>2, BreakFrame DEF Replied, Arrived, client
    <3> QED BY <1>2, <3>1, <3>2
  <2>2. \/ UNCHANGED <<agent, registry, worker>>
        \/ /\ agent'.at = "gone" /\ registry' = registry
           /\ worker'[r] = IF worker[r] = "none" THEN "none" ELSE "ended"
    <3>1. CASE Reader \/ \E q \in Requests : Register(q) \/ Caller(q)
      BY <3>1, ClientFrame DEF host
    <3>2. CASE Cut \/ AgentDies
      BY <1>0, <3>2, BreakFrame
    <3>3. CASE Cut
      BY <3>3 DEF Cut, host
    <3>4. CASE AgentDies
      BY <1>0, <3>4, BreakFrame DEF AgentDies, TypeOK, Running
    <3> QED BY <1>2, <3>1, <3>3, <3>4
  <2> QED BY <1>0, <1>1, <2>1, <2>2 DEF StageOf, Refusing, AgentAt, Registered
<1>3. CASE Agent
  <2>0. \A q \in Requests : Registered(q) => worker[q] # "none"
    BY DEF Inv, StageInv, StageOf
  <2>1. Replied(r)' => Replied(r) \/ (Refusing(r) /\ WriteRefusal)
    <3>1. CASE WriteResponse(r) /\ WorkerAt(r, "respond")
      <4>1. agent' = agent /\ registry' = registry /\ worker'[r] = "ended" /\ worker[r] = "respond"
            /\ cancelled' = cancelled /\ toAgent' = toAgent
        BY <1>0, <3>1 DEF TypeOK, WriteResponse, WorkerAt, WorkerGoto
      <4>2. toAgent # <<>> => Len(Tail(toAgent)) # Len(toAgent)
        BY <1>0, Pipes, HeadTailProperties, LenProperties
      <4> QED BY <1>0, <1>3, <4>1, <4>2 DEF TypeOK, Agent, Accept, Refuse, WriteRefusal, TakeCancel,
                                     EndSession, Leave, Take, AgentAt
    <3> QED BY <3>1, NewReply
  <2>2. CASE Accept
    <3>1. Head(toAgent).id \in Requests /\ Fresh(Head(toAgent).id) /\ ~ Unsent(Head(toAgent).id)
      BY <2>2, Taken DEF Accept
    <3>2. registry[OpOf[Head(toAgent).id]] = None /\ AgentAt("reading") /\ agent' = agent
      BY <2>2 DEF Accept, Take
    <3>3. CASE r = Head(toAgent).id
      <4>1. worker'[r] \in {"run", "lock"} /\ ~ Replied(r)'
        BY <1>0, <2>1, <2>2, <3>1, <3>2, <3>3 DEF TypeOK, Accept, Fresh, Refusing, AgentAt
      <4> QED BY <1>1, <3>2, <4>1 DEF StageOf, Refusing, AgentAt
    <3>4. CASE r # Head(toAgent).id
      <4>1. worker'[r] = worker[r]
        BY <1>0, <2>2, <3>1, <3>4 DEF TypeOK, Accept
      <4>2. Registered(r)' => Registered(r)
        BY <1>0, <2>2, <3>1, <3>4, OperationAssumption DEF TypeOK, Accept, Registered
      <4> QED BY <1>0, <1>1, <2>1, <3>2, <4>1, <4>2 DEF StageOf, Refusing, AgentAt
    <3> QED BY <3>3, <3>4
  <2>3. CASE Refuse
    <3>1. Head(toAgent).id \in Requests /\ Fresh(Head(toAgent).id)
      BY <2>3, Taken DEF Refuse
    <3>2. UNCHANGED <<worker, registry>> /\ AgentAt("reading") /\ agent'.id = Head(toAgent).id
      BY <2>3 DEF Refuse, Take
    <3>3. ~ Refusing(r)
      BY <3>2 DEF Refusing, AgentAt
    <3> QED BY <1>0, <1>1, <2>1, <3>1, <3>2, <3>3 DEF StageOf, Refusing, Registered, Fresh
  <2>4. CASE WriteRefusal
    <3>1. UNCHANGED <<worker, registry>> /\ ~ Refusing(r)'
      BY <2>4 DEF WriteRefusal, Refusing, AgentAt
    <3> QED BY <1>0, <1>1, <2>0, <2>1, <3>1 DEF StageOf, Registered
  <2>5. CASE TakeCancel \/ EndSession \/ Leave
    <3>1. UNCHANGED <<worker, registry>> /\ ~ Refusing(r)'/\ ~ Refusing(r)
      BY <2>5 DEF TakeCancel, EndSession, Leave, Refusing, AgentAt, Take
    <3> QED BY <1>0, <1>1, <2>1, <3>1 DEF StageOf, Registered
  <2> QED BY <1>3, <2>2, <2>3, <2>4, <2>5 DEF Agent
<1>4. ASSUME NEW q \in Requests, Acquire(q) \/ Work(q)
      PROVE  StageOf(r)'
  <2>0. agent' = agent
    BY <1>4 DEF Work, Acquire, Run, Abort, Finish, Backup, Reset, Import, Imported, Step,
                Unregister, WriteResponse
  <2>1. CASE WriteResponse(q)
    <3>1. worker[q] = "respond" /\ worker'[q] = "ended" /\ registry' = registry
          /\ (r # q => worker'[r] = worker[r])
      BY <1>0, <2>1 DEF TypeOK, WriteResponse, WorkerAt, WorkerGoto
    <3>2. r # q => (Replied(r)' => Replied(r))
      <4>1. r # q /\ WriteResponse(r) /\ WorkerAt(r, "respond") => worker'[r] = "ended" /\ worker[r] = "respond"
        BY <1>0 DEF TypeOK, WriteResponse, WorkerAt, WorkerGoto
      <4>2. WriteRefusal => agent' # agent
        BY DEF WriteRefusal, AgentAt
      <4> QED BY <2>0, <3>1, <4>1, <4>2, NewReply
    <3> QED BY <1>0, <1>1, <2>0, <3>1, <3>2 DEF StageOf, Refusing, AgentAt, Registered
  <2>2. CASE ~ WriteResponse(q)
    <3>1. Replied(r)' => Replied(r)
      <4>1. toClient' = toClient /\ UNCHANGED client
        BY <1>4, <2>2, HostFrame DEF Work, Acquire, Run, Abort, Finish, Backup, Reset, Import, Imported, Step, Unregister, pipes
      <4> QED BY <4>1 DEF Replied, Arrived, client
    <3>2. CASE Finishing(q)
      BY <1>0, <1>1, <2>0, <3>1, <3>2 DEF TypeOK, Finishing, Finish, WorkerGoto, StageOf, Refusing, AgentAt, Registered
    <3>3. CASE Unregister(q)
      BY <1>0, <1>1, <2>0, <3>1, <3>3, NoneAssumption, OperationAssumption
         DEF TypeOK, Unregister, WorkerAt, WorkerGoto, StageOf, Refusing, AgentAt, Registered
    <3>4. CASE Acquire(q) \/ Backup(q) \/ Reset(q) \/ Import(q)
      BY <1>0, <1>1, <2>0, <3>1, <3>4 DEF TypeOK, Acquire, Backup, Reset, Import, Step, WorkerAt, WorkerGoto,
         StageOf, Refusing, AgentAt, Registered
    <3> QED BY <1>0, <1>4, <2>2, <3>2, <3>3, <3>4, Finishes DEF Work
  <2> QED BY <2>1, <2>2
<1> QED
  BY Steps, <1>2, <1>3, <1>4

\* Every step keeps the pipe to the agent free of repeated requests.
LEMMA ToAgentStep ==
    ASSUME Inv, Next
    PROVE  ToAgentInv'
<1>0. TypeOK /\ ToAgentInv /\ StageInv /\ CallerInv
  BY DEF Inv
<1>1. toAgent \in Seq(ToAgentFrame) /\ \A i \in 1..Len(toAgent) : toAgent[i] \in ToAgentFrame
  BY <1>0, Pipes
<1>2. Sent \subseteq Sent'
  BY UnsentStep DEF Sent
<1>3. \A r \in Requests : result[r] = "timeout" => result'[r] = "timeout"
  <2>1. ASSUME NEW q \in Requests, Register(q) \/ Caller(q)
        PROVE  \A r \in Requests : result[r] = "timeout" => result'[r] = "timeout"
    BY <2>1, CallerMoves
  <2>2. Reader \/ Cut \/ AgentDies \/ Agent \/ (\E q \in Requests : Acquire(q) \/ Work(q))
           => result' = result
    BY <1>0, BreakFrame, HostFrame DEF client, Reader, Read, ReadEnd, Deliver
  <2> QED BY Steps, <2>1, <2>2
<1>4. ASSUME toAgent' \in Seq(ToAgentFrame), Part(toAgent', toAgent), ~ Accept, ~ Refuse
      PROVE  ToAgentInv'
  <2>1. /\ \A i \in 1..Len(toAgent') : \E j \in 1..Len(toAgent) : toAgent'[i] = toAgent[j]
        /\ \A i, j \in 1..Len(toAgent') : \E m, n \in 1..Len(toAgent) :
              toAgent'[i] = toAgent[m] /\ toAgent'[j] = toAgent[n] /\ (m = n => i = j)
    BY <1>1, <1>4, PartIds
  <2>2. Untouched \subseteq Untouched'
    BY <1>4, FreshStep DEF Untouched
  <2>3. \A i \in 1..Len(toAgent') : toAgent'[i].id \in Requests
    BY <1>1, <2>1 DEF ToAgentFrame
  <2>4. \A i \in 1..Len(toAgent') :
          /\ toAgent'[i].id \in Sent'
          /\ toAgent'[i].kind = "request" => toAgent'[i].id \in Untouched'
          /\ toAgent'[i].kind = "cancel" => result'[toAgent'[i].id] = "timeout"
    <3> SUFFICES ASSUME NEW i \in 1..Len(toAgent')
                 PROVE  /\ toAgent'[i].id \in Sent'
                        /\ toAgent'[i].kind = "request" => toAgent'[i].id \in Untouched'
                        /\ toAgent'[i].kind = "cancel" => result'[toAgent'[i].id] = "timeout"
      OBVIOUS
    <3>1. PICK j \in 1..Len(toAgent) : toAgent'[i] = toAgent[j]
      BY <2>1
    <3>2. /\ toAgent[j].id \in Sent
          /\ toAgent[j].kind = "request" => toAgent[j].id \in Untouched
          /\ toAgent[j].kind = "cancel" => result[toAgent[j].id] = "timeout"
      BY <1>0 DEF ToAgentInv
    <3>3. toAgent[j].kind = "cancel" => result'[toAgent[j].id] = "timeout"
      BY <1>3, <2>3, <3>1, <3>2
    <3> QED BY <1>2, <2>2, <3>1, <3>2, <3>3
  <2>5. \A i, j \in 1..Len(toAgent') :
          toAgent'[i].kind = "request" /\ toAgent'[i] = toAgent'[j] => i = j
    <3> SUFFICES ASSUME NEW i \in 1..Len(toAgent'), NEW j \in 1..Len(toAgent'),
                        toAgent'[i].kind = "request", toAgent'[i] = toAgent'[j]
                 PROVE  i = j
      OBVIOUS
    <3>1. PICK m \in 1..Len(toAgent), n \in 1..Len(toAgent) :
                 toAgent'[i] = toAgent[m] /\ toAgent'[j] = toAgent[n] /\ (m = n => i = j)
      BY <2>1
    <3>2. toAgent[m].kind = "request" /\ toAgent[m] = toAgent[n]
      BY <3>1
    <3>3. m = n
      BY <1>0, <3>2 DEF ToAgentInv
    <3> QED BY <3>1, <3>3
  <2> QED BY <2>4, <2>5 DEF ToAgentInv
<1>5. toAgent' = toAgent => toAgent' \in Seq(ToAgentFrame) /\ Part(toAgent', toAgent)
  <2>1. Len(toAgent) \in Nat
    BY <1>1, LenProperties
  <2>2. Len(toAgent) + 0 <= Len(toAgent) /\ \A i \in 1..Len(toAgent) : toAgent[i] = toAgent[i + 0]
    BY <2>1
  <2> QED BY <1>1, <2>2 DEF Part
<1>6. ASSUME NEW q \in Requests, NEW frame \in ToAgentFrame, Send(frame), frame.id = q, ~ Unsent(q)',
             ~ Accept, ~ Refuse,
             frame.kind = "request" => Unsent(q), frame.kind = "cancel" => result'[q] = "timeout"
      PROVE  ToAgentInv'
  <2>1. \A i \in 1..Len(toAgent') :
           \/ i \in 1..Len(toAgent) /\ toAgent'[i] = toAgent[i]
           \/ i = Len(toAgent) + 1 /\ toAgent'[i] = frame
    BY <1>0, <1>6, SendPipe
  <2>2. Untouched \subseteq Untouched' /\ q \in Sent'
    BY <1>6, FreshStep DEF Untouched, Sent
  <2>3. frame.kind = "request" => q \in Untouched'
    BY <1>0, <1>6, <2>2 DEF StageInv, StageOf, Untouched
  <2>4. \A i \in 1..Len(toAgent') : toAgent'[i].id \in Requests
    BY <1>1, <1>6, <2>1 DEF ToAgentFrame
  <2>5. \A i \in 1..Len(toAgent') :
          /\ toAgent'[i].id \in Sent'
          /\ toAgent'[i].kind = "request" => toAgent'[i].id \in Untouched'
          /\ toAgent'[i].kind = "cancel" => result'[toAgent'[i].id] = "timeout"
    BY <1>0, <1>2, <1>3, <1>6, <2>1, <2>2, <2>3, <2>4 DEF ToAgentInv
  <2>6. \A i, j \in 1..Len(toAgent') :
          toAgent'[i].kind = "request" /\ toAgent'[i] = toAgent'[j] => i = j
    <3>1. \A i \in 1..Len(toAgent) : toAgent[i].kind = "request" => toAgent[i] # frame
      BY <1>0, <1>6 DEF ToAgentInv, Sent
    <3> QED BY <1>0, <2>1, <3>1 DEF ToAgentInv
  <2> QED BY <2>5, <2>6 DEF ToAgentInv
<1>7. ASSUME NEW q \in Requests, Register(q) \/ Caller(q)
      PROVE  ToAgentInv'
  <2>0. CallerOf(q) /\ UNCHANGED host
    BY <1>0, <1>7, ClientFrame DEF CallerInv
  <2>1. ~ Accept /\ ~ Refuse
    BY <1>0, <1>7, <2>0, Taken DEF host, Accept, Refuse, Take, AgentAt, Fresh, TypeOK
  <2>2. CASE Write(q) /\ Send([kind |-> "request", id |-> q])
    <3>1. [kind |-> "request", id |-> q] \in ToAgentFrame
      BY DEF ToAgentFrame
    <3>2. Unsent(q) /\ ~ Unsent(q)'
      <4>1. pc[q] = "write" /\ result[q] = "none" /\ pc'[q] = "wait" /\ result' = result
        BY <1>0, <2>0, <2>2 DEF TypeOK, Write, Send, CallerOf, Goto
      <4> QED BY <4>1 DEF Unsent
    <3> QED BY <1>6, <2>1, <2>2, <3>1, <3>2
  <2>3. CASE SendCancel(q) /\ Send([kind |-> "cancel", id |-> q])
    <3>1. [kind |-> "cancel", id |-> q] \in ToAgentFrame
      BY DEF ToAgentFrame
    <3>2. pc'[q] = "done" /\ result'[q] = "timeout"
      BY <1>0, <2>0, <2>3 DEF TypeOK, SendCancel, CallerOf, Goto
    <3> QED BY <1>6, <2>1, <2>3, <3>1, <3>2 DEF Unsent
  <2>4. CASE toAgent' = toAgent
    BY <1>4, <1>5, <2>1, <2>4
  <2> QED BY <1>7, <2>2, <2>3, <2>4
         DEF Register, Caller, StartReader, Write, Receive, Expire, Drop, SendCancel, pipes
<1>8. CASE Accept \/ Refuse
  <2>1. Take("request") /\ UNCHANGED client
    BY <1>8, HostFrame DEF Accept, Refuse, Agent
  <2>2. /\ Head(toAgent) = toAgent[1] /\ 1 \in 1..Len(toAgent) /\ toAgent[1].kind = "request"
        /\ \A i \in 1..Len(toAgent') : /\ i + 1 \in 1..Len(toAgent) /\ toAgent'[i] = toAgent[i + 1]
                                       /\ i + 1 # 1
        /\ toAgent' \in Seq(ToAgentFrame) /\ toAgent[1] \in ToAgentFrame
    BY <1>0, <2>1, TakePipe
  <2>3. \A i \in 1..Len(toAgent') : toAgent'[i] \in ToAgentFrame
    BY <1>1, <2>2
  <2>4. \A i \in 1..Len(toAgent') :
           toAgent'[i].kind = "request" => toAgent'[i].id # toAgent[1].id
    <3> SUFFICES ASSUME NEW i \in 1..Len(toAgent'), toAgent'[i].kind = "request",
                        toAgent'[i].id = toAgent[1].id
                 PROVE  FALSE
      OBVIOUS
    <3>1. toAgent'[i] = toAgent[1]
      BY <2>2, <2>3 DEF ToAgentFrame
    <3> QED BY <1>0, <2>2, <3>1 DEF ToAgentInv
  <2>5. \A i \in 1..Len(toAgent') : toAgent'[i].kind = "request" => toAgent'[i].id \in Untouched'
    <3>1. \A r \in Untouched : r # toAgent[1].id => r \in Untouched'
      BY <2>2, FreshStep DEF Untouched
    <3> QED BY <1>0, <2>2, <2>4, <3>1 DEF ToAgentInv
  <2>6. \A i \in 1..Len(toAgent') :
          /\ toAgent'[i].id \in Sent'
          /\ toAgent'[i].kind = "cancel" => result'[toAgent'[i].id] = "timeout"
    <3> SUFFICES ASSUME NEW i \in 1..Len(toAgent')
                 PROVE  /\ toAgent'[i].id \in Sent'
                        /\ toAgent'[i].kind = "cancel" => result'[toAgent'[i].id] = "timeout"
      OBVIOUS
    <3>1. toAgent'[i] = toAgent[i + 1] /\ i + 1 \in 1..Len(toAgent) /\ toAgent'[i].id \in Requests
      BY <2>2, <2>3 DEF ToAgentFrame
    <3>2. /\ toAgent[i + 1].id \in Sent
          /\ toAgent[i + 1].kind = "cancel" => result[toAgent[i + 1].id] = "timeout"
      BY <1>0, <3>1 DEF ToAgentInv
    <3> QED BY <1>2, <1>3, <3>1, <3>2
  <2>7. \A i, j \in 1..Len(toAgent') :
          toAgent'[i].kind = "request" /\ toAgent'[i] = toAgent'[j] => i = j
    BY <1>0, <2>2 DEF ToAgentInv
  <2> QED BY <2>5, <2>6, <2>7 DEF ToAgentInv
<1>9. CASE Reader \/ Cut \/ AgentDies \/ (Agent /\ ~ Accept /\ ~ Refuse)
              \/ \E q \in Requests : Acquire(q) \/ Work(q)
  <2>1. toAgent' \in Seq(ToAgentFrame) /\ Part(toAgent', toAgent)
    <3>1. CASE Cut \/ AgentDies
      BY <1>1, <3>1, ArrivesPart DEF Cut, AgentDies, Break
    <3>2. CASE TakeCancel
      BY <1>0, <3>2, TakePipe DEF TakeCancel
    <3>3. CASE Reader \/ WriteRefusal \/ EndSession \/ Leave \/ \E q \in Requests : Acquire(q) \/ Work(q)
      BY <1>5, <3>3 DEF Reader, Read, ReadEnd, Deliver, WriteRefusal, EndSession, Leave, pipes,
         Work, Acquire, Run, Abort, Finish, Backup, Reset, Import, Imported, Step, Unregister, WriteResponse
    <3> QED BY <1>9, <3>1, <3>2, <3>3 DEF Agent
  <2>2. CASE Accept \/ Refuse
    BY <1>8, <2>2
  <2>3. CASE ~ (Accept \/ Refuse)
    BY <1>4, <2>1, <2>3
  <2> QED BY <2>2, <2>3
<1> QED
  BY Steps, <1>7, <1>8, <1>9

\* An answer is in the pipe at most once, and gone from it when it has arrived.
LEMMA ToClientStep ==
    ASSUME Inv, Next
    PROVE  ToClientInv'
<1>0. TypeOK /\ ToClientInv /\ StageInv /\ ReaderInv /\ RefusingInv
  BY DEF Inv
<1>1. toClient \in Seq(ToClientFrame) /\ \A i \in 1..Len(toClient) : toClient[i] \in ToClientFrame
  BY <1>0, Pipes
<1> DEFINE Arrivals == {r \in Requests : Arrived(r)}
<1>2. \A i \in 1..Len(toClient) : toClient[i].id \in Requests \ Arrivals
  BY <1>0, <1>1 DEF ToClientInv, ToClientFrame
<1>3. SUFFICES /\ \A i \in 1..Len(toClient') : toClient'[i].id \in Requests \ Arrivals'
               /\ \A i, j \in 1..Len(toClient') : toClient'[i].id = toClient'[j].id => i = j
  BY DEF ToClientInv
<1>4. ASSUME Arrivals' \subseteq Arrivals, toClient' \in Seq(ToClientFrame), Part(toClient', toClient)
      PROVE  /\ \A i \in 1..Len(toClient') : toClient'[i].id \in Requests \ Arrivals'
             /\ \A i, j \in 1..Len(toClient') : toClient'[i].id = toClient'[j].id => i = j
  <2>1. /\ \A i \in 1..Len(toClient') : \E j \in 1..Len(toClient) : toClient'[i] = toClient[j]
        /\ \A i, j \in 1..Len(toClient') : \E m, n \in 1..Len(toClient) :
              toClient'[i] = toClient[m] /\ toClient'[j] = toClient[n] /\ (m = n => i = j)
    BY <1>1, <1>4, PartIds
  <2>2. \A i \in 1..Len(toClient') : toClient'[i].id \in Requests \ Arrivals'
    BY <1>2, <1>4, <2>1
  <2>3. ASSUME NEW i \in 1..Len(toClient'), NEW j \in 1..Len(toClient'), toClient'[i].id = toClient'[j].id
        PROVE  i = j
    <3>1. PICK m \in 1..Len(toClient), n \in 1..Len(toClient) :
             toClient'[i] = toClient[m] /\ toClient'[j] = toClient[n] /\ (m = n => i = j)
      BY <2>1
    <3>2. m = n
      BY <1>0, <2>3, <3>1 DEF ToClientInv
    <3> QED BY <3>1, <3>2
  <2> QED BY <2>2, <2>3
<1>5. toClient' = toClient => toClient' \in Seq(ToClientFrame) /\ Part(toClient', toClient)
  <2>1. Len(toClient) \in Nat
    BY <1>1, LenProperties
  <2>2. Len(toClient) + 0 <= Len(toClient) /\ \A i \in 1..Len(toClient) : toClient[i] = toClient[i + 0]
    BY <2>1
  <2> QED BY <1>1, <2>2 DEF Part
<1>6. ASSUME NEW q \in Requests, NEW answer \in Answers, Respond(q, answer), ~ Replied(q), UNCHANGED client
      PROVE  /\ \A i \in 1..Len(toClient') : toClient'[i].id \in Requests \ Arrivals'
             /\ \A i, j \in 1..Len(toClient') : toClient'[i].id = toClient'[j].id => i = j
  <2>1. \A i \in 1..Len(toClient') :
           \/ i \in 1..Len(toClient) /\ toClient'[i] = toClient[i]
           \/ i = Len(toClient) + 1 /\ toClient'[i] = [id |-> q, answer |-> answer]
    BY <1>0, <1>6, RespondPipe
  <2>2. Arrivals' = Arrivals /\ q \notin Arrivals
    BY <1>6 DEF client, Arrived, Replied
  <2>3. \A i \in 1..Len(toClient) : toClient[i].id # q
    BY <1>6 DEF Replied
  <2> HIDE DEF Arrivals
  <2>4. \A i \in 1..Len(toClient') : toClient'[i].id \in Requests \ Arrivals'
    BY <1>2, <2>1, <2>2
  <2>5. \A i, j \in 1..Len(toClient') : toClient'[i].id = toClient'[j].id => i = j
    BY <1>0, <2>1, <2>3 DEF ToClientInv
  <2> QED BY <2>4, <2>5
<1>7. ASSUME NEW q \in Requests, Register(q) \/ Caller(q)
      PROVE  Arrivals' \subseteq Arrivals /\ toClient' = toClient
  BY <1>7, CallerMoves DEF Arrived
<1>8. CASE Read
  <2>1. /\ Head(toClient) = toClient[1] /\ 1 \in 1..Len(toClient) /\ toClient[1] \in ToClientFrame
        /\ \A i \in 1..Len(toClient') : i + 1 \in 1..Len(toClient) /\ toClient'[i] = toClient[i + 1]
        /\ \A i \in 1..Len(toClient') : i + 1 # 1 /\ (\A j \in 1..Len(toClient') : i + 1 = j + 1 => i = j)
    BY <1>0, <1>8, ReadPipe
  <2>2. Arrivals' \subseteq Arrivals \cup {toClient[1].id}
    BY <1>8, <2>1 DEF Read, Addressee, Arrived
  <2> HIDE DEF Arrivals
  <2>3. \A i \in 1..Len(toClient') : toClient'[i].id # toClient[1].id
    BY <1>0, <2>1 DEF ToClientInv
  <2>4. \A i \in 1..Len(toClient') : toClient'[i].id \in Requests \ Arrivals'
    BY <1>2, <2>1, <2>2, <2>3
  <2>5. \A i, j \in 1..Len(toClient') : toClient'[i].id = toClient'[j].id => i = j
    BY <1>0, <2>1 DEF ToClientInv
  <2> QED BY <2>4, <2>5
<1>9. CASE ReadEnd \/ Deliver
  <2>1. toClient' = toClient
    BY <1>9 DEF ReadEnd, Deliver, pipes
  <2>2. Arrivals' \subseteq Arrivals
    <3>1. CASE ReadEnd
      BY <3>1 DEF ReadEnd, Arrived
    <3>2. CASE Deliver
      BY <1>0, <3>2 DEF Deliver, Arrived, ReaderInv, Answers
    <3> QED BY <1>9, <3>1, <3>2
  <2> QED BY <1>4, <1>5, <2>1, <2>2
<1>10. CASE Cut \/ AgentDies
  <2>1. toClient' \in Seq(ToClientFrame) /\ Part(toClient', toClient)
    BY <1>1, <1>10, ArrivesPart DEF Cut, AgentDies, Break
  <2>2. Arrivals' = Arrivals
    BY <1>0, <1>10, BreakFrame DEF client, Arrived
  <2> QED BY <1>4, <2>1, <2>2
<1>11. CASE Agent \/ \E q \in Requests : Acquire(q) \/ Work(q)
  <2>0. UNCHANGED client /\ Arrivals' = Arrivals
    BY <1>11, HostFrame DEF client, Arrived
  <2>1. CASE WriteRefusal /\ Respond(agent.id, "error")
    <3>1. agent.id \in Requests /\ "error" \in Answers
      BY <1>0, <2>1, NoneAssumption DEF TypeOK, WriteRefusal, AgentAt, RefusingInv, Answers
    <3>2. ~ Replied(agent.id)
      BY <1>0, <2>1, <3>1 DEF WriteRefusal, StageInv, StageOf, Refusing
    <3> QED BY <1>6, <2>0, <2>1, <3>1, <3>2
  <2>2. ASSUME NEW q \in Requests, WriteResponse(q)
        PROVE  /\ \A i \in 1..Len(toClient') : toClient'[i].id \in Requests \ Arrivals'
               /\ \A i, j \in 1..Len(toClient') : toClient'[i].id = toClient'[j].id => i = j
    <3>1. verdict[q] \in Answers /\ Respond(q, verdict[q]) /\ worker[q] = "respond"
      BY <1>0, <2>2 DEF TypeOK, WriteResponse, WorkerAt
    <3>2. ~ Replied(q)
      BY <1>0, <3>1 DEF StageInv, StageOf
    <3> QED BY <1>6, <2>0, <3>1, <3>2
  <2>3. CASE toClient' = toClient
    BY <1>4, <1>5, <2>0, <2>3
  <2>4. CASE Agent
    BY <2>1, <2>3, <2>4 DEF Agent, Accept, Refuse, WriteRefusal, TakeCancel, EndSession, Leave, pipes
  <2>5. ASSUME NEW q \in Requests, Acquire(q) \/ Work(q)
        PROVE  WriteResponse(q) \/ toClient' = toClient
    BY <2>5 DEF Work, Acquire, Run, Abort, Finish, Backup, Reset, Import, Imported, Step, Unregister, pipes
  <2> QED BY <1>11, <2>2, <2>3, <2>4, <2>5
<1> QED
  BY Steps, <1>4, <1>5, <1>7, <1>8, <1>9, <1>10, <1>11 DEF Reader

\* As long as the connection stands, whoever waits is registered.
LEMMA AwaitedStep ==
    ASSUME Inv, Next
    PROVE  AwaitedInv'
<1> SUFFICES ASSUME NEW r \in Requests, link' = "up", pc'[r] # "idle", ~ Replied(r)'
             PROVE  r \in pending' \/ result'[r] = "timeout"
  BY DEF AwaitedInv
<1>0. TypeOK /\ CallerOf(r) /\ CallerInv /\ ReaderInv
  BY DEF Inv, CallerInv
<1>1. ~ Replied(r) \/ result[r] = "timeout"
  BY LostReply
<1>2. link = "up" /\ pc[r] # "idle" => r \in pending \/ result[r] = "timeout"
  BY <1>1 DEF Inv, AwaitedInv
<1>3. ASSUME NEW q \in Requests, Register(q) \/ Caller(q)
      PROVE  r \in pending' \/ result'[r] = "timeout"
  <2>0. link = "up" /\ (result[r] = "timeout" => result'[r] = "timeout")
    BY <1>3, CallerMoves
  <2>1. CASE Register(q)
    BY <1>0, <1>2, <2>0, <2>1 DEF Register, TypeOK, Goto
  <2>2. CASE Drop(q)
    <3>1. result[q] \in {"timeout", "failed"} /\ result' = result /\ link = "up"
      BY <1>0, <2>0, <2>2 DEF Drop, CallerInv, CallerOf
    <3>2. result[q] # "failed"
      BY <1>0, <3>1 DEF CallerInv, CallerOf
    <3> QED BY <1>0, <1>2, <2>0, <2>2, <3>1, <3>2 DEF TypeOK, Drop, Goto
  <2>3. CASE StartReader(q) \/ Write(q) \/ Receive(q) \/ Expire(q) \/ SendCancel(q)
    <3>1. pending' = pending /\ (pc[r] = "idle" => pc'[r] = "idle")
      BY <1>0, <2>3 DEF TypeOK, StartReader, Write, Receive, Expire, SendCancel, Goto
    <3> QED BY <1>2, <2>0, <3>1
  <2> QED BY <1>3, <2>1, <2>2, <2>3 DEF Caller
<1>4. CASE Read
  <2>1. UNCHANGED <<pc, result, link>>
    BY <1>4 DEF Read
  <2>2. CASE r \in pending /\ r \notin pending'
    <3>1. reader'.at = "sending" /\ r \in reader'.to
      BY <1>4, <2>2 DEF Read, Addressee
    <3> QED BY <3>1 DEF Replied, Arrived
  <2> QED BY <1>2, <2>1, <2>2
<1>5. CASE ReadEnd \/ Deliver
  BY <1>2, <1>5 DEF ReadEnd, Deliver, pipes
<1>6. CASE Cut \/ AgentDies
  BY <1>0, <1>6, BreakFrame
<1>7. CASE Agent \/ \E q \in Requests : Acquire(q) \/ Work(q)
  BY <1>2, <1>7, HostFrame DEF client
<1> QED
  BY Steps, <1>3, <1>4, <1>5, <1>6, <1>7 DEF Reader

\* No answer comes before its caller is registered.
LEMMA ExpectedStep ==
    ASSUME Inv, Next
    PROVE  AnswerExpected'
<1>0. TypeOK /\ ToClientInv /\ ToClientInv' /\ TypeOK' /\ StageInv /\ CallerInv /\ AwaitedInv
  BY CallerType, ReaderType, AgentType, WorkerType, ToClientStep, Steps DEF Inv
<1> DEFINE Awaited == pending \cup {r \in Requests : result[r] = "timeout"}
<1>1. /\ toClient \in Seq(ToClientFrame) /\ DOMAIN toClient = 1..Len(toClient)
      /\ toClient' \in Seq(ToClientFrame) /\ DOMAIN toClient' = 1..Len(toClient')
  <2>1. toClient' \in Seq(ToClientFrame)
    BY <1>0 DEF TypeOK, ToClientFrame
  <2> QED BY <1>0, <2>1, Pipes, LenProperties
<1>2. \A i \in 1..Len(toClient) : toClient[i].id \in Awaited
  <2>1. \A i \in 1..Len(toClient) : toClient[i].id \in Requests
    BY <1>0, Pipes DEF ToClientFrame
  <2> QED BY <1>1, <2>1 DEF Inv, AnswerExpected
<1>3. SUFFICES \A i \in 1..Len(toClient') : toClient'[i].id \in Awaited'
  BY <1>1 DEF AnswerExpected
<1>4. ASSUME NEW q \in Requests, Register(q) \/ Caller(q)
      PROVE  \A i \in 1..Len(toClient') : toClient'[i].id \in Awaited'
  <2>1. toClient' = toClient /\ \A r \in Requests : result[r] = "timeout" => result'[r] = "timeout"
    BY <1>4, CallerMoves
  <2>2. CASE Drop(q)
    <3>1. CASE result[q] = "timeout"
      BY <1>2, <2>1, <2>2, <3>1 DEF Drop
    <3>2. CASE result[q] = "failed"
      <4>1. \A i \in 1..Len(toClient) : toClient[i].id # q
        BY <1>0, <3>2 DEF StageInv, StageOf, Unsent, Fresh, Replied
      <4> QED BY <1>2, <2>1, <2>2, <4>1 DEF Drop
    <3> QED BY <1>0, <2>2, <3>1, <3>2 DEF Drop, CallerInv, CallerOf
  <2>3. CASE ~ Drop(q)
    <3>1. pending \subseteq pending'
      BY <1>4, <2>3 DEF Register, Caller, StartReader, Write, Receive, Expire, SendCancel
    <3> QED BY <1>2, <2>1, <3>1
  <2> QED BY <2>2, <2>3
<1>5. CASE Read
  <2>1. /\ Head(toClient) = toClient[1] /\ 1 \in 1..Len(toClient)
        /\ \A i \in 1..Len(toClient') : i + 1 \in 1..Len(toClient) /\ toClient'[i] = toClient[i + 1] /\ i + 1 # 1
    BY <1>0, <1>5, ReadPipe
  <2>2. \A i \in 1..Len(toClient') : toClient'[i].id # toClient[1].id
    BY <1>0, <2>1 DEF ToClientInv
  <2>3. pending \ {toClient[1].id} \subseteq pending' /\ result' = result
    BY <1>5, <2>1 DEF Read, Addressee
  <2> QED BY <1>2, <2>1, <2>2, <2>3
<1>6. CASE ReadEnd
  <2>1. toClient' = <<>>
    BY <1>6 DEF ReadEnd, pipes
  <2> QED BY <2>1
<1>7. CASE Deliver
  BY <1>2, <1>7 DEF Deliver, pipes
<1>8. CASE Cut \/ AgentDies
  <2>1. \A i \in 1..Len(toClient') : \E j \in 1..Len(toClient) : toClient'[i] = toClient[j]
    BY <1>0, <1>1, <1>8, BreakFrame, PartIds
  <2> QED BY <1>0, <1>2, <1>8, <2>1, BreakFrame DEF client
<1>9. ASSUME NEW q \in Requests, NEW answer \in Answers, Respond(q, answer), ~ Replied(q), ~ Unsent(q),
             UNCHANGED client
      PROVE  \A i \in 1..Len(toClient') : toClient'[i].id \in Awaited'
  <2>1. \A i \in 1..Len(toClient') :
           \/ i \in 1..Len(toClient) /\ toClient'[i] = toClient[i]
           \/ i = Len(toClient) + 1 /\ toClient'[i] = [id |-> q, answer |-> answer]
    BY <1>0, <1>9, RespondPipe
  <2>2. Awaited' = Awaited
    BY <1>9 DEF client
  <2>3. CASE link = "up"
    <3>1. q \in Awaited
      BY <1>0, <1>9, <2>3 DEF AwaitedInv, Unsent
    <3> HIDE DEF Awaited
    <3> QED BY <1>2, <2>1, <2>2, <3>1
  <2>4. CASE link # "up"
    BY <1>2, <1>9, <2>2, <2>4 DEF Respond
  <2> QED BY <2>3, <2>4
<1>10. CASE Agent
  <2>0. UNCHANGED client
    BY <1>10, HostFrame
  <2>1. CASE WriteRefusal /\ Respond(agent.id, "error")
    <3>1. agent.id \in Requests /\ "error" \in Answers
      BY <1>0, <2>1, NoneAssumption DEF TypeOK, WriteRefusal, AgentAt, Inv, RefusingInv, Answers
    <3>2. ~ Replied(agent.id) /\ ~ Unsent(agent.id)
      BY <1>0, <2>1, <3>1 DEF WriteRefusal, StageInv, StageOf, Refusing, Fresh
    <3> QED BY <1>9, <2>0, <2>1, <3>1, <3>2
  <2>2. CASE toClient' = toClient
    BY <1>2, <2>0, <2>2 DEF client
  <2> QED BY <1>10, <2>1, <2>2 DEF Agent, Accept, Refuse, WriteRefusal, TakeCancel, EndSession, Leave, pipes
<1>11. ASSUME NEW q \in Requests, Acquire(q) \/ Work(q)
       PROVE  \A i \in 1..Len(toClient') : toClient'[i].id \in Awaited'
  <2>0. UNCHANGED client
    BY <1>11, HostFrame
  <2>1. CASE WriteResponse(q)
    <3>1. verdict[q] \in Answers /\ Respond(q, verdict[q]) /\ worker[q] = "respond"
      BY <1>0, <2>1 DEF TypeOK, WriteResponse, WorkerAt
    <3>2. ~ Replied(q) /\ ~ Unsent(q)
      BY <1>0, <3>1 DEF StageInv, StageOf, Fresh
    <3> QED BY <1>9, <2>0, <3>1, <3>2
  <2>2. CASE ~ WriteResponse(q)
    <3>1. toClient' = toClient
      BY <1>11, <2>2 DEF Work, Acquire, Run, Abort, Finish, Backup, Reset, Import, Imported, Step, Unregister, pipes
    <3> QED BY <1>2, <2>0, <3>1 DEF client
  <2> QED BY <2>1, <2>2
<1> QED
  BY Steps, <1>4, <1>5, <1>6, <1>7, <1>8, <1>10, <1>11 DEF Reader
-----------------------------------------------------------------------------
(* The theorems.                                                           *)

\* The inductive invariant holds of every initial state.
LEMMA InitInv ==
    ASSUME Init
    PROVE  Inv
<1>1. TypeOK
  BY NoneAssumption DEF Init, TypeOK, CallPoint, Results, Answers, WorkerPoint
<1>2. CallerInv /\ ReaderInv /\ RefusingInv /\ OkInv /\ WorkInv /\ RebuildAlone /\ OwnCancel
  BY DEF Init, CallerInv, CallerOf, ReaderInv, RefusingInv, AgentAt, OkInv, OkOf, WorkInv, WorkOf,
         RebuildAlone, OwnCancel
<1>3. \A r \in Requests : Fresh(r) /\ ~ Registered(r)
  <2> SUFFICES ASSUME NEW r \in Requests PROVE Fresh(r) /\ ~ Registered(r)
    OBVIOUS
  <2>1. ~ Arrived(r)
    BY DEF Init, Arrived, Answers
  <2>2. ~ \E i \in 1..Len(toClient) : toClient[i].id = r
    BY DEF Init
  <2>3. ~ Registered(r)
    BY NoneAssumption, OperationAssumption DEF Init, Registered
  <2>4. worker[r] = "none" /\ ~ Refusing(r)
    BY DEF Init, Refusing, AgentAt
  <2> QED BY <2>1, <2>2, <2>3, <2>4 DEF Fresh, Replied
<1>4. StageInv
  BY <1>3 DEF Init, StageInv, StageOf, Fresh
<1>5. ToAgentInv /\ ToClientInv /\ AwaitedInv /\ AnswerExpected
  <2>1. toAgent = <<>> /\ toClient = <<>> /\ \A r \in Requests : pc[r] = "idle"
    BY DEF Init
  <2>2. DOMAIN toClient = {}
    BY <2>1
  <2> QED BY <2>1, <2>2 DEF ToAgentInv, ToClientInv, AwaitedInv, AnswerExpected
<1> QED BY <1>1, <1>2, <1>4, <1>5 DEF Inv

\* Every step keeps it.
LEMMA NextInv ==
    ASSUME Inv, [Next]_vars
    PROVE  Inv'
<1>1. CASE Next
  <2>1. TypeOK'
    BY <1>1, Steps, CallerType, ReaderType, AgentType, WorkerType
  <2>2. CallerInv' /\ ReaderInv' /\ RefusingInv' /\ OkInv' /\ WorkInv' /\ RebuildAlone' /\ OwnCancel'
    BY <1>1, CallerStep, ReaderStep, OkStep, WorkStep, CancelStep
  <2>3. StageInv' /\ ToAgentInv' /\ ToClientInv' /\ AwaitedInv' /\ AnswerExpected'
    BY <1>1, StageStep, ToAgentStep, ToClientStep, AwaitedStep, ExpectedStep
  <2> QED BY <2>1, <2>2, <2>3 DEF Inv
<1>2. CASE UNCHANGED vars
  <2> USE <1>2 DEF vars, client, pipes, host, database
  <2>1. TypeOK' /\ CallerInv' /\ ReaderInv' /\ RefusingInv' /\ WorkInv' /\ RebuildAlone' /\ OwnCancel'
    BY DEF Inv, TypeOK, CallerInv, CallerOf, ReaderInv, RefusingInv, AgentAt, WorkInv, WorkOf,
           RebuildAlone, OwnCancel
  <2>2. OkInv' /\ StageInv' /\ AwaitedInv' /\ AnswerExpected'
    BY DEF Inv, OkInv, OkOf, StageInv, StageOf, Unsent, Fresh, Refusing, AgentAt, Replied, Arrived,
           Registered, AwaitedInv, AnswerExpected
  <2>3. ToAgentInv' /\ ToClientInv'
    BY DEF Inv, ToAgentInv, ToClientInv, Sent, Unsent, Untouched, Fresh, Refusing, AgentAt, Replied,
           Arrived
  <2> QED BY <2>1, <2>2, <2>3 DEF Inv
<1> QED BY <1>1, <1>2

\* The inductive invariant holds of every reachable state.
LEMMA Invariance == Spec => []Inv
<1>1. Init => Inv
  BY InitInv
<1>2. Inv /\ [Next]_vars => Inv'
  BY NextInv
<1> QED BY <1>1, <1>2, PTL DEF Spec

\* Every variable has its type, and a call that has returned has a result
\* (invoke_with_id, reader_loop, run_session).
THEOREM TypeCorrect == Spec => []TypeOK
<1>1. Inv => TypeOK
  BY DEF Inv
<1> QED BY <1>1, Invariance, PTL

\* No answer overtakes the registration of its caller (client.rs: the entry is made
\* before the reading end is handed over and the request written).
THEOREM NoEarlyAnswer == Spec => []AnswerExpected
<1>1. Inv => AnswerExpected
  BY DEF Inv
<1> QED BY <1>1, Invariance, PTL

\* The registries of both sides are rid of a call that has returned: its entry is gone,
\* and its operation id is free when it has its answer (invoke_with_id, run_session).
THEOREM RegistriesAreClean == Spec => []NothingLeftBehind
<1>1. Inv => \A r \in pending : pc[r] # "done"
  BY DEF Inv, TypeOK, CallerInv, CallerOf
<1>2. Inv => \A r \in Requests : result[r] \in Answers => ~ Registered(r)
  BY DEF Inv, StageInv, StageOf, Replied, Arrived
<1>3. Inv => NothingLeftBehind
  BY <1>1, <1>2 DEF NothingLeftBehind
<1> QED BY <1>3, Invariance, PTL

\* A cancellation reaches the request it was sent for, whoever has its operation id
\* by then (run_session: Cancel).
THEOREM CancelsItsOwn == Spec => []OwnCancel
<1>1. Inv => OwnCancel
  BY DEF Inv
<1> QED BY <1>1, Invariance, PTL

\* A rebuild of the usage records is never mixed with a synchronisation
\* (usage/mutation.rs: session_sync_guard).
THEOREM RebuildsAlone == Spec => []RebuildAlone
<1>1. Inv => RebuildAlone
  BY DEF Inv
<1> QED BY <1>1, Invariance, PTL
-----------------------------------------------------------------------------
(* Nothing is forgotten, and nobody waits in a circle.                     *)

\* The guard of the usage records is held by a worker that is at work on them.
GuardInv == guard # None =>
    guard \in Requests /\ worker[guard] \in {"backup", "reset", "import"}

\* The agent reads until the connection is over; the reader thread is started by
\* the first call, before its request is written, and carries only what it is
\* about to deliver.
FlowInv ==
    /\ link = "up" => agent.at \in {"reading", "refusing"}
    /\ \A r \in Requests : pc[r] \notin {"idle", "start"} => reader.at # "unstarted"
    /\ reader.at \notin {"sending", "failing"} => reader.to = {}
    /\ GuardInv
    /\ NoneForgotten

\* Only a worker gives the guard away or takes it.
LEMMA GuardStep ==
    ASSUME Inv, GuardInv, Next
    PROVE  GuardInv'
<1> USE DEF GuardInv
<1>0. TypeOK /\ WorkInv
  BY DEF Inv
<1>1. CASE Reader \/ \E q \in Requests : Register(q) \/ Caller(q)
  BY <1>1, ClientFrame DEF host
<1>2. CASE Cut
  BY <1>2 DEF Cut, host
<1>3. CASE AgentDies
  BY <1>3 DEF AgentDies
<1>4. CASE Agent
  <2>1. guard' = guard
    BY <1>4 DEF Agent, Accept, Refuse, WriteRefusal, TakeCancel, EndSession, Leave
  <2>2. CASE Accept
    <3>1. Head(toAgent) = toAgent[1] /\ 1 \in 1..Len(toAgent) /\ toAgent[1].kind = "request"
      BY <1>0, <2>2, TakePipe DEF Accept
    <3>2. worker[toAgent[1].id] = "none"
      BY <3>1 DEF Inv, ToAgentInv, Untouched, Fresh
    <3>3. \A r \in Requests : worker[r] # "none" => worker'[r] = worker[r]
      BY <1>0, <2>2, <3>1, <3>2 DEF Accept, TypeOK
    <3> QED BY <2>1, <3>3
  <2>3. CASE ~ Accept
    <3>1. worker' = worker
      BY <1>4, <2>3 DEF Agent, Refuse, WriteRefusal, TakeCancel, EndSession, Leave
    <3> QED BY <2>1, <3>1
  <2> QED BY <2>2, <2>3
<1>5. ASSUME NEW q \in Requests, Acquire(q) \/ Work(q)
      PROVE  GuardInv'
  <2> USE <1>0 DEF TypeOK, WorkerGoto, WorkerAt
  <2>1. CASE Acquire(q)
    <3>1. guard' = q /\ worker'[q] \in {"backup", "import"}
      BY <2>1 DEF Acquire
    <3> QED BY <3>1
  <2>2. CASE Run(q) \/ Abort(q) \/ Imported(q)
    <3>1. Finishing(q)
      BY <2>2, Finishes
    <3>2. guard' # q /\ (guard' = guard \/ guard' = None) /\ worker' = [worker EXCEPT ![q] = "unregister"]
      BY <3>1, NoneAssumption DEF Finishing, Finish, Released
    <3> QED BY <3>2
  <2>3. CASE Backup(q) \/ Reset(q) \/ Import(q)
    <3>1. guard' = guard /\ worker'[q] \in {"reset", "import"}
          /\ \A r \in Requests \ {q} : worker'[r] = worker[r]
      BY <2>3 DEF Backup, Reset, Import, Step
    <3> QED BY <3>1
  <2>4. CASE Unregister(q) \/ WriteResponse(q)
    <3>1. worker[q] \in {"unregister", "respond"} /\ guard' = guard
          /\ \A r \in Requests \ {q} : worker'[r] = worker[r]
      BY <2>4 DEF Unregister, WriteResponse
    <3> QED BY <3>1
  <2> QED BY <1>5, <2>1, <2>2, <2>3, <2>4 DEF Work
<1> QED BY Steps, <1>1, <1>2, <1>3, <1>4, <1>5

\* The threads at both ends of the pipes stay there while the connection stands.
LEMMA EndsStep ==
    ASSUME Inv, FlowInv, Next
    PROVE  /\ link' = "up" => agent'.at \in {"reading", "refusing"}
           /\ \A r \in Requests : pc'[r] \notin {"idle", "start"} => reader'.at # "unstarted"
           /\ reader'.at \notin {"sending", "failing"} => reader'.to = {}
<1>0. TypeOK
  BY DEF Inv
<1> USE DEF FlowInv
<1>1. CASE Reader
  <2>1. UNCHANGED <<host, link, pc>>
    BY <1>1, ClientFrame DEF Reader, Read, ReadEnd, Deliver
  <2>2. reader'.at # "unstarted"
    BY <1>0, <1>1 DEF Reader, Read, ReadEnd, Deliver
  <2>3. reader'.at \notin {"sending", "failing"} => reader'.to = {}
    BY <1>0, <1>1 DEF Reader, Read, ReadEnd, Deliver
  <2> QED BY <2>1, <2>2, <2>3 DEF host
<1>2. ASSUME NEW q \in Requests, Register(q) \/ Caller(q)
      PROVE  /\ link' = "up" => agent'.at \in {"reading", "refusing"}
             /\ \A r \in Requests : pc'[r] \notin {"idle", "start"} => reader'.at # "unstarted"
             /\ reader'.at \notin {"sending", "failing"} => reader'.to = {}
  <2>1. UNCHANGED <<host, link>>
    BY <1>2, ClientFrame
  <2>2. CASE StartReader(q)
    BY <1>0, <2>1, <2>2 DEF StartReader, TypeOK, Goto, host
  <2>3. CASE ~ StartReader(q)
    BY <1>0, <1>2, <2>1, <2>3 DEF Register, Caller, Write, Receive, Expire, Drop, SendCancel,
           TypeOK, Goto, host
  <2> QED BY <2>2, <2>3
<1>3. CASE Cut \/ AgentDies
  BY <1>0, <1>3, BreakFrame DEF client
<1>4. CASE Agent
  <2>1. UNCHANGED <<client, link>>
    BY <1>4, HostFrame
  <2>2. link = "up" => agent'.at \in {"reading", "refusing"}
    BY <1>4 DEF Agent, Accept, Refuse, WriteRefusal, TakeCancel, EndSession, Leave, AgentAt
  <2> QED BY <2>1, <2>2 DEF client
<1>5. ASSUME NEW q \in Requests, Acquire(q) \/ Work(q)
      PROVE  UNCHANGED <<client, link, agent>>
  BY <1>5, HostFrame DEF Work, Acquire, Run, Abort, Finish, Backup, Reset, Import, Imported, Step,
              Unregister, WriteResponse
<1> QED BY Steps, <1>1, <1>2, <1>3, <1>4, <1>5 DEF client

\* Where a request is, with the indices of the pipes written out.
LEMMA WayOf ==
    ASSUME TypeOK, NEW r \in Requests
    PROVE  OnItsWay(r) <=>
             \/ \E i \in 1..Len(toAgent) : toAgent[i] = [kind |-> "request", id |-> r]
             \/ Refusing(r) \/ Running(r)
             \/ \E i \in 1..Len(toClient) : toClient[i].id = r
             \/ r \in reader.to
<1>1. DOMAIN toAgent = 1..Len(toAgent) /\ DOMAIN toClient = 1..Len(toClient)
  BY Pipes, LenProperties
<1> QED BY <1>1 DEF OnItsWay, Refusing

\* The answers' pipe is indexed by its length.
LEMMA PipeDomain == TypeOK => DOMAIN toClient = 1..Len(toClient)
  BY Pipes, LenProperties

\* A frame other than the one that is taken stays in the pipe.
LEMMA TakeKeeps ==
    ASSUME TypeOK, NEW kind, Take(kind), NEW i \in 1..Len(toAgent), toAgent[i] # toAgent[1]
    PROVE  \E j \in 1..Len(toAgent') : toAgent'[j] = toAgent[i]
<1>1. /\ Len(toAgent) \in Nat /\ Len(toAgent') = Len(toAgent) - 1
      /\ \A j \in 1..Len(toAgent') : toAgent'[j] = toAgent[j + 1]
  BY TakePipe
<1>2. i # 1 /\ i \in Nat
  BY <1>1
<1>3. i - 1 \in 1..Len(toAgent') /\ (i - 1) + 1 = i
  BY <1>1, <1>2
<1> QED BY <1>1, <1>3

\* A caller that still waits for an answer waited for it before, or has just
\* written its request.
LEMMA WayCaller ==
    ASSUME Inv, FlowInv, NEW q \in Requests, Register(q) \/ Caller(q), NEW r \in Requests,
           link' = "up", pc'[r] = "wait", inbox'[r] = "none"
    PROVE  OnItsWay(r)'
<1> USE DEF Inv
<1>0. /\ UNCHANGED <<host, link>> /\ toClient' = toClient /\ inbox' = inbox
      /\ reader'.to = reader.to
  BY CallerMoves
<1>1. \A i \in 1..Len(toAgent) : i \in 1..Len(toAgent') /\ toAgent'[i] = toAgent[i]
  <2>1. ASSUME NEW frame \in ToAgentFrame, Send(frame)
        PROVE  \A i \in 1..Len(toAgent) : i \in 1..Len(toAgent') /\ toAgent'[i] = toAgent[i]
    BY <2>1, Pipes, AppendFrame DEF Send
  <2>2. [kind |-> "request", id |-> q] \in ToAgentFrame /\ [kind |-> "cancel", id |-> q] \in ToAgentFrame
    BY DEF ToAgentFrame
  <2>3. toAgent' = toAgent \/ \E frame \in ToAgentFrame : Send(frame)
    BY <2>2 DEF Register, Caller, StartReader, Write, Receive, Expire, Drop, SendCancel, pipes
  <2> QED BY <2>1, <2>3
<1>2. CASE pc[r] = "wait"
  <2>1. OnItsWay(r)
    BY <1>0, <1>2 DEF FlowInv, NoneForgotten
  <2> QED BY <1>0, <1>1, <2>1, WayOf DEF OnItsWay, host, Running, AgentAt, TypeOK
<1>3. CASE pc[r] # "wait"
  <2>1. Write(r) /\ link = "up"
    BY <1>0, <1>3 DEF TypeOK, Register, Caller, StartReader, Write, Receive, Expire, Drop, SendCancel, Goto
  <2>2. Send([kind |-> "request", id |-> r])
    BY <2>1 DEF Write
  <2>3. [kind |-> "request", id |-> r] \in ToAgentFrame
    BY DEF ToAgentFrame
  <2>4. /\ toAgent' = Append(toAgent, [kind |-> "request", id |-> r])
        /\ toAgent \in Seq(ToAgentFrame)
    BY <2>2, Pipes DEF Send
  <2>5. /\ toAgent' \in Seq(ToAgentFrame) /\ Len(toAgent') = Len(toAgent) + 1
        /\ Len(toAgent) \in Nat /\ toAgent'[Len(toAgent) + 1] = [kind |-> "request", id |-> r]
    BY <2>3, <2>4, AppendFrame
  <2>6. DOMAIN toAgent' = 1..Len(toAgent')
    BY <2>5, LenProperties
  <2>7. Len(toAgent) + 1 \in DOMAIN toAgent'
    BY <2>5, <2>6
  <2> QED BY <2>5, <2>7 DEF OnItsWay
<1> QED BY <1>2, <1>3

\* An answer that is read is handed to its caller, which is still waiting for it.
LEMMA WayReader ==
    ASSUME Inv, FlowInv, Reader, NEW r \in Requests,
           link' = "up", pc'[r] = "wait", inbox'[r] = "none"
    PROVE  OnItsWay(r)'
<1>0. TypeOK /\ CallerOf(r) /\ UNCHANGED <<host, link, pc, result, toAgent>>
  BY ClientFrame DEF Inv, CallerInv, Reader, Read, ReadEnd, Deliver, pipes
<1>1. CASE Read
  <2>1. inbox' = inbox
    BY <1>1 DEF Read
  <2>2. OnItsWay(r)
    BY <1>0, <2>1 DEF FlowInv, NoneForgotten
  <2>3. reader.to = {}
    BY <1>1 DEF Read, FlowInv
  <2>4. CASE Running(r) \/ Refusing(r) \/ \E i \in 1..Len(toAgent) : toAgent[i] = [kind |-> "request", id |-> r]
    <3>1. DOMAIN toAgent = 1..Len(toAgent)
      BY <1>0, Pipes, LenProperties
    <3> QED BY <1>0, <2>4, <3>1 DEF OnItsWay, Running, Refusing, AgentAt, host
  <2>5. ASSUME NEW i \in 1..Len(toClient), toClient[i].id = r
        PROVE  OnItsWay(r)'
    <3>1. DOMAIN toClient = 1..Len(toClient) /\ DOMAIN toClient' = 1..Len(toClient')
      BY <1>0, <1>1, Pipes, ReadPipe, LenProperties
    <3>2. CASE i = 1
      <4>1. r \in pending
        BY <1>0, <2>5, <3>1, <3>2 DEF Inv, AnswerExpected, CallerOf
      <4>2. Head(toClient).id = r
        BY <1>0, <1>1, <2>5, <3>2, ReadPipe
      <4>3. Addressee(Head(toClient).id) = {r}
        BY <4>1, <4>2 DEF Addressee
      <4>4. r \in reader'.to
        BY <1>1, <4>3 DEF Read
      <4> QED BY <4>4 DEF OnItsWay
    <3>3. CASE i # 1
      <4>1. i - 1 \in 1..Len(toClient') /\ toClient'[i - 1].id = r
        BY <1>0, <1>1, <2>5, <3>3, ReadPipe
      <4> QED BY <3>1, <4>1 DEF OnItsWay
    <3> QED BY <3>2, <3>3
  <2> QED BY <1>0, <2>2, <2>3, <2>4, <2>5, WayOf
<1>2. CASE ReadEnd
  BY <1>0, <1>2 DEF ReadEnd
<1>3. CASE Deliver
  <2>1. reader.what # "none"
    BY <1>0 DEF TypeOK, Answers
  <2>2. r \notin reader.to /\ inbox[r] = "none" /\ toClient' = toClient
    BY <1>0, <1>3, <2>1 DEF Deliver, TypeOK, pipes
  <2>3. OnItsWay(r)
    BY <1>0, <2>2 DEF FlowInv, NoneForgotten
  <2> QED BY <1>0, <2>2, <2>3 DEF OnItsWay, Running, AgentAt, host
<1> QED BY <1>1, <1>2, <1>3 DEF Reader

\* A request that is taken is refused or gets a worker, and a refusal is written.
LEMMA WayAgent ==
    ASSUME Inv, FlowInv, Agent, NEW r \in Requests,
           link' = "up", pc'[r] = "wait", inbox'[r] = "none"
    PROVE  OnItsWay(r)'
<1>0. TypeOK /\ UNCHANGED <<client, link>> /\ link = "up" /\ OnItsWay(r)
  BY HostFrame DEF Inv, FlowInv, NoneForgotten, client
<1> DEFINE Frame == [kind |-> "request", id |-> r]
<1>1. CASE r \in reader.to
  BY <1>0, <1>1 DEF OnItsWay, client
<1>2. CASE \E i \in 1..Len(toClient) : toClient[i].id = r
  <2>1. PICK i \in 1..Len(toClient) : toClient[i].id = r
    BY <1>2
  <2>2. i \in 1..Len(toClient') /\ toClient'[i] = toClient[i]
    <3>1. CASE WriteRefusal
      <4>1. agent.id \in Requests /\ "error" \in Answers /\ Respond(agent.id, "error")
        BY <1>0, <3>1, NoneAssumption DEF TypeOK, WriteRefusal, AgentAt, Inv, RefusingInv, Answers
      <4> QED BY <1>0, <4>1, RespondPipe
    <3>2. CASE ~ WriteRefusal
      BY <3>2 DEF Agent, Accept, Refuse, TakeCancel, EndSession, Leave, pipes
    <3> QED BY <3>1, <3>2
  <2>3. DOMAIN toClient' = 1..Len(toClient')
    <3>1. (TypeOK => DOMAIN toClient = 1..Len(toClient))'
      BY PipeDomain, PTL
    <3> QED BY <3>1, AgentType
  <2> QED BY <2>1, <2>2, <2>3 DEF OnItsWay
<1>3. CASE Running(r)
  <2>1. Running(r)'
    <3>1. CASE Accept
      BY <1>0, <1>3, <3>1 DEF Accept, Running, TypeOK
    <3>2. CASE ~ Accept
      BY <1>3, <3>2 DEF Agent, Refuse, WriteRefusal, TakeCancel, EndSession, Leave, Running
    <3> QED BY <3>1, <3>2
  <2> QED BY <2>1 DEF OnItsWay
<1>4. CASE Refusing(r)
  <2>1. WriteRefusal
    BY <1>4 DEF Agent, Accept, Refuse, TakeCancel, EndSession, Leave, Take, AgentAt, Refusing
  <2>2. Respond(r, "error") /\ "error" \in Answers
    BY <1>0, <1>4, <2>1 DEF WriteRefusal, Refusing, Answers
  <2>3. (\E i \in 1..Len(toClient') : toClient'[i].id = r) /\ toClient' \in Seq(ToClientFrame)
    BY <1>0, <2>2, RespondPipe
  <2>4. DOMAIN toClient' = 1..Len(toClient')
    BY <2>3, LenProperties
  <2> QED BY <2>3, <2>4 DEF OnItsWay
<1>5. ASSUME NEW i \in 1..Len(toAgent), toAgent[i] = Frame
      PROVE  OnItsWay(r)'
  <2>1. ASSUME NEW kind, Take(kind), toAgent[1] # Frame
        PROVE  OnItsWay(r)'
    <3>1. \E j \in 1..Len(toAgent') : toAgent'[j] = Frame
      BY <1>0, <1>5, <2>1, TakeKeeps
    <3>2. DOMAIN toAgent' = 1..Len(toAgent')
      BY <1>0, <2>1, TakePipe, LenProperties
    <3> QED BY <3>1, <3>2 DEF OnItsWay
  <2>2. ASSUME Take("request"), toAgent[1] = Frame, Accept \/ Refuse
        PROVE  OnItsWay(r)'
    <3>1. Head(toAgent).id = r
      BY <1>0, <2>2, TakePipe
    <3>2. CASE Accept
      <4>1. worker'[r] \in {"run", "lock"}
        BY <1>0, <3>1, <3>2 DEF Accept, TypeOK
      <4> QED BY <4>1 DEF OnItsWay, Running
    <3>3. CASE Refuse
      <4>1. agent' = [at |-> "refusing", id |-> r]
        BY <3>1, <3>3 DEF Refuse
      <4> QED BY <4>1 DEF OnItsWay, AgentAt
    <3> QED BY <2>2, <3>2, <3>3
  <2>3. CASE Accept \/ Refuse
    BY <2>1, <2>2, <2>3 DEF Accept, Refuse
  <2>4. CASE TakeCancel
    <3>1. Take("cancel") /\ toAgent[1].kind = "cancel"
      BY <1>0, <2>4, TakePipe DEF TakeCancel
    <3> QED BY <2>1, <3>1
  <2>5. CASE WriteRefusal
    <3>1. toAgent' = toAgent
      BY <2>5 DEF WriteRefusal
    <3>2. DOMAIN toAgent = 1..Len(toAgent)
      BY <1>0, Pipes, LenProperties
    <3> QED BY <1>5, <3>1, <3>2 DEF OnItsWay
  <2>6. ~ EndSession /\ ~ Leave
    BY <1>0 DEF EndSession, Leave, FlowInv, AgentAt
  <2> QED BY <2>3, <2>4, <2>5, <2>6 DEF Agent
<1> QED BY <1>0, <1>1, <1>2, <1>3, <1>4, <1>5, WayOf

\* A worker goes on until it has written its answer.
LEMMA WayWorker ==
    ASSUME Inv, FlowInv, NEW q \in Requests, Acquire(q) \/ Work(q), NEW r \in Requests,
           link' = "up", pc'[r] = "wait", inbox'[r] = "none"
    PROVE  OnItsWay(r)'
<1>0. TypeOK /\ UNCHANGED <<client, link>> /\ link = "up" /\ OnItsWay(r)
  BY HostFrame DEF Inv, FlowInv, NoneForgotten, client
<1>1. CASE WriteResponse(q)
  <2>1. Respond(q, verdict[q]) /\ verdict[q] \in Answers
        /\ worker' = [worker EXCEPT ![q] = "ended"] /\ UNCHANGED <<toAgent, agent>>
    BY <1>0, <1>1 DEF WriteResponse, TypeOK, WorkerGoto
  <2>2. /\ toClient' \in Seq(ToClientFrame)
        /\ \E i \in 1..Len(toClient') : toClient'[i].id = q
        /\ \A i \in 1..Len(toClient) : i \in 1..Len(toClient') /\ toClient'[i] = toClient[i]
    BY <1>0, <2>1, RespondPipe
  <2>3. DOMAIN toClient' = 1..Len(toClient')
    BY <2>2, LenProperties
  <2>4. DOMAIN toClient = 1..Len(toClient)
    BY <1>0, Pipes, LenProperties
  <2>5. CASE r = q
    BY <2>2, <2>3, <2>5 DEF OnItsWay
  <2>6. CASE r # q
    BY <1>0, <2>1, <2>2, <2>3, <2>4, <2>6 DEF OnItsWay, Running, AgentAt, TypeOK, client
  <2> QED BY <2>5, <2>6
<1>2. CASE ~ WriteResponse(q)
  <2>1. UNCHANGED <<toAgent, toClient, agent>>
    BY <1>2 DEF Work, Acquire, Run, Abort, Finish, Backup, Reset, Import, Imported, Step, Unregister, pipes
  <2>2. Running(r) => Running(r)'
    BY <1>0, <1>2 DEF TypeOK, Work, Acquire, Run, Abort, Finish, Backup, Reset, Import, Imported, Step,
           Unregister, Running, WorkerGoto
  <2> QED BY <1>0, <2>1, <2>2 DEF OnItsWay, AgentAt, client
<1> QED BY <1>1, <1>2

\* The flow of the requests and the answers is kept by every step.
LEMMA FlowStep ==
    ASSUME Inv, FlowInv, [Next]_vars
    PROVE  FlowInv'
<1>1. CASE UNCHANGED vars
  BY <1>1 DEF vars, client, pipes, host, FlowInv, GuardInv, NoneForgotten, OnItsWay, AgentAt, Running
<1>2. CASE Next
  <2>1. GuardInv'
    BY <1>2, GuardStep DEF FlowInv
  <2>2. NoneForgotten'
    <3> SUFFICES ASSUME NEW r \in Requests, link' = "up", pc'[r] = "wait", inbox'[r] = "none"
                 PROVE  OnItsWay(r)'
      BY DEF NoneForgotten
    <3>1. ~ (Cut \/ AgentDies)
      BY BreakFrame DEF Inv
    <3> QED BY <1>2, <3>1, Steps, WayCaller, WayReader, WayAgent, WayWorker
  <2>3. /\ link' = "up" => agent'.at \in {"reading", "refusing"}
        /\ \A r \in Requests : pc'[r] \notin {"idle", "start"} => reader'.at # "unstarted"
        /\ reader'.at \notin {"sending", "failing"} => reader'.to = {}
    BY <1>2, EndsStep
  <2> QED BY <2>1, <2>2, <2>3 DEF FlowInv
<1> QED BY <1>1, <1>2

\* At first there is nothing that flows.
LEMMA FlowInit == Init => FlowInv
  BY DEF Init, FlowInv, GuardInv, NoneForgotten

\* In every reachable state.
LEMMA FlowInvariance == Spec => []FlowInv
<1>1. Inv /\ FlowInv /\ [Next]_vars => FlowInv'
  BY FlowStep
<1> QED BY <1>1, FlowInit, Invariance, PTL DEF Spec

\* No request and no answer is lost while the connection stands, with any calls,
\* operation ids and pipes (invoke_with_id, run_session, reader_loop).
THEOREM NothingLost == Spec => []NoneForgotten
<1>1. FlowInv => NoneForgotten
  BY DEF FlowInv
<1> QED BY <1>1, FlowInvariance, PTL

\* The threads of a session never wait in a circle: the reader waits for nobody,
\* so that both pipes, the registry and the guard come free in the end.
THEOREM NoCircularWait == Spec => []NoCircle
<1>1. Inv /\ FlowInv => NoCircle
  <2> SUFFICES ASSUME Inv, FlowInv PROVE NoCircle
    OBVIOUS
  <2>1. link = "up" /\ toClient # <<>> => reader.at \in {"reading", "sending"}
    <3> SUFFICES ASSUME link = "up", toClient # <<>> PROVE reader.at \in {"reading", "sending"}
      OBVIOUS
    <3>1. 1 \in 1..Len(toClient) /\ toClient[1].id \in Requests
      BY Pipes, EmptySeq, LenProperties DEF Inv, ToClientFrame
    <3>2. ~ Unsent(toClient[1].id)
      BY <3>1 DEF Inv, StageInv, StageOf, Fresh, Replied
    <3>3. reader.at # "unstarted"
      BY <3>1, <3>2 DEF Unsent, FlowInv
    <3> QED BY <3>3 DEF Inv, TypeOK, ReaderInv
  <2> QED BY <2>1 DEF NoCircle, FlowInv, GuardInv
<1> QED BY <1>1, Invariance, FlowInvariance, PTL
-----------------------------------------------------------------------------
(* The refinement.                                                         *)

\* What a caller knows depends on where it is and what it got.
LEMMA KnownOf ==
    ASSUME NEW r \in Requests
    PROVE  /\ pc[r] = "idle" => Known(r) = "idle"
           /\ pc[r] \notin {"idle", "done"} => Known(r) = "open"
           /\ pc[r] = "done" /\ result[r] = "ok" => Known(r) = "ok"
           /\ pc[r] = "done" /\ result[r] # "ok" => Known(r) = "failed"
  BY DEF Known

\* Nobody has called at first.
LEMMA InitCall ==
    ASSUME Init
    PROVE  Call!Init
  BY DEF Init, Call!Init, Known

\* The effects a step adds are those of commands that have left their callers.
LEMMA EffectStep ==
    ASSUME Inv, Next
    PROVE  \/ effect' = effect
           \/ /\ UNCHANGED client
              /\ \E r \in Requests : pc[r] # "idle" /\ r \notin effect /\ effect' = effect \cup {r}
<1>1. CASE Reader \/ \E q \in Requests : Register(q) \/ Caller(q)
  BY <1>1, ClientFrame DEF host
<1>2. CASE Cut \/ AgentDies
  BY <1>2, BreakFrame DEF Inv
<1>3. CASE Agent
  BY <1>3 DEF Agent, Accept, Refuse, WriteRefusal, TakeCancel, EndSession, Leave
<1>4. ASSUME NEW q \in Requests, Acquire(q) \/ Work(q)
      PROVE  \/ effect' = effect
             \/ /\ UNCHANGED client
                /\ \E r \in Requests : pc[r] # "idle" /\ r \notin effect /\ effect' = effect \cup {r}
  <2>1. CASE Run(q) \/ Abort(q) \/ Imported(q)
    <3>1. Finishing(q)
      BY <2>1, Finishes DEF Inv
    <3>2. UNCHANGED client /\ (effect' = effect \/ effect' = effect \cup {q})
      BY <3>1 DEF Finishing, Finish
    <3>3. pc[q] # "idle"
      BY <3>1 DEF Finishing, Inv, StageInv, StageOf, Fresh, Unsent
    <3> QED BY <3>2, <3>3
  <2>2. CASE ~ (Run(q) \/ Abort(q) \/ Imported(q))
    BY <1>4, <2>2 DEF Work, Acquire, Backup, Reset, Import, Step, Unregister, WriteResponse
  <2> QED BY <2>1, <2>2
<1> QED BY Steps, <1>1, <1>2, <1>3, <1>4

\* A step of a caller is a step of the promise, or none.
LEMMA CallerCall ==
    ASSUME Inv, NEW q \in Requests, Register(q) \/ Caller(q)
    PROVE  \/ [r \in Requests |-> Known(r)]' = [r \in Requests |-> Known(r)]
           \/ Call!Ask(q) \/ Call!Succeed(q) \/ Call!Fail(q)
<1> USE DEF Inv, TypeOK, Goto
<1>0. effect' = effect
  BY ClientFrame DEF host
<1>1. \A r \in Requests \ {q} : pc'[r] = pc[r] /\ result'[r] = result[r]
  BY DEF Register, Caller, StartReader, Write, Receive, Expire, Drop, SendCancel
<1>2. \A r \in Requests \ {q} : Known(r)' = Known(r)
  BY <1>1 DEF Known
<1>3. \A r \in Requests : [s \in Requests |-> Known(s)]'[r] = Known(r)'
  OBVIOUS
<1>4. Known(q)' = Known(q) => [r \in Requests |-> Known(r)]' = [r \in Requests |-> Known(r)]
  BY <1>2
<1>5. ASSUME NEW v, Known(q)' = v
      PROVE  [r \in Requests |-> Known(r)]' = [[r \in Requests |-> Known(r)] EXCEPT ![q] = v]
  BY <1>2, <1>5
<1>6. CASE pc[q] = "idle"
  <2>1. pc'[q] = "start"
    BY <1>6 DEF Register, Caller, StartReader, Write, Receive, Expire, Drop, SendCancel
  <2>2. Known(q) = "idle" /\ Known(q)' = "open"
    BY <1>6, <2>1 DEF Known
  <2> QED BY <1>0, <1>5, <2>2 DEF Call!Ask
<1>7. CASE pc[q] # "idle" /\ pc'[q] # "done"
  <2>1. pc'[q] # "idle" /\ pc[q] # "done"
    BY <1>7 DEF Register, Caller, StartReader, Write, Receive, Expire, Drop, SendCancel
  <2> QED BY <1>4, <1>7, <2>1 DEF Known
<1>8. CASE pc[q] # "idle" /\ pc'[q] = "done"
  <2>1. Known(q) = "open"
    BY <1>8 DEF Known, Register, Caller, StartReader, Write, Receive, Expire, Drop, SendCancel
  <2>2. result'[q] = "ok" => q \in effect
    BY <1>8 DEF Register, Caller, StartReader, Write, Receive, Expire, Drop, SendCancel,
                OkInv, OkOf, CallerInv, CallerOf
  <2>3. CASE result'[q] = "ok"
    <3>1. Known(q)' = "ok"
      BY <1>8, <2>3 DEF Known
    <3> QED BY <1>0, <1>5, <2>1, <2>2, <2>3, <3>1 DEF Call!Succeed
  <2>4. CASE result'[q] # "ok"
    <3>1. Known(q)' = "failed"
      BY <1>8, <2>4 DEF Known
    <3> QED BY <1>0, <1>5, <2>1, <3>1 DEF Call!Fail
  <2> QED BY <2>3, <2>4
<1> QED BY <1>6, <1>7, <1>8

\* Every step of a session is a step of the promise, or leaves it alone.
LEMMA NextCall ==
    ASSUME Inv, [Next]_vars
    PROVE  [Call!Next]_(Call!callVars)
<1> DEFINE known == [r \in Requests |-> Known(r)]
<1>1. CASE UNCHANGED vars
  BY <1>1 DEF vars, client, host, Known, Call!callVars
<1>2. ASSUME NEW q \in Requests, Register(q) \/ Caller(q)
      PROVE  [Call!Next]_(Call!callVars)
  <2>1. effect' = effect
    BY <1>2, ClientFrame DEF host
  <2> QED BY <1>2, <2>1, CallerCall DEF Call!Next, Call!callVars
<1>3. ASSUME UNCHANGED <<pc, result>>, Next
      PROVE  [Call!Next]_(Call!callVars)
  <2>1. known' = known
    BY <1>3 DEF Known
  <2>2. CASE effect' = effect
    BY <2>1, <2>2 DEF Call!callVars
  <2>3. ASSUME NEW r \in Requests, pc[r] # "idle", r \notin effect, effect' = effect \cup {r}
        PROVE  Call!CarryOut(r)
    <3>1. known[r] # "idle"
      BY <2>3 DEF Known
    <3> QED BY <2>1, <2>3, <3>1 DEF Call!CarryOut
  <2> QED BY <1>3, <2>2, <2>3, EffectStep DEF Call!Next
<1>4. CASE Reader
  <2>1. UNCHANGED <<pc, result>>
    BY <1>4 DEF Reader, Read, ReadEnd, Deliver
  <2> QED BY <1>3, <1>4, <2>1 DEF Next
<1>5. CASE Cut \/ AgentDies \/ Agent \/ \E q \in Requests : Acquire(q) \/ Work(q)
  <2>1. UNCHANGED <<pc, result>>
    BY <1>5, BreakFrame, HostFrame DEF client, Inv
  <2> QED BY <1>3, <1>5, <2>1 DEF Next
<1> QED BY Steps, <1>1, <1>2, <1>4, <1>5

\* A session keeps the promise of a remote command (RemoteCall): a success is told
\* only of a command the host carried out, and an answer is the last word.
THEOREM KeepsItsPromise == Spec => KeepsPromise
<1>1. Init => Call!Init
  BY InitCall
<1>2. Inv /\ [Next]_vars => [Call!Next]_(Call!callVars)
  BY NextCall
<1> QED BY <1>1, <1>2, Invariance, PTL DEF Spec, KeepsPromise, Call!Spec
=============================================================================
