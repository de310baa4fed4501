-------------------------- MODULE DaemonDoorProofs --------------------------
(***************************************************************************)
(* Theorems of the daemon's two ways in, which share nothing but the name of  *)
(* the daemon.  DaemonLaunch, for every number of starts, ports and removals: *)
(* a token is only ever taken from a file that is whole, and create_new never *)
(* touches one.  HttpConnections, for every number of connections, threads,   *)
(* ticks and pieces and whatever the clients send: a permit is a thread, and  *)
(* what is acted upon was read to its end.                                    *)
(***************************************************************************)
EXTENDS DaemonLaunch, HttpConnections, FiniteSetTheorems, TLAPS

-----------------------------------------------------------------------------
(* DaemonLaunch. *)

(* Whoever has a token has the one in the file. *)
TokensAreTheFiles ==
  removals = 0 =>
    \A s \in Starts : token[s] # "none" => file # Missing /\ file.whole /\ token[s] = file.by

ListenersHaveOne == \A s \in Starts : at[s] \in {"bind", "listening"} => token[s] # "none"

(* The inductive invariant. *)
IInv == TypeOK /\ TokensAreTheFiles /\ ListenersHaveOne

LEMMA InitHolds == Init => IInv
  BY DEF Init, IInv, TypeOK, TokensAreTheFiles, ListenersHaveOne, Listening

(* A process that changes neither the file nor a token, and goes where it       *)
(* needs none, disturbs nothing.                                               *)
LEMMA Aside ==
  ASSUME IInv, NEW s \in Starts, UNCHANGED <<file, token, removals>>,
         NEW to \in {"open", "create", "write", "reopen", "check", "refused", "dead"},
         Goes(s, to)
  PROVE  IInv'
  <1>1. TypeOK'  BY DEF IInv, TypeOK, Goes
  <1>2. TokensAreTheFiles'  BY DEF IInv, TokensAreTheFiles
  <1>3. ListenersHaveOne'  BY DEF IInv, TypeOK, ListenersHaveOne, Goes
  <1> QED BY <1>1, <1>2, <1>3 DEF IInv

LEMMA ProcessKeeps == ASSUME IInv, NEW s \in Starts, Process(s) PROVE IInv'
  <1> USE DEF Goes
  <1>1. CASE Start(s)  BY <1>1, Aside DEF Start
  <1>2. CASE Open(s)  BY <1>2, Aside DEF Open, Opens
  <1>3. CASE Create(s)
    <2>1. CASE file = Missing
      <3>0. file' \in [by : Starts, whole : BOOLEAN, safe : BOOLEAN]
        <4>1. file' = File(s, FALSE)  BY <1>3, <2>1 DEF Create
        <4>2. File(s, FALSE) \in [by : Starts, whole : BOOLEAN, safe : BOOLEAN]  BY DEF File
        <4> QED BY <4>1, <4>2
      <3>1. TypeOK'  BY <1>3, <2>1, <3>0 DEF Create, IInv, TypeOK
      <3>2. TokensAreTheFiles'  BY <1>3, <2>1 DEF Create, IInv, TokensAreTheFiles
      <3>3. ListenersHaveOne'  BY <1>3, <2>1 DEF Create, IInv, TypeOK, ListenersHaveOne
      <3> QED BY <3>1, <3>2, <3>3 DEF IInv
    <2>2. CASE file # Missing  BY <1>3, <2>2, Aside DEF Create
    <2> QED BY <2>1, <2>2
  <1>4. CASE Write(s)
    <2>0. Missing.by = "nobody" /\ s # "nobody"  BY StartsAssumption DEF Missing
    <2>1. file.by = s => file # Missing /\ file' = [by |-> file.by, whole |-> TRUE, safe |-> file.safe]
      BY <1>4, <2>0 DEF Write, IInv, TypeOK
    <2>2. TypeOK'  BY <1>4, <2>1 DEF Write, IInv, TypeOK
    <2>3. TokensAreTheFiles'
      BY <1>4, <2>1, StartsAssumption DEF Write, Missing, IInv, TypeOK, TokensAreTheFiles
    <2>4. ListenersHaveOne'  BY <1>4 DEF Write, IInv, TypeOK, ListenersHaveOne
    <2> QED BY <2>2, <2>3, <2>4 DEF IInv
  <1>5. CASE Fails(s)  BY <1>5, Aside DEF Fails
  <1>6. CASE Reopen(s)  BY <1>6, Aside DEF Reopen, Opens
  <1>7. CASE Check(s)
    <2>1. CASE Linked(s) /\ file.safe /\ file.whole
      <3>1. file # Missing /\ file.by \in Starts  BY <2>1 DEF Linked, IInv, TypeOK
      <3>2. TypeOK'  BY <1>7, <2>1, <3>1 DEF Check, IInv, TypeOK
      <3>3. TokensAreTheFiles'  BY <1>7, <2>1, <3>1 DEF Check, IInv, TypeOK, TokensAreTheFiles
      <3>4. ListenersHaveOne'
        BY <1>7, <2>1, <3>1, StartsAssumption DEF Check, IInv, TypeOK, ListenersHaveOne
      <3> QED BY <3>2, <3>3, <3>4 DEF IInv
    <2>2. CASE ~ (Linked(s) /\ file.safe /\ file.whole)  BY <1>7, <2>2, Aside DEF Check
    <2> QED BY <2>1, <2>2
  <1>8. CASE Bind(s)
    <2>1. TypeOK'  BY <1>8 DEF Bind, IInv, TypeOK
    <2>2. TokensAreTheFiles'  BY <1>8 DEF Bind, IInv, TokensAreTheFiles
    <2>3. ListenersHaveOne'  BY <1>8 DEF Bind, IInv, TypeOK, ListenersHaveOne
    <2> QED BY <2>1, <2>2, <2>3 DEF IInv
  <1> QED BY <1>1, <1>2, <1>3, <1>4, <1>5, <1>6, <1>7, <1>8 DEF Process

LEMMA StepKeeps == IInv /\ [Next]_vars => IInv'
  <1> SUFFICES ASSUME IInv, [Next]_vars PROVE IInv'  OBVIOUS
  <1>1. CASE \E s \in Starts : Process(s) \/ Stops(s)
    <2>1. PICK s \in Starts : Process(s) \/ Stops(s)  BY <1>1
    <2>2. CASE Process(s)  BY <2>2, ProcessKeeps
    <2>3. CASE Stops(s)  BY <2>3, Aside DEF Stops, Goes
    <2> QED BY <2>1, <2>2, <2>3
  <1>2. CASE Remove
    BY <1>2 DEF Remove, IInv, TypeOK, TokensAreTheFiles, ListenersHaveOne
  <1>3. CASE Chmod
    <2>1. file' = [by |-> file.by, whole |-> file.whole, safe |-> ~ file.safe]
      BY <1>3 DEF Chmod, IInv, TypeOK
    <2>2. file' # Missing  BY <1>3, <2>1, StartsAssumption DEF Chmod, Missing, IInv, TypeOK
    <2>3. TypeOK'  BY <1>3, <2>1 DEF Chmod, IInv, TypeOK
    <2> QED BY <1>3, <2>1, <2>2, <2>3 DEF Chmod, IInv, TokensAreTheFiles, ListenersHaveOne
  <1>4. CASE UNCHANGED vars
    BY <1>4 DEF vars, IInv, TypeOK, TokensAreTheFiles, ListenersHaveOne
  <1> QED BY <1>1, <1>2, <1>3, <1>4 DEF Next

THEOREM Invariance == Spec => []IInv
  BY InitHolds, StepKeeps, PTL DEF Spec

(* Until the file is taken away every daemon goes by one token, the one in it. *)
THEOREM OneToken == Spec => []TheTokenIsKept
  <1>1. IInv => OneTokenEver  BY DEF IInv, TokensAreTheFiles, OneTokenEver
  <1>2. IInv => TheFileIsTheToken
    BY DEF IInv, TokensAreTheFiles, ListenersHaveOne, TheFileIsTheToken, Listening
  <1>3. IInv => TheTokenIsKept  BY <1>1, <1>2 DEF TheTokenIsKept
  <1> QED BY <1>3, Invariance, PTL


-----------------------------------------------------------------------------
(* HttpConnections. *)

Threads == {c \in Conns : stage[c] \in Served}

HttpTypes ==
  /\ stage \in [Conns -> Served \cup {"away", "closed", "answered"}]
  /\ got \in [Conns -> Nat] /\ age \in [Conns -> Nat] /\ until \in [Conns -> Nat]
  /\ request = [c \in Conns |-> request[c]]
  /\ \A c \in Conns : stage[c] \in Served => request[c] \in Requests[c]

(* The counter counts the threads, of which there are finitely many. *)
Permits == IsFiniteSet(Threads) /\ active = Cardinality(Threads) /\ active <= Limit

(* A read is under way for a receiving thread only, and to its one deadline. *)
Deadline(c) ==
  /\ until[c] \in {0, ReadTicks}
  /\ Waiting(c) => Receiving(c) /\ age[c] <= ReadTicks

(* A request has its whole head before any of its body is looked at, its whole *)
(* body before it is routed, and never more pieces than that.                  *)
ReadSoFar(c) ==
  /\ stage[c] = "away" => got[c] = 0
  /\ stage[c] = "head" => request[c].head = "endless" \/ got[c] <= Pieces(c)
  /\ stage[c] \in {"body", "route"} =>
       /\ request[c].head = "good" /\ request[c].size <= BodyLimit
       /\ got[c] <= Pieces(c)
  /\ stage[c] = "route" => got[c] = Pieces(c)

HttpInv ==
  HttpTypes /\ Permits /\ \A c \in Conns : Deadline(c) /\ ReadSoFar(c)

LEMMA RequestTyped ==
  ASSUME NEW c \in Conns, NEW r \in Requests[c]
  PROVE  /\ r.size \in Nat /\ HeadPieces + r.size \in Nat
         /\ r.head \in {"good", "bad", "endless"}
BY RequestsAssumption, HeadAssumption

LEMMA HttpStart == HttpInit => HttpInv
<1> SUFFICES ASSUME HttpInit PROVE HttpInv  OBVIOUS
<1>1. Threads = {}  BY DEF HttpInit, Threads, Served
<1>2. HttpTypes  BY DEF HttpInit, HttpTypes, Nought, Served
<1>3. Permits  BY <1>1, FS_EmptySet, LimitAssumption DEF HttpInit, Permits
<1> QED BY <1>2, <1>3 DEF HttpInit, HttpInv, Deadline, ReadSoFar, Waiting, Nought

(* What a thread does to nobody but itself, while it stays a thread. *)
LEMMA Alone ==
  ASSUME HttpInv, NEW c \in Conns, stage[c] \in Served, active' = active, HttpTypes',
         stage'[c] \in Served, Deadline(c)', ReadSoFar(c)',
         \A d \in Conns \ {c} :
           UNCHANGED <<stage[d], request[d], got[d], age[d], until[d]>>
  PROVE  HttpInv'
<1>1. Threads' = Threads  BY DEF Threads
<1>2. ASSUME NEW d \in Conns \ {c} PROVE (Deadline(d) /\ ReadSoFar(d))'
  BY <1>2 DEF HttpInv, Deadline, ReadSoFar, Waiting, Receiving, Pieces
<1> QED BY <1>1, <1>2 DEF HttpInv, Permits

(* The reply: whatever was read is of no more account. *)
LEMMA Replies ==
  ASSUME HttpInv, NEW c \in Conns, stage[c] \in Served, NEW code, Reply(c, code),
         UNCHANGED <<active, request, got, age>>,
         until' = [until EXCEPT ![c] = 0] \/ (until' = until /\ ~ Waiting(c))
  PROVE  HttpInv'
<1>1. HttpTypes'  BY DEF HttpInv, HttpTypes, Reply, Served
<1>2. stage'[c] = "reply" /\ until'[c] = 0  BY DEF HttpInv, HttpTypes, Reply, Waiting
<1>3. Deadline(c)' /\ ReadSoFar(c)'  BY <1>2 DEF Deadline, ReadSoFar, Waiting
<1>4. \A d \in Conns \ {c} : UNCHANGED <<stage[d], request[d], got[d], age[d], until[d]>>
  BY DEF HttpInv, HttpTypes, Reply
<1> QED BY <1>1, <1>2, <1>3, <1>4, Alone DEF Served

(* Another place of the same thread, with nothing read meanwhile. *)
LEMMA GoesOn ==
  ASSUME HttpInv, NEW c \in Conns, stage[c] \in Served, ~ Waiting(c),
         NEW to \in Served, stage' = [stage EXCEPT ![c] = to],
         UNCHANGED <<active, request, got, age, until>>, ReadSoFar(c)'
  PROVE  HttpInv'
<1>1. HttpTypes'  BY DEF HttpInv, HttpTypes
<1>2. stage'[c] = to /\ ~ Waiting(c)'  BY DEF HttpInv, HttpTypes, Waiting
<1>3. Deadline(c)'  BY <1>2 DEF HttpInv, Deadline, Waiting
<1>4. \A d \in Conns \ {c} : UNCHANGED <<stage[d], request[d], got[d], age[d], until[d]>>
  BY DEF HttpInv, HttpTypes
<1> QED BY <1>1, <1>2, <1>3, <1>4, Alone

LEMMA ThreadKeeps ==
  ASSUME HttpInv, NEW c \in Conns, Thread(c)
  PROVE  HttpInv'
<1> USE DEF Receiving
<1>t. /\ HttpTypes /\ Deadline(c) /\ ReadSoFar(c) /\ ReadTicks \in Nat \ {0}
      /\ stage[c] \in Served => request[c] \in Requests[c]
  BY ReadTicksAssumption DEF HttpInv, HttpTypes
<1>w. stage[c] \notin {"head", "body"} => ~ Waiting(c)  BY <1>t DEF Deadline
<1>1. CASE Ask(c)
  <2>1. /\ stage[c] \in Served /\ age[c] < ReadTicks /\ until' = [until EXCEPT ![c] = ReadTicks]
        /\ UNCHANGED <<active, request, stage, got, age>> /\ Receiving(c)
    BY <1>1 DEF Ask, WantsMore, Served
  <2>2. HttpTypes' /\ until'[c] = ReadTicks  BY <1>t, <2>1 DEF HttpTypes
  <2>3. Deadline(c)' /\ ReadSoFar(c)'
    BY <1>t, <2>1, <2>2 DEF HttpTypes, Deadline, ReadSoFar, Waiting, Pieces
  <2>4. \A d \in Conns \ {c} : UNCHANGED <<stage[d], request[d], got[d], age[d], until[d]>>
    BY <1>t, <2>1 DEF HttpTypes
  <2> QED BY <2>1, <2>2, <2>3, <2>4, Alone
<1>2. CASE AskLate(c)
  <2>1. ~ Waiting(c) /\ stage[c] \in Served /\ \E code : Reply(c, code)
    BY <1>2 DEF AskLate, WantsMore, Served
  <2> QED BY <1>2, <2>1, Replies DEF AskLate, reading
<1>3. CASE TimesOut(c)
  <2>1. stage[c] \in Served  BY <1>3, <1>t DEF TimesOut, Deadline, Served
  <2> QED BY <1>3, <2>1, Replies DEF TimesOut
<1>4. CASE HeadTooLong(c)  BY <1>4, Replies DEF HeadTooLong, Served, reading
<1>5. CASE HeadRead(c)
  <2>1. /\ stage[c] = "head" /\ ~ Waiting(c) /\ stage[c] \in Served
        /\ UNCHANGED <<active, request, got, age, until>>
    BY <1>5 DEF HeadRead, Served, reading
  <2>2. CASE \E code : Reply(c, code)  BY <2>1, <2>2, Replies
  <2>3. CASE /\ stage' = [stage EXCEPT ![c] = "body"] /\ request[c].head # "bad"
             /\ ~ (request[c].head = "good" /\ request[c].size > BodyLimit)
    <3>1. request[c].head = "good" /\ request[c].size <= BodyLimit
      <4>1. request[c].head = "good"
        BY <1>5, <1>t, <2>1, <2>3, RequestTyped DEF HeadRead
      <4> QED BY <1>t, <2>1, <2>3, <4>1, RequestTyped, BodyAssumption
    <3>2. stage'[c] = "body"  BY <1>t, <2>3 DEF HttpTypes
    <3>3. ReadSoFar(c)'  BY <1>t, <2>1, <3>1, <3>2 DEF ReadSoFar, Pieces
    <3> QED BY <2>1, <2>3, <3>3, GoesOn DEF Served
  <2> QED BY <1>5, <2>2, <2>3 DEF HeadRead
<1>6. CASE BodyRead(c)
  <2>1. /\ stage[c] = "body" /\ ~ Waiting(c) /\ stage[c] \in Served /\ ~ got[c] < Pieces(c)
        /\ stage' = [stage EXCEPT ![c] = "route"]
        /\ UNCHANGED <<active, request, got, age, until>>
    BY <1>6 DEF BodyRead, Short, Served, reading
  <2>2. got[c] = Pieces(c)
    <3>1. Pieces(c) \in Nat /\ got[c] \in Nat /\ got[c] <= Pieces(c)
      BY <1>t, <2>1, RequestTyped DEF Pieces, ReadSoFar, HttpTypes
    <3> QED BY <2>1, <3>1
  <2>3. stage'[c] = "route"  BY <1>t, <2>1 DEF HttpTypes
  <2>4. ReadSoFar(c)'  BY <1>t, <2>1, <2>2, <2>3 DEF ReadSoFar, Pieces
  <2> QED BY <2>1, <2>4, GoesOn DEF Served
<1>7. CASE Turned(c) \/ Shown(c) \/ Controls(c) \/ Busy(c)
  <2>1. /\ stage[c] = "route" /\ stage[c] \in Served /\ \E code : Reply(c, code)
        /\ UNCHANGED <<active, request, got, age, until>>
    BY <1>7 DEF Turned, Shown, Controls, Busy, WantsWorker, Served, reading
  <2> QED BY <1>w, <2>1, Replies
<1>8. CASE Work(c)
  <2>1. /\ stage[c] = "route" /\ stage[c] \in Served
        /\ stage' = [stage EXCEPT ![c] = "work"]
        /\ UNCHANGED <<active, request, got, age, until>>
    BY <1>8 DEF Work, WantsWorker, Served, reading
  <2>2. stage'[c] = "work"  BY <1>t, <2>1 DEF HttpTypes
  <2>3. ReadSoFar(c)'  BY <2>2 DEF ReadSoFar
  <2> QED BY <1>w, <2>1, <2>3, GoesOn DEF Served
<1>9. CASE Worked(c)
  <2>1. /\ stage[c] = "work" /\ stage[c] \in Served /\ \E code : Reply(c, code)
        /\ UNCHANGED <<active, request, got, age, until>>
    BY <1>9 DEF Worked, Served, reading
  <2> QED BY <1>w, <2>1, Replies
<1>10. CASE Close(c)
  <2>1. /\ stage[c] = "reply" /\ c \in Threads
        /\ stage' = [stage EXCEPT ![c] = "answered"] /\ active' = active - 1
        /\ got' = [got EXCEPT ![c] = 0] /\ age' = [age EXCEPT ![c] = 0]
        /\ until' = [until EXCEPT ![c] = 0] /\ request' = [request EXCEPT ![c] = NoRequest]
    BY <1>10 DEF Close, Threads, Served
  <2>2. HttpTypes' /\ stage'[c] = "answered"  BY <1>t, <2>1 DEF HttpTypes, Served
  <2>3. Threads' = Threads \ {c}  BY <1>t, <2>1 DEF Threads, HttpTypes, Served
  <2>4. Permits'
    <3>1. IsFiniteSet(Threads) /\ active = Cardinality(Threads) /\ active <= Limit
      BY DEF HttpInv, Permits
    <3>2. Cardinality(Threads) \in Nat  BY <3>1, FS_CardinalityType
    <3>3. IsFiniteSet(Threads \ {c}) /\ Cardinality(Threads \ {c}) = Cardinality(Threads) - 1
      BY <2>1, <3>1, FS_RemoveElement
    <3> QED BY <2>1, <2>3, <3>1, <3>2, <3>3, LimitAssumption DEF Permits
  <2>5. ASSUME NEW d \in Conns PROVE (Deadline(d) /\ ReadSoFar(d))'
    <3>1. CASE d = c
      BY <1>t, <2>1, <2>2, <3>1 DEF HttpTypes, Deadline, ReadSoFar, Waiting
    <3>2. CASE d # c
      BY <1>t, <2>1, <3>2 DEF HttpInv, HttpTypes, Deadline, ReadSoFar, Waiting, Pieces
    <3> QED BY <3>1, <3>2
  <2> QED BY <2>2, <2>4, <2>5 DEF HttpInv
<1> QED BY <1>1, <1>2, <1>3, <1>4, <1>5, <1>6, <1>7, <1>8, <1>9, <1>10 DEF Thread

(* The client's turn: a piece or the end of the stream. *)
LEMMA ClientKeeps ==
  ASSUME HttpInv, NEW c \in Conns, Receive(c) \/ EndOfStream(c)
  PROVE  HttpInv'
<1>t. /\ HttpTypes /\ Deadline(c) /\ ReadSoFar(c) /\ Waiting(c)
      /\ stage[c] \in {"head", "body"} /\ request[c] \in Requests[c]
  BY DEF HttpInv, HttpTypes, Receive, EndOfStream, Deadline, Receiving, Served
<1>1. CASE Receive(c)
  <2>1. /\ got[c] < (IF request[c].head = "endless" THEN HeadLimit ELSE Pieces(c))
        /\ got' = [got EXCEPT ![c] = got[c] + 1] /\ until' = [until EXCEPT ![c] = 0]
        /\ UNCHANGED <<active, request, stage, age>>
    BY <1>1 DEF Receive
  <2>2. HttpTypes' /\ until'[c] = 0 /\ got'[c] = got[c] + 1 /\ got[c] \in Nat
    BY <1>t, <2>1 DEF HttpTypes
  <2>3. request[c].head # "endless" => got'[c] <= Pieces(c)
    BY <1>t, <2>1, <2>2, RequestTyped DEF Pieces
  <2>4. Deadline(c)' /\ ReadSoFar(c)'
    <3>1. stage[c] = "body" => request[c].head = "good"  BY <1>t DEF ReadSoFar
    <3> QED BY <1>t, <2>1, <2>2, <2>3, <3>1 DEF Deadline, ReadSoFar, Waiting, Pieces
  <2>5. \A d \in Conns \ {c} : UNCHANGED <<stage[d], request[d], got[d], age[d], until[d]>>
    BY <1>t, <2>1 DEF HttpTypes
  <2>6. stage[c] \in Served /\ stage'[c] \in Served /\ active' = active
    BY <1>t, <2>1 DEF Served
  <2> QED BY <2>2, <2>4, <2>5, <2>6, Alone
<1>2. CASE EndOfStream(c)  BY <1>2, <1>t, Replies DEF EndOfStream, Served
<1> QED BY <1>1, <1>2

(* A connection gets a permit and a thread, or neither. *)
LEMMA DispatchKeeps ==
  ASSUME HttpInv, NEW c \in Conns, Dispatch(c)
  PROVE  HttpInv'
<1>t. HttpTypes /\ Deadline(c) /\ ReadSoFar(c) /\ Permits  BY DEF HttpInv
<1>1. /\ stage[c] = "away" /\ c \notin Threads /\ UNCHANGED <<got, age, until>>
      /\ got[c] = 0 /\ until[c] = 0
  BY <1>t DEF Dispatch, Threads, Served, reading, ReadSoFar, Deadline, Waiting, Receiving
<1>2. CASE stage' = [stage EXCEPT ![c] = "closed"] /\ UNCHANGED <<active, request>>
  <2>1. HttpTypes' /\ stage'[c] = "closed"  BY <1>1, <1>2, <1>t DEF HttpTypes, Served
  <2>2. Threads' = Threads  BY <1>1, <1>2, <1>t DEF Threads, HttpTypes, Served
  <2>3. ASSUME NEW d \in Conns PROVE (Deadline(d) /\ ReadSoFar(d))'
    BY <1>1, <1>2, <1>t, <2>1
       DEF HttpInv, HttpTypes, Deadline, ReadSoFar, Waiting, Receiving, Pieces
  <2> QED BY <1>2, <1>t, <2>1, <2>2, <2>3 DEF HttpInv, Permits
<1>3. CASE /\ active < Limit
           /\ stage' = [stage EXCEPT ![c] = "head"] /\ active' = active + 1
           /\ \E r \in Requests[c] : request' = [request EXCEPT ![c] = r]
  <2>1. PICK r \in Requests[c] : request' = [request EXCEPT ![c] = r]  BY <1>3
  <2>2. HttpTypes' /\ stage'[c] = "head" /\ request'[c] = r
    BY <1>1, <1>3, <1>t, <2>1 DEF HttpTypes, Served
  <2>3. Threads' = Threads \cup {c}  BY <1>1, <1>3, <1>t DEF Threads, HttpTypes, Served
  <2>4. Permits'
    <3>1. IsFiniteSet(Threads) /\ Cardinality(Threads) \in Nat
      BY <1>t, FS_CardinalityType DEF Permits
    <3>2. IsFiniteSet(Threads \cup {c}) /\ Cardinality(Threads \cup {c}) = Cardinality(Threads) + 1
      BY <1>1, <3>1, FS_AddElement
    <3> QED BY <1>3, <1>t, <2>3, <3>1, <3>2, LimitAssumption DEF Permits
  <2>5. ASSUME NEW d \in Conns PROVE (Deadline(d) /\ ReadSoFar(d))'
    <3>1. CASE d = c
      <4>1. HeadPieces + r.size \in Nat  BY RequestTyped
      <4> QED BY <1>1, <2>2, <3>1, <4>1 DEF Deadline, ReadSoFar, Waiting, Pieces
    <3>2. CASE d # c
      BY <1>1, <1>3, <1>t, <2>1, <3>2
         DEF HttpInv, HttpTypes, Deadline, ReadSoFar, Waiting, Receiving, Pieces
    <3> QED BY <3>1, <3>2
  <2> QED BY <2>2, <2>4, <2>5 DEF HttpInv
<1> QED BY <1>2, <1>3 DEF Dispatch

LEMMA HttpStep == HttpInv /\ [HttpNext]_httpVars => HttpInv'
<1> SUFFICES ASSUME HttpInv, [HttpNext]_httpVars PROVE HttpInv'  OBVIOUS
<1>1. ASSUME NEW c \in Conns, Receive(c) \/ EndOfStream(c) \/ Dispatch(c) \/ Thread(c)
      PROVE  HttpInv'
  BY <1>1, ClientKeeps, DispatchKeeps, ThreadKeeps
<1>2. CASE AcceptFails
  <2>1. Threads' = {}  BY <1>2 DEF AcceptFails, Threads, Served
  <2>2. HttpTypes'  BY <1>2 DEF AcceptFails, HttpTypes, Nought, Served
  <2>3. Permits'  BY <1>2, <2>1, FS_EmptySet, LimitAssumption DEF AcceptFails, Permits
  <2> QED BY <1>2, <2>2, <2>3 DEF AcceptFails, HttpInv, Deadline, ReadSoFar, Waiting, Nought
<1>3. CASE Tick
  <2>1. /\ age' = [c \in Conns |-> IF Receiving(c) /\ age[c] <= ReadTicks THEN age[c] + 1 ELSE age[c]]
        /\ \A c \in Conns : Waiting(c) => age[c] < until[c]
        /\ UNCHANGED <<active, request, stage, got, until>>
    BY <1>3 DEF Tick
  <2>2. HttpTypes'  BY <2>1 DEF HttpInv, HttpTypes
  <2>3. Permits'  BY <2>1 DEF HttpInv, Permits, Threads
  <2>4. ASSUME NEW c \in Conns PROVE (Deadline(c) /\ ReadSoFar(c))'
    <3>1. Deadline(c) /\ ReadSoFar(c) /\ age[c] \in Nat /\ ReadTicks \in Nat
      BY ReadTicksAssumption DEF HttpInv, HttpTypes
    <3> QED BY <2>1, <3>1 DEF Deadline, ReadSoFar, Waiting, Receiving, Pieces
  <2> QED BY <2>2, <2>3, <2>4 DEF HttpInv
<1>4. CASE BatchEnds \/ UNCHANGED httpVars
  <2>1. UNCHANGED <<active, request, stage, got, age, until>>
    BY <1>4 DEF BatchEnds, httpVars, reading
  <2> QED BY <2>1
       DEF HttpInv, HttpTypes, Permits, Threads, Deadline, ReadSoFar, Waiting, Receiving, Pieces
<1> QED BY <1>1, <1>2, <1>3, <1>4 DEF HttpNext, Quiet

(* The inductive invariant: permits are threads, reads have one deadline, and   *)
(* a request is routed when it is whole.                                       *)
THEOREM HttpInductive == HttpSpec => []HttpInv
<1> QED BY HttpStart, HttpStep, PTL DEF HttpSpec

(* Never more threads than the limit, never a permit without its thread, and    *)
(* no client keeps one reading past the one deadline of its request.           *)
THEOREM BoundedThreads == HttpSpec => []ThreadsAreBounded
<1>1. HttpInv => ThreadsAreBounded
  BY DEF HttpInv, Permits, Threads, Deadline, ThreadsAreBounded, PermitsAreThreads,
         NobodyReadsPastTheDeadline
<1> QED BY <1>1, HttpInductive, PTL

(* A step that acts on a request finds it complete, small enough and authorised. *)
LEMMA ActsOnWhole ==
  ASSUME HttpInv, [HttpNext]_httpVars, NEW c \in acted' \ acted
  PROVE  /\ got[c] = Pieces(c) /\ request[c].size <= BodyLimit /\ request[c].head = "good"
         /\ Admitted(request[c])
<1>1. c \in Conns /\ (Controls(c) \/ Work(c))
  BY DEF HttpNext, Receive, EndOfStream, Dispatch, Thread, Ask, AskLate, TimesOut, HeadTooLong,
         HeadRead, BodyRead, Turned, Shown, Controls, Busy, Work, Worked, Close, AcceptFails,
         BatchEnds, Tick, Quiet, httpVars
<1>2. stage[c] = "route" /\ Admitted(request[c])  BY <1>1 DEF Controls, Work, WantsWorker
<1> QED BY <1>1, <1>2 DEF HttpInv, ReadSoFar

(* What a cut-off, oversized or unauthorised request asks for is never done.    *)
THEOREM WholeRequestsAct == HttpSpec => OnlyWholeRequestsAct
<1>1. HttpInv /\ [HttpNext]_httpVars =>
        [\A c \in acted' \ acted :
           /\ got[c] = Pieces(c) /\ request[c].size <= BodyLimit /\ request[c].head = "good"
           /\ Admitted(request[c])]_httpVars
  BY ActsOnWhole
<1> QED BY <1>1, HttpInductive, PTL DEF HttpSpec, OnlyWholeRequestsAct
=============================================================================
