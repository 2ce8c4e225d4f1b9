------------------------- MODULE GrpcPingServer_proofs -------------------------
(***************************************************************************)
(* The workers of one completion queue share its call objects without a    *)
(* lock.  What keeps them apart is that an object has at most one          *)
(* operation in flight: the invariant says that an object is in gRPC, in   *)
(* the queue or in the hands of one worker, and that its status names the  *)
(* one operation that may be in flight.                                    *)
(***************************************************************************)
EXTENDS GrpcPingServer, FiniteSetTheorems, TLAPS

ObjectTypes == [kind: Kinds \cup {"none"}, status: Statuses, op: Ops]
CallTypes   == [state: {"none", "open", "closed", "dead"},
                sent: Nat, read: Nat, answered: Nat]

WorkerType(state) ==
  /\ state.at \in {"idle", "event", "spawn", "issue"}
  /\ state.at # "idle" => state.o \in Objects
  /\ state.at = "event" => state.ok \in BOOLEAN
  /\ state.at = "spawn" => state.n \in Objects
  /\ state.at = "issue" => state.op \in {"read", "write", "finish"}

Types ==
  /\ obj \in [Objects -> ObjectTypes]
  /\ call \in [Objects -> CallTypes]
  /\ queue \subseteq [tag: Objects, ok: BOOLEAN]
  /\ DOMAIN worker = Workers
  /\ \A w \in Workers : WorkerType(worker[w])

\* Worker w will touch object o.
Has(w, o) ==
  /\ worker[w].at # "idle"
  /\ worker[w].o = o \/ (worker[w].at = "spawn" /\ worker[w].n = o)

\* An object is in gRPC, in the queue or in the hands of a worker.
InGrpc(o) == obj[o].op # "none"
InQueue(o) == \E e \in queue : e.tag = o

Hands ==
  /\ \A o \in Objects : InGrpc(o) => Alive(o) /\ ~InQueue(o)
  /\ \A o \in Objects : InQueue(o) => Alive(o)
  /\ \A e, f \in queue : e.tag = f.tag => e = f
  /\ \A o \in Objects, w \in Workers :
       Has(w, o) => Alive(o) /\ ~InGrpc(o) /\ ~InQueue(o)
  /\ \A o \in Objects, v, w \in Workers : Has(v, o) /\ Has(w, o) => v = w

\* The status tells which operation an object may have in flight.
StatusOf(op) == CASE op = "request" -> "PROCESS"
                  [] op = "read"    -> "WRITE"
                  [] op = "write"   -> "READ"
                  [] op = "finish"  -> "FINISH"

Protocol ==
  /\ \A o \in Objects : InGrpc(o) => obj[o].status = StatusOf(obj[o].op)
  /\ \A w \in Workers :
       worker[w].at = "issue" =>
         obj[worker[w].o].status = StatusOf(worker[w].op)
  /\ \A w \in Workers :
       worker[w].at = "spawn" =>
         /\ worker[w].n # worker[w].o
         /\ obj[worker[w].o].status = "PROCESS"
         /\ obj[worker[w].n].status = "PROCESS"
         /\ obj[worker[w].n].kind = obj[worker[w].o].kind

\* Messages are sent, read and answered in this order, and one is being answered
\* whenever a Write is under way.
Counts ==
  /\ \A o \in Objects :
       /\ call[o].answered <= call[o].read
       /\ call[o].read <= call[o].sent
       /\ call[o].sent <= MaxPings
       /\ obj[o].op = "write" => call[o].answered < call[o].read
  /\ \A e \in queue :
       obj[e.tag].status = "WRITE" /\ e.ok =>
         call[e.tag].answered < call[e.tag].read
  /\ \A w \in Workers :
       \/ worker[w].at = "event" /\ obj[worker[w].o].status = "WRITE" /\ worker[w].ok
       \/ worker[w].at = "issue" /\ worker[w].op = "write"
       => call[worker[w].o].answered < call[worker[w].o].read

IInv == Types /\ Hands /\ Protocol /\ Counts /\ AcceptorsKept

-----------------------------------------------------------------------------
\* The statuses are different, and so are the operations they stand for.
LEMMA StatusFacts ==
  /\ StatusOf("request") = "PROCESS" /\ StatusOf("read") = "WRITE"
  /\ StatusOf("write") = "READ" /\ StatusOf("finish") = "FINISH"
  BY DEF StatusOf

\* The initial state is typed.
LEMMA TypesInit == Init => Types
  <1> SUFFICES ASSUME Init PROVE Types
    OBVIOUS
  <1>1. obj \in [Objects -> ObjectTypes]
    BY DEF Init, ObjectTypes, NoObject, Kinds, Statuses, Ops
  <1>2. call \in [Objects -> CallTypes]
    BY DEF Init, CallTypes, NoCall
  <1>3. \A w \in Workers : worker[w].at = "idle"
    BY DEF Init, Idle
  <1> QED BY <1>1, <1>2, <1>3 DEF Init, Types, WorkerType

\* A worker's steps change what it does itself and nothing of the others.
LEMMA SetFacts ==
  ASSUME Types, NEW w \in Workers, NEW state, Set(w, state)
  PROVE  /\ DOMAIN worker' = Workers
         /\ worker'[w] = state
         /\ \A v \in Workers \ {w} : worker'[v] = worker[v]
  BY DEF Set, Types

\* Every step of a worker keeps the types.
LEMMA TypesWorker ==
  ASSUME Types, NEW w \in Workers, WorkerStep(w)
  PROVE  Types'
  <1> USE DEF Types
  <1>1. ASSUME NEW state, Set(w, state), WorkerType(state)
        PROVE  DOMAIN worker' = Workers /\ \A v \in Workers : WorkerType(worker'[v])
    BY <1>1, SetFacts
  <1>2. ASSUME NEW o \in Objects, NEW s \in Statuses, obj' = Status(o, s)
        PROVE  obj' \in [Objects -> ObjectTypes]
    BY <1>2 DEF Status, ObjectTypes
  <1>3. CASE TakeEvent(w)
    BY <1>1, <1>3 DEF TakeEvent, WorkerType
  <1>4. CASE Spawn(w)
    <2> DEFINE o == worker[w].o
    <2>1. PICK n \in Fresh :
            /\ obj' = [obj EXCEPT ![n] = [kind |-> obj[o].kind,
                                          status |-> "PROCESS", op |-> "none"]]
            /\ Set(w, [at |-> "spawn", o |-> o, n |-> n])
      BY <1>4 DEF Spawn
    <2>2. o \in Objects /\ n \in Objects
      BY <1>4 DEF Spawn, WorkerType, Fresh
    <2>3. obj' \in [Objects -> ObjectTypes]
      BY <2>1, <2>2 DEF ObjectTypes, Statuses, Ops
    <2> QED BY <1>1, <1>4, <2>1, <2>2, <2>3 DEF Spawn, WorkerType
  <1>5. CASE Accept(w)
    <2> DEFINE o == worker[w].o
               n == worker[w].n
    <2>1. o \in Objects /\ n \in Objects
      BY <1>5 DEF Accept, WorkerType
    <2>2. obj' \in [Objects -> ObjectTypes]
      <3>1. PICK s \in Statuses : obj' = [obj EXCEPT ![n].op = "request", ![o].status = s]
        BY <1>5 DEF Accept, Statuses
      <3> QED BY <2>1, <3>1 DEF ObjectTypes, Ops
    <2>3. PICK op \in {"finish", "read"} : Set(w, [at |-> "issue", o |-> o, op |-> op])
      BY <1>5 DEF Accept
    <2> QED BY <1>1, <1>5, <2>1, <2>2, <2>3 DEF Accept, WorkerType
  <1>6. CASE ReadOrWrite(w)
    <2>1. PICK s \in {"READ", "WRITE"}, op \in {"read", "write"} :
            /\ obj' = Status(worker[w].o, s)
            /\ Set(w, [at |-> "issue", o |-> worker[w].o, op |-> op])
      BY <1>6 DEF ReadOrWrite
    <2> QED BY <1>1, <1>2, <1>6, <2>1 DEF ReadOrWrite, WorkerType, Statuses
  <1>7. CASE CloseStream(w)
    BY <1>1, <1>2, <1>7 DEF CloseStream, WorkerType, Statuses
  <1>8. CASE IgnoreFailure(w)
    BY <1>1, <1>8 DEF IgnoreFailure, WorkerType, Idle
  <1>9. CASE Issue(w)
    <2>1. obj' \in [Objects -> ObjectTypes]
      BY <1>9 DEF Issue, WorkerType, ObjectTypes, Ops
    <2> QED BY <1>1, <1>9, <2>1 DEF Issue, WorkerType, Idle
  <1>10. CASE Delete(w)
    BY <1>1, <1>2, <1>10 DEF Delete, WorkerType, Idle, Statuses
  <1> QED
    BY <1>3, <1>4, <1>5, <1>6, <1>7, <1>8, <1>9, <1>10 DEF WorkerStep

\* Every step of gRPC or of a client keeps the types.
LEMMA TypesOther ==
  ASSUME Types, NEW o \in Objects, GrpcStep(o) \/ ClientStep(o)
  PROVE  Types'
  <1> USE DEF Types
  <1>1. ASSUME NEW ok \in BOOLEAN, Complete(o, ok)
        PROVE  /\ obj' \in [Objects -> ObjectTypes]
               /\ queue' \subseteq [tag: Objects, ok: BOOLEAN]
               /\ UNCHANGED worker
    BY <1>1 DEF Complete, ObjectTypes, Ops
  <1>2. CASE CompleteRead(o)
    <2>1. call' \in [Objects -> CallTypes]
      BY <1>2 DEF CompleteRead, Complete, CallTypes
    <2>2. Complete(o, TRUE) \/ Complete(o, FALSE)
      BY <1>2 DEF CompleteRead
    <2> QED BY <1>1, <2>1, <2>2
  <1>3. CASE CompleteWrite(o)
    <2>1. call' \in [Objects -> CallTypes]
      BY <1>3 DEF CompleteWrite, Complete, CallTypes
    <2>2. Complete(o, TRUE) \/ Complete(o, FALSE)
      BY <1>3 DEF CompleteWrite
    <2> QED BY <1>1, <2>1, <2>2
  <1>4. CASE OpenCall(o)
    BY <1>1, <1>4 DEF OpenCall, CallTypes, NoCall
  <1>5. CASE Ping(o) \/ WritesDone(o) \/ Drop(o)
    BY <1>5 DEF Ping, WritesDone, Drop, CallTypes
  <1> QED BY <1>2, <1>3, <1>4, <1>5 DEF GrpcStep, ClientStep

-----------------------------------------------------------------------------
\* An object is handed from one to the next, and taken up anew by a worker only
\* while it is in nobody's hands.
LEMMA HandsWorker ==
  ASSUME Types, Hands, Protocol, NEW w \in Workers, WorkerStep(w)
  PROVE  Hands'
  <1> USE DEF Types, WorkerType, Hands, Has, InGrpc, InQueue, Alive
  <1>1. CASE TakeEvent(w)
    <2>1. PICK e \in queue :
            /\ queue' = queue \ {e}
            /\ Set(w, [at |-> "event", o |-> e.tag, ok |-> e.ok])
      BY <1>1 DEF TakeEvent
    <2>2. UNCHANGED obj /\ e.tag \in Objects
      BY <1>1 DEF TakeEvent
    <2>3. \A o \in Objects : Has(w, o)' <=> o = e.tag
      BY <2>1, <2>2, SetFacts
    <2>4. \A o \in Objects, v \in Workers \ {w} : Has(v, o)' <=> Has(v, o)
      BY <2>1, <2>2, SetFacts
    <2>5. \A o \in Objects : InQueue(o)' <=> InQueue(o) /\ o # e.tag
      BY <2>1, <2>2
    <2> HIDE DEF Has, InQueue
    <2> QED BY <2>1, <2>2, <2>3, <2>4, <2>5 DEF InQueue
  <1>2. CASE Spawn(w)
    <2> DEFINE o == worker[w].o
    <2>1. PICK n \in Fresh :
            /\ obj' = [obj EXCEPT ![n] = [kind |-> obj[o].kind,
                                          status |-> "PROCESS", op |-> "none"]]
            /\ Set(w, [at |-> "spawn", o |-> o, n |-> n])
      BY <1>2 DEF Spawn
    <2>2. /\ o \in Objects /\ n \in Objects /\ ~Alive(n) /\ n # o
          /\ worker[w].at = "event" /\ obj[o].status = "PROCESS" /\ UNCHANGED queue
      BY <1>2 DEF Spawn, Fresh
    <2>3. \A p \in Objects : Has(w, p)' <=> p \in {o, n}
      BY <2>1, <2>2, SetFacts
    <2>4. \A p \in Objects, v \in Workers \ {w} : Has(v, p)' <=> Has(v, p)
      BY <2>1, <2>2, SetFacts
    <2>5. \A p \in Objects : InQueue(p)' <=> InQueue(p)
      BY <2>2
    <2>6. Has(w, o)
      BY <2>2
    <2> HIDE DEF Has, InQueue, o
    <2> QED BY <2>1, <2>2, <2>3, <2>4, <2>5, <2>6 DEF ObjectTypes
  <1>3. CASE Accept(w)
    <2> DEFINE o == worker[w].o
               n == worker[w].n
    <2>1. PICK s \in {"FINISH", "WRITE"}, op \in {"finish", "read"} :
            /\ obj' = [obj EXCEPT ![n].op = "request", ![o].status = s]
            /\ Set(w, [at |-> "issue", o |-> o, op |-> op])
      BY <1>3 DEF Accept
    <2>2. /\ o \in Objects /\ n \in Objects /\ n # o
          /\ worker[w].at = "spawn" /\ UNCHANGED queue
      BY <1>3 DEF Accept, Protocol
    <2>3. \A p \in Objects : Has(w, p)' <=> p = o
      BY <2>1, <2>2, SetFacts
    <2>4. \A p \in Objects, v \in Workers \ {w} : Has(v, p)' <=> Has(v, p)
      BY <2>1, <2>2, SetFacts
    <2>5. \A p \in Objects : InQueue(p)' <=> InQueue(p)
      BY <2>2
    <2>6. Has(w, o) /\ Has(w, n)
      BY <2>2
    <2> HIDE DEF Has, InQueue, o, n
    <2> QED BY <2>1, <2>2, <2>3, <2>4, <2>5, <2>6 DEF ObjectTypes
  <1>4. CASE ReadOrWrite(w) \/ CloseStream(w)
    <2> DEFINE o == worker[w].o
    <2>1. PICK s \in {"READ", "WRITE", "FINISH"}, op \in {"read", "write", "finish"} :
            /\ obj' = Status(o, s)
            /\ Set(w, [at |-> "issue", o |-> o, op |-> op])
      BY <1>4 DEF ReadOrWrite, CloseStream
    <2>2. o \in Objects /\ worker[w].at = "event" /\ UNCHANGED queue
      BY <1>4 DEF ReadOrWrite, CloseStream
    <2>3. \A p \in Objects : Has(w, p)' <=> Has(w, p)
      BY <2>1, <2>2, SetFacts
    <2>4. \A p \in Objects, v \in Workers \ {w} : Has(v, p)' <=> Has(v, p)
      BY <2>1, <2>2, SetFacts
    <2>5. \A p \in Objects : InQueue(p)' <=> InQueue(p)
      BY <2>2
    <2>6. Has(w, o)
      BY <2>2
    <2> HIDE DEF Has, InQueue, o
    <2> QED BY <2>1, <2>2, <2>3, <2>4, <2>5, <2>6 DEF ObjectTypes, Status
  <1>5. CASE IgnoreFailure(w) \/ Delete(w)
    <2> DEFINE o == worker[w].o
    <2>1. /\ obj' = obj \/ obj' = Status(o, "deleted")
          /\ Set(w, Idle)
      BY <1>5 DEF IgnoreFailure, Delete
    <2>2. o \in Objects /\ worker[w].at = "event" /\ UNCHANGED queue
      BY <1>5 DEF IgnoreFailure, Delete
    <2>3. \A p \in Objects : ~Has(w, p)'
      BY <2>1, <2>2, SetFacts DEF Idle
    <2>4. \A p \in Objects, v \in Workers \ {w} : Has(v, p)' <=> Has(v, p)
      BY <2>1, <2>2, SetFacts
    <2>5. \A p \in Objects : InQueue(p)' <=> InQueue(p)
      BY <2>2
    <2>6. Has(w, o)
      BY <2>2
    <2> HIDE DEF Has, InQueue, o
    <2> QED BY <2>1, <2>2, <2>3, <2>4, <2>5, <2>6 DEF ObjectTypes, Status
  <1>6. CASE Issue(w)
    <2> DEFINE o == worker[w].o
    <2>1. /\ obj' = [obj EXCEPT ![o].op = worker[w].op]
          /\ Set(w, Idle)
      BY <1>6 DEF Issue
    <2>2. /\ o \in Objects /\ worker[w].at = "issue"
          /\ worker[w].op # "none" /\ UNCHANGED queue
      BY <1>6 DEF Issue
    <2>3. \A p \in Objects : ~Has(w, p)'
      BY <2>1, <2>2, SetFacts DEF Idle
    <2>4. \A p \in Objects, v \in Workers \ {w} : Has(v, p)' <=> Has(v, p)
      BY <2>1, <2>2, SetFacts
    <2>5. \A p \in Objects : InQueue(p)' <=> InQueue(p)
      BY <2>2
    <2>6. Has(w, o)
      BY <2>2
    <2> HIDE DEF Has, InQueue, o
    <2> QED BY <2>1, <2>2, <2>3, <2>4, <2>5, <2>6 DEF ObjectTypes
  <1> QED BY <1>1, <1>2, <1>3, <1>4, <1>5, <1>6 DEF WorkerStep

\* gRPC puts an object into the queue; clients touch nothing but their calls.
LEMMA HandsOther ==
  ASSUME Types, Hands, NEW o \in Objects, GrpcStep(o) \/ ClientStep(o)
  PROVE  Hands'
  <1> USE DEF Types, Hands, Has, InGrpc, InQueue, Alive
  <1>1. ASSUME NEW ok \in BOOLEAN, InGrpc(o), Complete(o, ok)
        PROVE  Hands'
    <2>1. \A p \in Objects, v \in Workers : Has(v, p)' <=> Has(v, p)
      BY <1>1 DEF Complete
    <2> DEFINE new == [tag |-> o, ok |-> ok]
    <2>3. queue' = queue \cup {new} /\ new.tag = o
      BY <1>1 DEF Complete
    <2> HIDE DEF new
    <2>2. \A p \in Objects : InQueue(p)' <=> InQueue(p) \/ p = o
      BY <2>3
    <2>4. \A e, f \in queue' : e.tag = f.tag => e = f
      BY <1>1, <2>3
    <2> HIDE DEF Has
    <2> QED BY <1>1, <2>1, <2>2, <2>4 DEF Complete, ObjectTypes
  <1>2. CASE UNCHANGED <<obj, queue, worker>>
    BY <1>2
  <1>3. CASE CompleteRead(o) \/ CompleteWrite(o) \/ OpenCall(o)
    <2>1. InGrpc(o) /\ (Complete(o, TRUE) \/ Complete(o, FALSE))
      BY <1>3 DEF CompleteRead, CompleteWrite, OpenCall
    <2> QED BY <1>1, <2>1
  <1> QED
    BY <1>2, <1>3 DEF GrpcStep, ClientStep, Ping, WritesDone, Drop

\* The worker that holds an object is the only one to change its status, and it
\* leaves the status that belongs to the operation it issues.
LEMMA ProtocolWorker ==
  ASSUME Types, Hands, Protocol, NEW w \in Workers, WorkerStep(w)
  PROVE  Protocol'
  <1> USE StatusFacts DEF Types, WorkerType, Hands, Has, InGrpc, Alive, Protocol
  <1>1. CASE TakeEvent(w)
    <2>1. PICK e \in queue : Set(w, [at |-> "event", o |-> e.tag, ok |-> e.ok])
      BY <1>1 DEF TakeEvent
    <2> QED BY <1>1, <2>1, SetFacts DEF TakeEvent
  <1>2. CASE Spawn(w)
    <2> DEFINE o == worker[w].o
    <2>1. PICK n \in Fresh :
            /\ obj' = [obj EXCEPT ![n] = [kind |-> obj[o].kind,
                                          status |-> "PROCESS", op |-> "none"]]
            /\ Set(w, [at |-> "spawn", o |-> o, n |-> n])
      BY <1>2 DEF Spawn
    <2>2. /\ o \in Objects /\ n \in Objects /\ ~Alive(n) /\ n # o
          /\ worker[w].at = "event" /\ obj[o].status = "PROCESS"
      BY <1>2 DEF Spawn, Fresh
    <2>3. \A p \in Objects \ {n} : obj'[p] = obj[p]
      BY <2>1
    <2>4. obj'[n].status = "PROCESS" /\ obj'[n].kind = obj[o].kind /\ obj'[n].op = "none"
      BY <2>1, <2>2
    <2> QED BY <2>1, <2>2, <2>3, <2>4, SetFacts
  <1>3. CASE Accept(w)
    <2> DEFINE o == worker[w].o
               n == worker[w].n
    <2>1. PICK s \in {"FINISH", "WRITE"}, op \in {"finish", "read"} :
            /\ obj' = [obj EXCEPT ![n].op = "request", ![o].status = s]
            /\ Set(w, [at |-> "issue", o |-> o, op |-> op])
            /\ s = StatusOf(op)
      BY <1>3 DEF Accept
    <2>2. /\ o \in Objects /\ n \in Objects /\ n # o
          /\ worker[w].at = "spawn" /\ obj[n].status = "PROCESS"
      BY <1>3 DEF Accept
    <2>3. \A p \in Objects \ {o, n} : obj'[p] = obj[p]
      BY <2>1, <2>2
    <2>4. /\ obj'[n].op = "request" /\ obj'[n].status = "PROCESS"
          /\ obj'[o].status = s /\ obj'[o].op = obj[o].op
      BY <2>1, <2>2 DEF ObjectTypes
    <2>5. Has(w, o) /\ Has(w, n) /\ obj[o].op = "none"
      BY <2>2
    <2> HIDE DEF o, n
    <2> QED BY <2>1, <2>2, <2>3, <2>4, <2>5, SetFacts
  <1>4. CASE ReadOrWrite(w) \/ CloseStream(w)
    <2> DEFINE o == worker[w].o
    <2>1. PICK s \in {"READ", "WRITE", "FINISH"}, op \in {"read", "write", "finish"} :
            /\ obj' = Status(o, s)
            /\ Set(w, [at |-> "issue", o |-> o, op |-> op])
            /\ s = StatusOf(op)
      BY <1>4 DEF ReadOrWrite, CloseStream
    <2>2. o \in Objects /\ worker[w].at = "event"
      BY <1>4 DEF ReadOrWrite, CloseStream
    <2>3. \A p \in Objects \ {o} : obj'[p] = obj[p]
      BY <2>1, <2>2 DEF Status
    <2>4. obj'[o].status = s /\ obj'[o].op = "none"
      BY <2>1, <2>2 DEF ObjectTypes, Status
    <2>5. Has(w, o)
      BY <2>2
    <2> HIDE DEF o
    <2> QED BY <2>1, <2>2, <2>3, <2>4, <2>5, SetFacts
  <1>5. CASE IgnoreFailure(w) \/ Delete(w)
    <2> DEFINE o == worker[w].o
    <2>1. /\ obj' = obj \/ obj' = Status(o, "deleted")
          /\ Set(w, Idle)
      BY <1>5 DEF IgnoreFailure, Delete
    <2>2. o \in Objects /\ worker[w].at = "event"
      BY <1>5 DEF IgnoreFailure, Delete
    <2>3. \A p \in Objects \ {o} : obj'[p] = obj[p]
      BY <2>1, <2>2 DEF Status
    <2>4. obj'[o].op = "none"
      BY <2>1, <2>2 DEF ObjectTypes, Status
    <2>5. Has(w, o) /\ worker'[w].at = "idle"
      BY <2>1, <2>2, SetFacts DEF Idle
    <2>6. \A v \in Workers \ {w} : worker'[v] = worker[v] /\ ~Has(v, o)
      BY <2>1, <2>2, <2>5, SetFacts
    <2> HIDE DEF o
    <2> QED BY <2>2, <2>3, <2>4, <2>5, <2>6
  <1>6. CASE Issue(w)
    <2> DEFINE o == worker[w].o
    <2>1. /\ obj' = [obj EXCEPT ![o].op = worker[w].op]
          /\ Set(w, Idle)
      BY <1>6 DEF Issue
    <2>2. o \in Objects /\ worker[w].at = "issue"
      BY <1>6 DEF Issue
    <2> QED BY <2>1, <2>2, SetFacts DEF ObjectTypes, Idle
  <1> QED BY <1>1, <1>2, <1>3, <1>4, <1>5, <1>6 DEF WorkerStep

\* gRPC completes operations and changes no status.
LEMMA ProtocolOther ==
  ASSUME Types, Hands, Protocol, NEW o \in Objects, GrpcStep(o) \/ ClientStep(o)
  PROVE  Protocol'
  <1> USE DEF Types, WorkerType, InGrpc, Protocol
  <1>1. \/ UNCHANGED <<obj, worker>>
        \/ obj' = [obj EXCEPT ![o].op = "none"] /\ UNCHANGED worker
    BY DEF GrpcStep, ClientStep, CompleteRead, CompleteWrite, OpenCall, Complete,
           Ping, WritesDone, Drop
  <1> QED BY <1>1 DEF ObjectTypes

-----------------------------------------------------------------------------
\* A worker answers only what was read.
LEMMA CountsWorker ==
  ASSUME Types, Hands, Protocol, Counts, NEW w \in Workers, WorkerStep(w)
  PROVE  Counts'
  <1> USE StatusFacts DEF Types, WorkerType, Hands, Has, InGrpc, InQueue, Alive, Counts
  <1>0. UNCHANGED call
    BY DEF WorkerStep, TakeEvent, Spawn, Accept, ReadOrWrite, CloseStream,
           IgnoreFailure, Issue, Delete
  <1>1. CASE TakeEvent(w)
    <2>1. PICK e \in queue :
            /\ queue' = queue \ {e}
            /\ Set(w, [at |-> "event", o |-> e.tag, ok |-> e.ok])
      BY <1>1 DEF TakeEvent
    <2> QED BY <1>0, <1>1, <2>1, SetFacts DEF TakeEvent
  <1>2. CASE Spawn(w)
    <2> DEFINE o == worker[w].o
    <2>1. PICK n \in Fresh :
            /\ obj' = [obj EXCEPT ![n] = [kind |-> obj[o].kind,
                                          status |-> "PROCESS", op |-> "none"]]
            /\ Set(w, [at |-> "spawn", o |-> o, n |-> n])
      BY <1>2 DEF Spawn
    <2>2. /\ o \in Objects /\ n \in Objects /\ ~Alive(n) /\ n # o
          /\ worker[w].at = "event" /\ UNCHANGED queue
      BY <1>2 DEF Spawn, Fresh
    <2>3. \A p \in Objects \ {n} : obj'[p] = obj[p]
      BY <2>1
    <2>4. obj'[n].status = "PROCESS" /\ obj'[n].op = "none"
      BY <2>1, <2>2
    <2> QED BY <1>0, <2>1, <2>2, <2>3, <2>4, SetFacts
  <1>3. CASE Accept(w)
    <2> DEFINE o == worker[w].o
               n == worker[w].n
    <2>1. PICK s \in {"FINISH", "WRITE"}, op \in {"finish", "read"} :
            /\ obj' = [obj EXCEPT ![n].op = "request", ![o].status = s]
            /\ Set(w, [at |-> "issue", o |-> o, op |-> op])
      BY <1>3 DEF Accept
    <2>2. /\ o \in Objects /\ n \in Objects /\ n # o
          /\ worker[w].at = "spawn" /\ UNCHANGED queue
      BY <1>3 DEF Accept, Protocol
    <2>3. \A p \in Objects \ {o, n} : obj'[p] = obj[p]
      BY <2>1, <2>2
    <2>4. /\ obj'[n].op = "request" /\ obj'[n].status = "PROCESS"
          /\ obj'[o].status = s /\ obj'[o].op = obj[o].op
      <3>1. obj'[n].op = "request" /\ obj'[n].status = obj[n].status
        BY <2>1, <2>2 DEF ObjectTypes
      <3>2. obj'[o].status = s /\ obj'[o].op = obj[o].op
        BY <2>1, <2>2 DEF ObjectTypes
      <3>3. obj[n].status = "PROCESS"
        BY <2>2 DEF Protocol
      <3> QED BY <3>1, <3>2, <3>3
    <2>5. Has(w, o) /\ Has(w, n) /\ obj[o].op = "none"
      BY <2>2
    <2> HIDE DEF o, n
    <2>6. \A p \in Objects :
            /\ call'[p].answered <= call'[p].read
            /\ call'[p].read <= call'[p].sent
            /\ call'[p].sent <= MaxPings
            /\ obj'[p].op = "write" => call'[p].answered < call'[p].read
      BY <1>0, <2>2, <2>3, <2>4
    <2>7. \A e \in queue' :
            obj'[e.tag].status = "WRITE" /\ e.ok =>
              call'[e.tag].answered < call'[e.tag].read
      BY <1>0, <2>2, <2>3, <2>4, <2>5
    <2>8. \A v \in Workers :
            \/ worker'[v].at = "event" /\ obj'[worker'[v].o].status = "WRITE" /\ worker'[v].ok
            \/ worker'[v].at = "issue" /\ worker'[v].op = "write"
            => call'[worker'[v].o].answered < call'[worker'[v].o].read
      BY <1>0, <2>1, <2>2, <2>3, <2>4, <2>5, SetFacts
    <2> QED BY <2>6, <2>7, <2>8
  <1>4. CASE ReadOrWrite(w) \/ CloseStream(w)
    <2> DEFINE o == worker[w].o
    <2>1. PICK s \in {"READ", "WRITE", "FINISH"}, op \in {"read", "write", "finish"} :
            /\ obj' = Status(o, s)
            /\ Set(w, [at |-> "issue", o |-> o, op |-> op])
            /\ op = "write" => worker[w].ok /\ obj[o].status = "WRITE"
      BY <1>4 DEF ReadOrWrite, CloseStream
    <2>2. o \in Objects /\ worker[w].at = "event" /\ UNCHANGED queue
      BY <1>4 DEF ReadOrWrite, CloseStream
    <2>3. \A p \in Objects \ {o} : obj'[p] = obj[p]
      BY <2>1, <2>2 DEF Status
    <2>4. obj'[o].op = "none"
      BY <2>1, <2>2 DEF ObjectTypes, Status
    <2>5. Has(w, o)
      BY <2>2
    <2> HIDE DEF o
    <2> QED BY <1>0, <2>1, <2>2, <2>3, <2>4, <2>5, SetFacts
  <1>5. CASE IgnoreFailure(w) \/ Delete(w)
    <2> DEFINE o == worker[w].o
    <2>1. /\ obj' = obj \/ obj' = Status(o, "deleted")
          /\ Set(w, Idle)
      BY <1>5 DEF IgnoreFailure, Delete
    <2>2. o \in Objects /\ worker[w].at = "event" /\ UNCHANGED queue
      BY <1>5 DEF IgnoreFailure, Delete
    <2> QED BY <1>0, <2>1, <2>2, SetFacts DEF ObjectTypes, Status, Idle
  <1>6. CASE Issue(w)
    <2> DEFINE o == worker[w].o
    <2>1. /\ obj' = [obj EXCEPT ![o].op = worker[w].op]
          /\ Set(w, Idle)
      BY <1>6 DEF Issue
    <2>2. o \in Objects /\ worker[w].at = "issue" /\ UNCHANGED queue
      BY <1>6 DEF Issue
    <2>3. \A p \in Objects \ {o} : obj'[p] = obj[p]
      BY <2>1, <2>2
    <2>4. obj'[o].op = worker[w].op /\ obj'[o].status = obj[o].status
      BY <2>1, <2>2 DEF ObjectTypes
    <2>5. Has(w, o)
      BY <2>2
    <2> HIDE DEF o
    <2>6. \A p \in Objects :
            /\ call'[p].answered <= call'[p].read
            /\ call'[p].read <= call'[p].sent
            /\ call'[p].sent <= MaxPings
            /\ obj'[p].op = "write" => call'[p].answered < call'[p].read
      BY <1>0, <2>2, <2>3, <2>4 DEF o
    <2>7. \A e \in queue' :
            obj'[e.tag].status = "WRITE" /\ e.ok =>
              call'[e.tag].answered < call'[e.tag].read
      BY <1>0, <2>2, <2>3, <2>4, <2>5
    <2>8. \A v \in Workers :
            \/ worker'[v].at = "event" /\ obj'[worker'[v].o].status = "WRITE" /\ worker'[v].ok
            \/ worker'[v].at = "issue" /\ worker'[v].op = "write"
            => call'[worker'[v].o].answered < call'[worker'[v].o].read
      BY <1>0, <2>1, <2>2, <2>3, <2>4, <2>5, SetFacts DEF Idle
    <2> QED BY <2>6, <2>7, <2>8
  <1> QED BY <1>1, <1>2, <1>3, <1>4, <1>5, <1>6 DEF WorkerStep

\* A read that is completed is one more message to answer, a write one less.
LEMMA CountsOther ==
  ASSUME Types, Hands, Protocol, Counts, NEW o \in Objects,
         GrpcStep(o) \/ ClientStep(o)
  PROVE  Counts'
  <1> USE StatusFacts
      DEF Types, WorkerType, Hands, Has, InGrpc, InQueue, Alive, Protocol, Counts
  <1> MaxPings \in Nat
    BY ServerAssumption
  <1> DEFINE Answered(ok) == /\ obj' = [obj EXCEPT ![o].op = "none"]
                             /\ queue' = queue \cup {[tag |-> o, ok |-> ok]}
                             /\ UNCHANGED worker
  <1>1. /\ obj' = [obj EXCEPT ![o].op = "none"] =>
             /\ \A p \in Objects \ {o} : obj'[p] = obj[p]
             /\ obj'[o].op = "none" /\ obj'[o].status = obj[o].status
        /\ queue' = queue \cup {[tag |-> o, ok |-> TRUE]} =>
             \A e \in queue' : e \in queue \/ e.tag = o
        /\ queue' = queue \cup {[tag |-> o, ok |-> FALSE]} =>
             \A e \in queue' : e \in queue \/ (e.tag = o /\ ~e.ok)
    BY DEF ObjectTypes
  <1>2. CASE CompleteRead(o)
    <2>1. obj[o].op = "read" /\ obj[o].status = "WRITE"
      BY <1>2 DEF CompleteRead, Complete
    <2>2. CASE call' = [call EXCEPT ![o].read = @ + 1] /\ call[o].sent > call[o].read
               /\ Answered(TRUE)
      <3>1. /\ \A p \in Objects \ {o} : call'[p] = call[p]
            /\ call'[o].sent = call[o].sent /\ call'[o].answered = call[o].answered
            /\ call'[o].read = call[o].read + 1
        BY <2>2 DEF CallTypes
      <3> QED BY <1>1, <2>1, <2>2, <3>1 DEF CallTypes
    <2>3. CASE UNCHANGED call /\ Answered(FALSE)
      BY <1>1, <2>1, <2>3
    <2> QED BY <1>2, <2>2, <2>3 DEF CompleteRead, Complete
  <1>3. CASE CompleteWrite(o)
    <2>1. obj[o].op \in {"write", "finish"} /\ obj[o].status \in {"READ", "FINISH"}
      BY <1>3 DEF CompleteWrite, Complete
    <2>2. CASE call' = [call EXCEPT ![o].answered = @ + 1] /\ obj[o].op = "write"
               /\ Answered(TRUE)
      <3>1. /\ \A p \in Objects \ {o} : call'[p] = call[p]
            /\ call'[o].sent = call[o].sent /\ call'[o].read = call[o].read
            /\ call'[o].answered = call[o].answered + 1
        BY <2>2 DEF CallTypes
      <3> QED BY <1>1, <2>1, <2>2, <3>1 DEF CallTypes
    <2>3. CASE UNCHANGED call /\ (Answered(FALSE) \/ Answered(TRUE))
      BY <1>1, <2>1, <2>3
    <2> QED BY <1>3, <2>2, <2>3 DEF CompleteWrite, Complete
  <1>4. CASE OpenCall(o)
    <2>1. obj[o].op = "request" /\ obj[o].status = "PROCESS" /\ Answered(TRUE)
      BY <1>4 DEF OpenCall, Complete
    <2>2. /\ \A p \in Objects \ {o} : call'[p] = call[p]
          /\ call'[o].sent = 0 /\ call'[o].read = 0 /\ call'[o].answered = 0
      BY <1>4 DEF OpenCall, NoCall
    <2> QED BY <1>1, <2>1, <2>2
  <1>5. CASE Ping(o)
    <2>1. /\ \A p \in Objects \ {o} : call'[p] = call[p]
          /\ call'[o].sent = call[o].sent + 1 /\ call[o].sent < MaxPings
          /\ call'[o].read = call[o].read /\ call'[o].answered = call[o].answered
      BY <1>5 DEF Ping, CallTypes
    <2> QED BY <1>5, <2>1 DEF Ping, CallTypes
  <1>6. CASE WritesDone(o) \/ Drop(o)
    <2>1. \A p \in Objects :
            /\ call'[p].sent = call[p].sent
            /\ call'[p].read = call[p].read /\ call'[p].answered = call[p].answered
      BY <1>6 DEF WritesDone, Drop, CallTypes
    <2> QED BY <1>6, <2>1 DEF WritesDone, Drop
  <1> QED BY <1>2, <1>3, <1>4, <1>5, <1>6 DEF GrpcStep, ClientStep

-----------------------------------------------------------------------------
(* The objects that wait for calls.                                        *)

Acceptors(k) == {o \in Objects : obj[o].kind = k /\ obj[o].status = "PROCESS"}
Spawning(k)  == {w \in Workers : worker[w].at = "spawn" /\ obj[worker[w].o].kind = k}

\* There are finitely many objects and workers.
LEMMA FiniteFacts ==
  ASSUME NEW k
  PROVE  /\ IsFiniteSet(Objects) /\ IsFiniteSet(Acceptors(k))
         /\ IsFiniteSet(Spawning(k))
         /\ Cardinality(Acceptors(k)) \in Nat /\ Cardinality(Spawning(k)) \in Nat
  <1>1. 2 * Callbacks + MaxCalls \in Int
    BY ServerAssumption
  <1>2. IsFiniteSet(Objects)
    BY <1>1, FS_Interval DEF Objects
  <1>3. IsFiniteSet(Acceptors(k)) /\ IsFiniteSet(Spawning(k))
    BY <1>2, FS_Subset, ServerAssumption DEF Acceptors, Spawning
  <1> QED BY <1>2, <1>3, FS_CardinalityType

\* Of the first 2n numbers, n are odd and n are even.
LEMMA HalfAreOdd ==
  ASSUME NEW n \in Nat, NEW r \in {0, 1}
  PROVE  Cardinality({i \in 1 .. (2 * n) : i % 2 = r}) = n
  <1> DEFINE S == {i \in 1 .. (2 * n) : i % 2 = r}
             f == [j \in 1 .. n |-> 2 * j - r]
  <1>1. IsFiniteSet(1 .. n) /\ Cardinality(1 .. n) = n
    BY FS_Interval
  <1>2. f \in [1 .. n -> S]
    BY Z3
  <1>3. \A i, j \in 1 .. n : f[i] = f[j] => i = j
    OBVIOUS
  <1>4. \A s \in S : \E j \in 1 .. n : f[j] = s
    <2>1. SUFFICES ASSUME NEW s \in S PROVE \E j \in 1 .. n : 2 * j - r = s
      OBVIOUS
    <2>2. (s + r) \div 2 \in 1 .. n /\ 2 * ((s + r) \div 2) = s + r
      BY Z3
    <2> QED BY <2>2
  <1> HIDE DEF f, S
  <1>5. f \in Bijection(1 .. n, S)
    BY <1>2, <1>3, <1>4 DEF Bijection, Injection, Surjection, IsInjective
  <1>6. ExistsBijection(1 .. n, S)
    BY <1>5 DEF ExistsBijection
  <1>7. Cardinality(S) = n
    BY <1>1, <1>6, FS_Bijection
  <1> QED BY <1>7 DEF S

\* The number of acceptors is right when both sets grow or shrink together.
LEMMA TogetherKept ==
  ASSUME NEW A, NEW S, NEW B, NEW T, NEW n, NEW w,
         IsFiniteSet(A), IsFiniteSet(S),
         Cardinality(A) = Callbacks + Cardinality(S),
         \/ n \notin A /\ B = A \cup {n} /\ w \notin S /\ T = S \cup {w}
         \/ n \in A /\ B = A \ {n} /\ w \in S /\ T = S \ {w}
  PROVE  Cardinality(B) = Callbacks + Cardinality(T)
  <1>1. Callbacks \in Nat /\ Cardinality(A) \in Nat /\ Cardinality(S) \in Nat
    BY ServerAssumption, FS_CardinalityType
  <1>2. CASE n \notin A /\ B = A \cup {n} /\ w \notin S /\ T = S \cup {w}
    <2>1. Cardinality(B) = Cardinality(A) + 1 /\ Cardinality(T) = Cardinality(S) + 1
      BY <1>2, FS_AddElement
    <2> QED BY <1>1, <2>1
  <1>3. CASE n \in A /\ B = A \ {n} /\ w \in S /\ T = S \ {w}
    <2>1. Cardinality(B) = Cardinality(A) - 1 /\ Cardinality(T) = Cardinality(S) - 1
      BY <1>3, FS_RemoveElement
    <2> QED BY <1>1, <2>1
  <1> QED BY <1>2, <1>3

\* An object leaves PROCESS when, and only when, its successor waits for calls.
LEMMA AcceptorsWorker ==
  ASSUME Types, Hands, Protocol, AcceptorsKept, NEW w \in Workers, WorkerStep(w)
  PROVE  AcceptorsKept'
  <1> SUFFICES ASSUME NEW k \in Kinds
               PROVE  Cardinality(Acceptors(k)') = Callbacks + Cardinality(Spawning(k)')
    BY DEF AcceptorsKept, Acceptors, Spawning
  <1>0. Cardinality(Acceptors(k)) = Callbacks + Cardinality(Spawning(k))
    BY DEF AcceptorsKept, Acceptors, Spawning
  <1> USE DEF Types, WorkerType, Hands, Has, Alive, Protocol
  <1> DEFINE o == worker[w].o
  <1>1. ASSUME NEW s \in Statuses, s # "PROCESS", NEW state, state.at # "spawn",
               worker[w].at \in {"event", "issue"}, Set(w, state),
               \/ obj' = obj
               \/ obj[o].status # "PROCESS" /\ obj' = Status(o, s)
               \/ \E op \in Ops : obj' = [obj EXCEPT ![o].op = op]
        PROVE  Acceptors(k)' = Acceptors(k) /\ Spawning(k)' = Spawning(k)
    <2> DEFINE Same == \A p \in Objects :
                 /\ obj'[p].kind = obj[p].kind
                 /\ (obj'[p].status = "PROCESS") <=> (obj[p].status = "PROCESS")
    <2>1. Same
      <3>1. CASE obj' = obj
        BY <3>1
      <3>2. CASE obj[o].status # "PROCESS" /\ obj' = Status(o, s)
        BY <1>1, <3>2 DEF Status, ObjectTypes
      <3>3. ASSUME NEW op \in Ops, obj' = [obj EXCEPT ![o].op = op] PROVE Same
        BY <3>3 DEF ObjectTypes
      <3> QED BY <1>1, <3>1, <3>2, <3>3
    <2> QED BY <1>1, <2>1, SetFacts DEF Acceptors, Spawning
  <1>2. CASE TakeEvent(w)
    <2>1. PICK e \in queue : Set(w, [at |-> "event", o |-> e.tag, ok |-> e.ok])
      BY <1>2 DEF TakeEvent
    <2>2. Acceptors(k)' = Acceptors(k) /\ Spawning(k)' = Spawning(k)
      BY <1>2, <2>1, SetFacts DEF TakeEvent, Acceptors, Spawning, Idle
    <2> QED BY <1>0, <2>2
  <1>3. CASE Spawn(w)
    <2>1. PICK n \in Fresh :
            /\ obj' = [obj EXCEPT ![n] = [kind |-> obj[o].kind,
                                          status |-> "PROCESS", op |-> "none"]]
            /\ Set(w, [at |-> "spawn", o |-> o, n |-> n])
      BY <1>3 DEF Spawn
    <2>2. /\ o \in Objects /\ n \in Objects /\ ~Alive(n) /\ n # o
          /\ worker[w].at = "event" /\ obj[o].status = "PROCESS"
      BY <1>3 DEF Spawn, Fresh
    <2>3. \A p \in Objects \ {n} : obj'[p] = obj[p]
      BY <2>1
    <2>4. obj'[n].status = "PROCESS" /\ obj'[n].kind = obj[o].kind
      BY <2>1, <2>2
    <2>5. \A v \in Workers \ {w} : worker[v].at = "spawn" => worker[v].o # n
      BY <2>2
    <2>6. CASE obj[o].kind = k
      <3>1. n \notin Acceptors(k) /\ Acceptors(k)' = Acceptors(k) \cup {n}
        BY <2>2, <2>3, <2>4, <2>6 DEF Acceptors
      <3>2. w \notin Spawning(k) /\ Spawning(k)' = Spawning(k) \cup {w}
        BY <2>1, <2>2, <2>3, <2>5, <2>6, SetFacts DEF Spawning
      <3> HIDE DEF Types, Hands, Protocol
      <3> QED BY <1>0, <3>1, <3>2, FiniteFacts, TogetherKept
    <2>7. CASE obj[o].kind # k
      <3>1. Acceptors(k)' = Acceptors(k)
        BY <2>2, <2>3, <2>4, <2>7 DEF Acceptors
      <3>2. Spawning(k)' = Spawning(k)
        BY <2>1, <2>2, <2>3, <2>5, <2>7, SetFacts DEF Spawning
      <3> QED BY <1>0, <3>1, <3>2
    <2> QED BY <2>6, <2>7
  <1>4. CASE Accept(w)
    <2> DEFINE n == worker[w].n
    <2>1. PICK s \in {"FINISH", "WRITE"}, op \in {"finish", "read"} :
            /\ obj' = [obj EXCEPT ![n].op = "request", ![o].status = s]
            /\ Set(w, [at |-> "issue", o |-> o, op |-> op])
      BY <1>4 DEF Accept
    <2>2. /\ o \in Objects /\ n \in Objects /\ n # o
          /\ worker[w].at = "spawn" /\ obj[o].status = "PROCESS"
      BY <1>4 DEF Accept
    <2>3. /\ \A p \in Objects : obj'[p].kind = obj[p].kind
          /\ \A p \in Objects \ {o} : obj'[p].status = obj[p].status
          /\ obj'[o].status # "PROCESS"
      <3>1. \A p \in Objects \ {o, n} : obj'[p] = obj[p]
        BY <2>1, <2>2
      <3>2. obj'[n].kind = obj[n].kind /\ obj'[n].status = obj[n].status
        BY <2>1, <2>2 DEF ObjectTypes
      <3>3. obj'[o].kind = obj[o].kind /\ obj'[o].status # "PROCESS"
        BY <2>1, <2>2 DEF ObjectTypes
      <3> QED BY <2>2, <3>1, <3>2, <3>3
    <2>4. /\ worker[w].o = o /\ worker[w].at = "spawn" /\ worker'[w].at = "issue"
          /\ \A v \in Workers \ {w} : worker'[v] = worker[v]
          /\ \A v \in Workers : worker[v].at = "spawn" => worker[v].o \in Objects
      BY <2>1, <2>2, SetFacts
    <2> HIDE DEF Types, Hands, Protocol, o
    <2>5. CASE obj[o].kind = k
      <3>1. o \in Acceptors(k) /\ Acceptors(k)' = Acceptors(k) \ {o}
        BY <2>2, <2>3, <2>5 DEF Acceptors
      <3>2. w \in Spawning(k) /\ Spawning(k)' = Spawning(k) \ {w}
        BY <2>3, <2>4, <2>5 DEF Spawning
      <3> QED BY <1>0, <3>1, <3>2, FiniteFacts, TogetherKept
    <2>6. CASE obj[o].kind # k
      <3>1. Acceptors(k)' = Acceptors(k)
        BY <2>2, <2>3, <2>6 DEF Acceptors
      <3>2. Spawning(k)' = Spawning(k)
        BY <2>3, <2>4, <2>6 DEF Spawning
      <3> QED BY <1>0, <3>1, <3>2
    <2> QED BY <2>5, <2>6
  <1>5. CASE ReadOrWrite(w) \/ CloseStream(w)
    <2>1. PICK s \in {"READ", "WRITE", "FINISH"}, op \in {"read", "write", "finish"} :
            /\ obj' = Status(o, s)
            /\ Set(w, [at |-> "issue", o |-> o, op |-> op])
      BY <1>5 DEF ReadOrWrite, CloseStream
    <2>2. worker[w].at = "event" /\ obj[o].status # "PROCESS"
      BY <1>5 DEF ReadOrWrite, CloseStream
    <2> QED BY <1>0, <1>1, <2>1, <2>2 DEF Statuses
  <1>6. CASE IgnoreFailure(w) \/ Delete(w)
    <2>1. /\ obj' = obj \/ (obj[o].status # "PROCESS" /\ obj' = Status(o, "deleted"))
          /\ Set(w, Idle) /\ worker[w].at = "event"
      BY <1>6 DEF IgnoreFailure, Delete
    <2> QED BY <1>0, <1>1, <2>1 DEF Statuses, Idle
  <1>7. CASE Issue(w)
    <2>1. /\ obj' = [obj EXCEPT ![o].op = worker[w].op]
          /\ Set(w, Idle) /\ worker[w].at = "issue" /\ worker[w].op \in Ops
      BY <1>7 DEF Issue, Ops
    <2>2. "deleted" \in Statuses /\ Idle.at # "spawn"
      BY DEF Statuses, Idle
    <2> QED BY <1>0, <1>1, <2>1, <2>2
  <1> QED BY <1>2, <1>3, <1>4, <1>5, <1>6, <1>7 DEF WorkerStep

\* gRPC and the clients change neither a kind nor a status.
LEMMA AcceptorsOther ==
  ASSUME Types, AcceptorsKept, NEW o \in Objects, GrpcStep(o) \/ ClientStep(o)
  PROVE  AcceptorsKept'
  <1> USE DEF Types, WorkerType
  <1>1. \/ UNCHANGED <<obj, worker>>
        \/ obj' = [obj EXCEPT ![o].op = "none"] /\ UNCHANGED worker
    BY DEF GrpcStep, ClientStep, CompleteRead, CompleteWrite, OpenCall, Complete,
           Ping, WritesDone, Drop
  <1>2. /\ UNCHANGED worker
        /\ \A p \in Objects : obj'[p].kind = obj[p].kind /\ obj'[p].status = obj[p].status
    BY <1>1 DEF ObjectTypes
  <1>3. \A k \in Kinds : Acceptors(k)' = Acceptors(k) /\ Spawning(k)' = Spawning(k)
    BY <1>2 DEF Acceptors, Spawning
  <1> QED BY <1>3 DEF AcceptorsKept, Acceptors, Spawning

-----------------------------------------------------------------------------
\* Every object that exists is in gRPC, with its request.
LEMMA InitHolds == Init => IInv
  <1> SUFFICES ASSUME Init PROVE IInv
    OBVIOUS
  <1>1. /\ \A o \in Objects : o > 2 * Callbacks => obj[o] = NoObject
        /\ \A o \in Objects : ~(o > 2 * Callbacks) =>
             /\ obj[o].kind = IF o % 2 = 1 THEN "unary" ELSE "stream"
             /\ obj[o].status = "PROCESS" /\ obj[o].op = "request"
        /\ \A o \in Objects : call[o] = NoCall
        /\ queue = {}
        /\ \A w \in Workers : worker[w].at = "idle"
    BY DEF Init, Idle
  <1>2. \A o \in Objects : \/ obj[o].status = "none" /\ obj[o].op = "none"
                           \/ obj[o].status = "PROCESS" /\ obj[o].op = "request"
    BY <1>1 DEF NoObject
  <1>3. Hands
    BY <1>1, <1>2 DEF Hands, Has, InGrpc, InQueue, Alive
  <1>4. Protocol
    BY <1>1, <1>2, StatusFacts DEF Protocol, InGrpc
  <1>5. Counts
    BY <1>1, <1>2, ServerAssumption DEF Counts, NoCall
  <1>6. ASSUME NEW r \in {0, 1}, NEW k, k = IF r = 1 THEN "unary" ELSE "stream"
        PROVE  Acceptors(k) = {i \in 1 .. (2 * Callbacks) : i % 2 = r}
    <2>1. Callbacks \in Nat /\ MaxCalls \in Nat
      BY ServerAssumption
    <2>2. \A o : o \in 1 .. (2 * Callbacks) <=> o \in Objects /\ ~(o > 2 * Callbacks)
      BY <2>1 DEF Objects
    <2>3. \A o \in Objects : o > 2 * Callbacks => obj[o].kind = "none"
      BY <1>1 DEF NoObject
    <2>4. \A o \in 1 .. (2 * Callbacks) :
            /\ obj[o].status = "PROCESS"
            /\ obj[o].kind = IF o % 2 = 1 THEN "unary" ELSE "stream"
      BY <1>1, <2>2
    <2>5. \A o \in 1 .. (2 * Callbacks) : o % 2 \in {0, 1}
      BY <2>1
    <2> QED BY <1>6, <2>2, <2>3, <2>4, <2>5 DEF Acceptors
  <1>7. \A k \in Kinds : Spawning(k) = {}
    BY <1>1 DEF Spawning
  <1>8. AcceptorsKept
    <2>1. Callbacks \in Nat
      BY ServerAssumption
    <2>2. \A k \in Kinds : Cardinality(Acceptors(k)) = Callbacks
      <3>1. Cardinality(Acceptors("unary")) = Callbacks
        BY <1>6, <2>1, HalfAreOdd
      <3>2. Cardinality(Acceptors("stream")) = Callbacks
        <4>1. Acceptors("stream") = {i \in 1 .. (2 * Callbacks) : i % 2 = 0}
          BY <1>6
        <4> QED BY <2>1, <4>1, HalfAreOdd
      <3> QED BY <3>1, <3>2 DEF Kinds
    <2>3. \A k \in Kinds : Cardinality(Spawning(k)) = 0
      BY <1>7, FS_EmptySet
    <2> QED BY <2>1, <2>2, <2>3 DEF AcceptorsKept, Acceptors, Spawning
  <1> QED BY <1>3, <1>4, <1>5, <1>8, TypesInit DEF IInv

\* Every step keeps the invariant.
LEMMA StepHolds == IInv /\ [Next]_vars => IInv'
  <1> SUFFICES ASSUME IInv, [Next]_vars PROVE IInv'
    OBVIOUS
  <1>1. ASSUME NEW w \in Workers, WorkerStep(w) PROVE IInv'
    BY <1>1, TypesWorker, HandsWorker, ProtocolWorker, CountsWorker, AcceptorsWorker
       DEF IInv
  <1>2. ASSUME NEW o \in Objects, GrpcStep(o) \/ ClientStep(o) PROVE IInv'
    BY <1>2, TypesOther, HandsOther, ProtocolOther, CountsOther, AcceptorsOther
       DEF IInv
  <1>3. CASE UNCHANGED vars
    BY <1>3 DEF vars, IInv, Types, Hands, Protocol, Counts, AcceptorsKept,
                InGrpc, InQueue, Alive, Has
  <1> QED BY <1>1, <1>2, <1>3 DEF Next

LEMMA Invariance == Spec => []IInv
  BY InitHolds, StepHolds, PTL DEF Spec

-----------------------------------------------------------------------------
\* A set whose elements are all equal has one at most.
LEMMA AtMostOne ==
  ASSUME NEW S, \A a, b \in S : a = b
  PROVE  Cardinality(S) <= 1
  <1>1. CASE S = {}
    BY <1>1, FS_EmptySet
  <1>2. CASE S # {}
    <2>1. PICK a : S = {a}
      BY <1>2
    <2> QED BY <2>1, FS_Singleton
  <1> QED BY <1>1, <1>2

\* Whoever holds an object is the only one, and it is alive.
LEMMA HandsMeanOneHolder == ASSUME Hands PROVE OneHolder
  <1> SUFFICES ASSUME NEW o \in Objects
               PROVE  Cardinality(Holders(o)) <= IF Alive(o) THEN 1 ELSE 0
    BY DEF OneHolder
  <1>1. \A h \in Holders(o) :
          \/ InGrpc(o) /\ h = <<"op", obj[o].op>>
          \/ \E e \in queue : e.tag = o /\ h = <<"event", e>>
          \/ \E w \in Workers : Has(w, o) /\ h = <<"worker", w>>
    BY DEF Holders, InGrpc, Has
  <1>2. \A g, h \in Holders(o) : g = h
    BY <1>1 DEF Hands, InQueue
  <1>3. Holders(o) # {} => Alive(o)
    BY <1>1 DEF Hands, InQueue
  <1>4. CASE Alive(o)
    BY <1>2, <1>4, AtMostOne
  <1>5. CASE ~Alive(o)
    BY <1>3, <1>5, FS_EmptySet
  <1> QED BY <1>4, <1>5

\* The types of the variables; no counter of a call passes MaxPings, because a
\* message is answered once.
THEOREM TypeCorrect == Spec => []TypeOK
  <1>1. IInv => TypeOK
    <2> SUFFICES ASSUME IInv PROVE TypeOK
      OBVIOUS
    <2> USE DEF IInv, Types, Counts
    <2>1. ASSUME NEW o \in Objects
          PROVE  {call[o].sent, call[o].read, call[o].answered} \subseteq 0 .. MaxPings
      BY ServerAssumption DEF CallTypes
    <2> QED BY <2>1 DEF TypeOK, ObjectTypes, CallTypes, WorkerType
  <1> QED BY Invariance, <1>1, PTL

\* Without a lock, and for any number of workers, objects and calls, no two workers
\* run the code of one object, and none runs that of a deleted one.
THEOREM OneHolderAlways == Spec => []OneHolder
  <1>1. IInv => OneHolder
    BY HandsMeanOneHolder DEF IInv
  <1> QED BY Invariance, <1>1, PTL

\* The server never loses an acceptor of either kind, whatever the clients do.
THEOREM AcceptorsAlwaysKept == Spec => []AcceptorsKept
  <1>1. IInv => AcceptorsKept
    BY DEF IInv
  <1> QED BY Invariance, <1>1, PTL

=============================================================================
