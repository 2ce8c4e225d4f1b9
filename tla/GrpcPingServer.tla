---------------------------- MODULE GrpcPingServer ----------------------------
(***************************************************************************)
(* The asynchronous gRPC server of microbenchmarks/grpc_ping: one          *)
(* completion queue, its workers (HandleRpcs) and the call objects they    *)
(* drive, CallData for unary pings and StreamCallData for streams.         *)
(*                                                                         *)
(* An object is owned by nobody: it is the tag of the one operation it has *)
(* given to gRPC, and deletes itself when its last operation is answered.  *)
(* As soon as an operation is given to gRPC its event may be picked up by  *)
(* another worker, although the first one is still inside Proceed().       *)
(* Queues share nothing, so one is modelled.                               *)
(*                                                                         *)
(* External: gRPC, which completes operations, and the clients.            *)
(***************************************************************************)
EXTENDS Integers, FiniteSets

CONSTANTS
  Workers,    \* threads of the queue (--workers-per-cq)
  Callbacks,  \* --callbacks-per-cq
  MaxCalls,   \* bound on the number of calls
  MaxPings,   \* bound on the messages a client sends in one stream
  Drops       \* clients may cancel their calls or disconnect

ASSUME ServerAssumption ==
  /\ IsFiniteSet(Workers)
  /\ Callbacks \in Nat \ {0}
  /\ MaxCalls \in Nat /\ MaxPings \in Nat
  /\ Drops \in BOOLEAN

VARIABLES
  obj,     \* call objects: kind, status_ and the operation given to gRPC
  call,    \* the client's end of the call an object serves
  queue,   \* completion queue: set of [tag, ok]
  worker   \* what each worker is doing

vars == <<obj, call, queue, worker>>

\* Call objects in the order of their creation; an address is not used again.
Objects == 1 .. (2 * Callbacks + MaxCalls)

Kinds    == {"unary", "stream"}
Statuses == {"none", "PROCESS", "READ", "WRITE", "FINISH", "deleted"}
Ops      == {"none", "request", "read", "write", "finish"}

NoObject == [kind |-> "none", status |-> "none", op |-> "none"]
NoCall   == [state |-> "none", sent |-> 0, read |-> 0, answered |-> 0]

Idle == [at |-> "idle"]

\* The address of the next object.
Fresh == {o \in Objects : obj[o].status = "none"
                            /\ \A p \in 1 .. (o - 1) : obj[p].status # "none"}
Alive(o) == obj[o].status \notin {"none", "deleted"}

-----------------------------------------------------------------------------
(* Steps of a worker.  at = "idle", then "event" (the switch of Proceed or *)
(* SetStreamClosed), then "spawn" (the constructor of the next object is   *)
(* about to give its request to gRPC) or "issue" (status_ has been set, the*)
(* operation has not yet been given to gRPC).                              *)

Set(w, state) == worker' = [worker EXCEPT ![w] = state]

Status(o, s) == [obj EXCEPT ![o].status = s]

\* HandleRpcs: cq->Next.
TakeEvent(w) ==
  /\ worker[w] = Idle
  /\ \E e \in queue :
       /\ queue' = queue \ {e}
       /\ Set(w, [at |-> "event", o |-> e.tag, ok |-> e.ok])
  /\ UNCHANGED <<obj, call>>

\* Mutants: no object is created for the next call; its constructor does not
\* change status_.
SpawnNone(w) ==
  /\ worker[w].at = "event"
  /\ LET o == worker[w].o IN
       /\ obj[o].status = "PROCESS"
       /\ obj' = Status(o, IF obj[o].kind = "unary" THEN "FINISH" ELSE "WRITE")
       /\ Set(w, [at |-> "issue", o |-> o,
                  op |-> IF obj[o].kind = "unary" THEN "finish" ELSE "read"])
  /\ UNCHANGED <<call, queue>>
SpawnInCreate(w) ==
  /\ worker[w].at = "event"
  /\ LET o == worker[w].o IN
       /\ obj[o].status = "PROCESS"
       /\ \E n \in Fresh :
            /\ obj' = [obj EXCEPT ![n] = [kind |-> obj[o].kind,
                                          status |-> "CREATE", op |-> "none"]]
            /\ Set(w, [at |-> "spawn", o |-> o, n |-> n])
  /\ UNCHANGED <<call, queue>>

\* PROCESS: "new CallData(...)", whose constructor calls Proceed() in CREATE.
Spawn(w) ==
  /\ worker[w].at = "event"
  /\ LET o == worker[w].o IN
       /\ obj[o].status = "PROCESS"
       /\ obj[o].kind = "stream" => worker[w].ok
       /\ \E n \in Fresh :
            /\ obj' = [obj EXCEPT ![n] = [kind |-> obj[o].kind,
                                          status |-> "PROCESS", op |-> "none"]]
            /\ Set(w, [at |-> "spawn", o |-> o, n |-> n])
  /\ UNCHANGED <<call, queue>>

\* Mutant: a message that was read is not answered.
ReadOnly(w) ==
  /\ worker[w].at = "event"
  /\ worker[w].ok
  /\ obj[worker[w].o].status = "WRITE"
  /\ Set(w, [at |-> "issue", o |-> worker[w].o, op |-> "read"])
  /\ UNCHANGED <<obj, call, queue>>

\* RequestPing... on the new object; the old one goes on to its next operation.
Accept(w) ==
  /\ worker[w].at = "spawn"
  /\ LET o == worker[w].o  n == worker[w].n IN
       /\ obj' = [obj EXCEPT ![n].op = "request",
                             ![o].status = IF obj[o].kind = "unary"
                                           THEN "FINISH" ELSE "WRITE"]
       /\ Set(w, [at |-> "issue", o |-> o,
                  op |-> IF obj[o].kind = "unary" THEN "finish" ELSE "read"])
  /\ UNCHANGED <<call, queue>>

\* READ and WRITE of StreamCallData: the status names the operation that follows
\* the one that was given to gRPC.
ReadOrWrite(w) ==
  /\ worker[w].at = "event"
  /\ worker[w].ok
  /\ LET o == worker[w].o IN
       \/ /\ obj[o].status = "READ"
          /\ obj' = Status(o, "WRITE")
          /\ Set(w, [at |-> "issue", o |-> o, op |-> "read"])
       \/ /\ obj[o].status = "WRITE"
          /\ obj' = Status(o, "READ")
          /\ Set(w, [at |-> "issue", o |-> o, op |-> "write"])
  /\ UNCHANGED <<call, queue>>

\* Mutants: the object is deleted as soon as Finish was called; a read that
\* failed is not taken for the end of the stream.
CloseAndDelete(w) ==
  /\ worker[w].at = "event"
  /\ ~worker[w].ok
  /\ obj[worker[w].o].status \in {"READ", "WRITE"}
  /\ obj' = [obj EXCEPT ![worker[w].o].status = "deleted",
                        ![worker[w].o].op = "finish"]
  /\ Set(w, Idle)
  /\ UNCHANGED <<call, queue>>
CloseAfterWrite(w) ==
  /\ worker[w].at = "event"
  /\ ~worker[w].ok
  /\ obj[worker[w].o].status = "READ"
  /\ obj' = Status(worker[w].o, "FINISH")
  /\ Set(w, [at |-> "issue", o |-> worker[w].o, op |-> "finish"])
  /\ UNCHANGED <<call, queue>>

\* SetStreamClosed with a read or a write that failed.
CloseStream(w) ==
  /\ worker[w].at = "event"
  /\ ~worker[w].ok
  /\ LET o == worker[w].o IN
       /\ obj[o].kind = "stream"
       /\ obj[o].status \in {"READ", "WRITE"}
       /\ obj' = Status(o, "FINISH")
       /\ Set(w, [at |-> "issue", o |-> o, op |-> "finish"])
  /\ UNCHANGED <<call, queue>>

\* SetStreamClosed in any other status does nothing.
IgnoreFailure(w) ==
  /\ worker[w].at = "event"
  /\ ~worker[w].ok
  /\ obj[worker[w].o].kind = "stream"
  /\ obj[worker[w].o].status \notin {"READ", "WRITE"}
  /\ Set(w, Idle)
  /\ UNCHANGED <<obj, call, queue>>

\* The operation is given to gRPC, and Proceed() returns.
Issue(w) ==
  /\ worker[w].at = "issue"
  /\ obj' = [obj EXCEPT ![worker[w].o].op = worker[w].op]
  /\ Set(w, Idle)
  /\ UNCHANGED <<call, queue>>

\* FINISH: "delete this".
Delete(w) ==
  /\ worker[w].at = "event"
  /\ LET o == worker[w].o IN
       /\ obj[o].status = "FINISH"
       /\ obj[o].kind = "stream" => worker[w].ok
       /\ obj' = Status(o, "deleted")
  /\ Set(w, Idle)
  /\ UNCHANGED <<call, queue>>

-----------------------------------------------------------------------------
(* gRPC and the clients.  A call is "open", "closed" (the client sends no  *)
(* more, it waits for the status) or "dead" (cancelled, connection lost).  *)

\* The event of o's operation is put into the queue.
Complete(o, ok) ==
  /\ obj' = [obj EXCEPT ![o].op = "none"]
  /\ queue' = queue \cup {[tag |-> o, ok |-> ok]}
  /\ UNCHANGED worker

\* A client calls; gRPC matches the call with a request of the right kind.
OpenCall(o) ==
  /\ obj[o].op = "request"
  /\ Cardinality({c \in Objects : call[c].state # "none"}) < MaxCalls
  /\ call' = [call EXCEPT ![o] = [NoCall EXCEPT !.state = "open"]]
  /\ Complete(o, TRUE)

CompleteRead(o) ==
  /\ obj[o].op = "read"
  /\ \/ /\ call[o].sent > call[o].read
        /\ call[o].state # "dead"
        /\ call' = [call EXCEPT ![o].read = @ + 1]
        /\ Complete(o, TRUE)
     \/ /\ \/ call[o].state = "closed" /\ call[o].sent = call[o].read
           \/ call[o].state = "dead"
        /\ Complete(o, FALSE)
        /\ UNCHANGED call

\* Write and Finish fail when the call is dead by the time they are sent.
CompleteWrite(o) ==
  /\ obj[o].op \in {"write", "finish"}
  /\ IF call[o].state = "dead"
     THEN Complete(o, FALSE) /\ UNCHANGED call
     ELSE /\ Complete(o, TRUE)
          /\ call' = IF obj[o].op = "write"
                     THEN [call EXCEPT ![o].answered = @ + 1] ELSE call

\* PingStream of the client: one message, then it waits for the answer.
Ping(o) ==
  /\ obj[o].kind = "stream"
  /\ call[o].state = "open"
  /\ call[o].sent = call[o].answered
  /\ call[o].sent < MaxPings
  /\ call' = [call EXCEPT ![o].sent = @ + 1]
  /\ UNCHANGED <<obj, queue, worker>>

\* StopStream of the client: WritesDone.
WritesDone(o) ==
  /\ obj[o].kind = "stream"
  /\ call[o].state = "open"
  /\ call[o].sent = call[o].answered
  /\ call' = [call EXCEPT ![o].state = "closed"]
  /\ UNCHANGED <<obj, queue, worker>>

Drop(o) ==
  /\ Drops
  /\ call[o].state \in {"open", "closed"}
  /\ call' = [call EXCEPT ![o].state = "dead"]
  /\ UNCHANGED <<obj, queue, worker>>

-----------------------------------------------------------------------------
\* Run: Callbacks objects of each kind have been constructed, in CREATE.
Init ==
  /\ obj = [o \in Objects |->
              IF o > 2 * Callbacks THEN NoObject
              ELSE [kind |-> IF o % 2 = 1 THEN "unary" ELSE "stream",
                    status |-> "PROCESS", op |-> "request"]]
  /\ call = [o \in Objects |-> NoCall]
  /\ queue = {}
  /\ worker = [w \in Workers |-> Idle]

WorkerStep(w) ==
  \/ TakeEvent(w) \/ Spawn(w) \/ Accept(w) \/ ReadOrWrite(w) \/ CloseStream(w)
  \/ IgnoreFailure(w) \/ Issue(w) \/ Delete(w)

GrpcStep(o) == CompleteRead(o) \/ CompleteWrite(o)

ClientStep(o) == Ping(o) \/ WritesDone(o) \/ Drop(o) \/ OpenCall(o)

Next ==
  \/ \E w \in Workers : WorkerStep(w)
  \/ \E o \in Objects : GrpcStep(o) \/ ClientStep(o)

\* Threads run, gRPC completes what it can; nothing is assumed of the clients.
Fairness ==
  /\ \A w \in Workers : WF_vars(WorkerStep(w))
  /\ \A o \in Objects : WF_vars(GrpcStep(o))

Spec == Init /\ [][Next]_vars /\ Fairness

-----------------------------------------------------------------------------
\* The types of the variables; no object is seen in CREATE by another thread.
TypeOK ==
  /\ \A o \in Objects :
       /\ obj[o].kind \in Kinds \cup {"none"}
       /\ obj[o].status \in Statuses
       /\ obj[o].op \in Ops
       /\ call[o].state \in {"none", "open", "closed", "dead"}
       /\ {call[o].sent, call[o].read, call[o].answered} \subseteq 0 .. MaxPings
  /\ queue \subseteq [tag: Objects, ok: BOOLEAN]
  /\ \A w \in Workers : worker[w].at \in {"idle", "event", "spawn", "issue"}

\* Everything that will touch object o again: gRPC, an event, a worker.
Holders(o) ==
  {<<"op", op>> : op \in {obj[o].op} \ {"none"}} \cup
  {<<"event", e>> : e \in {q \in queue : q.tag = o}} \cup
  {<<"worker", w>> : w \in {v \in Workers :
     /\ worker[v].at # "idle"
     /\ \/ worker[v].o = o
        \/ worker[v].at = "spawn" /\ worker[v].n = o}}

\* Without a lock, the workers never run one object's code at the same time: an
\* object is in one hand at most, and a deleted one in none.
OneHolder ==
  \A o \in Objects : Cardinality(Holders(o)) <= IF Alive(o) THEN 1 ELSE 0

\* Whatever becomes of the calls, the server goes on to wait for Callbacks calls of
\* each kind, apart from those it is just now being told of.
AcceptorsKept ==
  \A k \in Kinds :
    Cardinality({o \in Objects : obj[o].kind = k /\ obj[o].status = "PROCESS"})
      = Callbacks + Cardinality({w \in Workers : worker[w].at = "spawn"
                                                  /\ obj[worker[w].o].kind = k})

\* A client that waits for an answer gets it.
PingAnswered ==
  \A o \in Objects :
    call[o].sent > call[o].answered ~>
      (call[o].sent = call[o].answered \/ call[o].state = "dead")

\* A stream that its client closes is finished and its object deleted.
ClosedFreed ==
  \A o \in Objects :
    call[o].state = "closed" ~> (obj[o].status = "deleted" \/ call[o].state = "dead")

=============================================================================
