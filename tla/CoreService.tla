------------------------------ MODULE CoreService ------------------------------
(***************************************************************************)
(* The core service of the Unix application (Core/Unix/CoreService.cpp):   *)
(* the application sends each operation to a service process over a pipe   *)
(* and waits for the answer on another; the service executes it, or        *)
(* forwards it to a second service that sudo started with privileges.      *)
(* Each process may die at any time.  Then a read of its pipe ends and a   *)
(* write to it throws, unless a child that it forked or a program that it  *)
(* started still holds its ends of the pipes, which nobody closes there.   *)
(***************************************************************************)
EXTENDS Naturals, Sequences, FiniteSets

CONSTANTS
  Threads, Nobody,          \* threads of the application
  App, Service, Elevated,   \* the processes
  MaxRequests, MaxPasswords, MaxDeaths \* bounds: requests, passwords asked for a request, processes killed

\* What the proofs assume: a free mutex and the processes are told apart.
ConstantsOK ==
  /\ Nobody \notin Threads
  /\ App # Service /\ App # Elevated /\ Service # Elevated

VARIABLES
  thread,     \* per thread: pc, number of requests made, the request, its last outcome
  mutex,      \* the static mutex of SendRequest
  known,      \* ElevatedServiceAvailable in the application
  service,    \* of the service: pc, the request, its own ElevatedServiceAvailable
  elevated,   \* of the elevated service: whether it was in step (sync code), the request
  pipe,       \* for each reader and writer: the messages under way
  alive,      \* the processes that run
  held,       \* <<p, q>>: children of p hold its ends of the pipes to and from q
  executed,   \* requests that were executed, in order (history)
  deaths      \* number of processes killed (history)

vars == <<thread, mutex, known, service, elevated, pipe, alive, held, executed, deaths>>

-----------------------------------------------------------------------------

NoRequest == [kind |-> "none", of |-> <<>>, elevate |-> FALSE]
Request(t, n, elevate) == [kind |-> "request", of |-> <<t, n>>, elevate |-> elevate]
Answer(request, outcome) == [kind |-> outcome, of |-> request.of, elevate |-> FALSE]
ExitRequest == [NoRequest EXCEPT !.kind = "exit"]
SyncCode == [NoRequest EXCEPT !.kind = "sync"]

Wires == {<<App, Service>>, <<Service, App>>, <<Service, Elevated>>, <<Elevated, Service>>}
Written(from, to, message) == [pipe EXCEPT ![<<from, to>>] = Append(@, message)]
Consumed(from, to) == [pipe EXCEPT ![<<from, to>>] = Tail(@)]
Arrived(from, to) == pipe[<<from, to>>] # <<>>
Next1(from, to) == Head(pipe[<<from, to>>])

\* A pipe ends when nobody is left who could write, and is broken when nobody could read.
Gone(p, q) == p \notin alive /\ <<p, q>> \notin held
Ended(from, to) == ~Arrived(from, to) /\ Gone(from, to)
CanWrite(from, to) == ~Gone(to, from)

Init ==
  /\ thread = [t \in Threads |-> [pc |-> "idle", count |-> 0, request |-> NoRequest,
                                  passwords |-> 0, outcome |-> NoRequest]]
  /\ mutex = Nobody /\ known = FALSE
  /\ service = [pc |-> "read", request |-> NoRequest, available |-> FALSE]
  /\ elevated = [pc |-> "none", request |-> NoRequest]
  /\ pipe = [w \in Wires |-> <<>>]
  /\ alive = {App, Service} /\ held = {} /\ executed = <<>> /\ deaths = 0

-----------------------------------------------------------------------------
(* The application: SendRequest.                                           *)

\* (Mutant: SendRequest without its mutex.)
EnterUnlocked(t) == mutex' = mutex

Enter(t) == mutex = Nobody /\ mutex' = t

\* The requests made so far.
Made == {r \in Threads \X (1..MaxRequests) : r[2] <= thread[r[1]].count}

\* A request that needs privileges first makes sure of a password, as long as the
\* application does not know of an elevated service.
SendRequest(t) ==
  /\ App \in alive /\ thread[t].pc = "idle" /\ Cardinality(Made) < MaxRequests
  /\ Enter(t)
  /\ \E elevate \in BOOLEAN :
       thread' = [thread EXCEPT ![t] =
         [thread[t] EXCEPT !.count = @ + 1, !.passwords = 0,
                   !.pc = IF elevate /\ ~known THEN "password" ELSE "send",
                   !.request = Request(t, thread[t].count + 1, elevate)]]
  /\ UNCHANGED <<known, service, elevated, pipe, alive, held, executed, deaths>>

Return(t, outcome) ==
  /\ thread' = [thread EXCEPT ![t].pc = "idle", ![t].outcome = outcome]
  /\ mutex' = Nobody

\* The callback returns a password, which may be wrong, or the user gives up.
AskPassword(t) ==
  /\ App \in alive /\ thread[t].pc = "password"
  /\ \/ /\ thread[t].passwords < MaxPasswords
        /\ thread' = [thread EXCEPT ![t].pc = "send", ![t].passwords = @ + 1]
        /\ UNCHANGED mutex
     \/ Return(t, Answer(thread[t].request, "aborted"))
  /\ UNCHANGED <<known, service, elevated, pipe, alive, held, executed, deaths>>

Send(t) ==
  /\ App \in alive /\ thread[t].pc = "send"
  /\ IF CanWrite(App, Service)
     THEN /\ pipe' = Written(App, Service, thread[t].request)
          /\ thread' = [thread EXCEPT ![t].pc = "receive"]
          /\ UNCHANGED mutex
     ELSE Return(t, Answer(thread[t].request, "broken")) /\ UNCHANGED pipe
  /\ UNCHANGED <<known, service, elevated, alive, held, executed, deaths>>

\* (Mutant: after any exception the request is sent again.)
AskAgainAlways(t, answer) == thread[t].passwords > 0 /\ answer.kind # "done"

AskAgain(t, answer) == thread[t].passwords > 0 /\ answer.kind = "notElevated"

\* GetResponse.
Receive(t) ==
  /\ App \in alive /\ thread[t].pc = "receive"
  /\ IF Arrived(Service, App)
     THEN LET answer == Next1(Service, App)
          IN /\ pipe' = Consumed(Service, App)
             /\ IF AskAgain(t, answer)
                THEN thread' = [thread EXCEPT ![t].pc = "password"] /\ UNCHANGED <<mutex, known>>
                ELSE /\ Return(t, answer)
                     /\ known' = (known \/ (thread[t].passwords > 0 /\ answer.kind = "done"))
     ELSE /\ Ended(Service, App)
          /\ Return(t, Answer(thread[t].request, "broken")) /\ UNCHANGED <<pipe, known>>
  /\ UNCHANGED <<service, elevated, alive, held, executed, deaths>>

\* Main: Stop when the user interface has ended, and then the process ends.
Stop ==
  /\ App \in alive /\ \A t \in Threads : thread[t].pc = "idle"
  /\ pipe' = IF CanWrite(App, Service) THEN Written(App, Service, ExitRequest) ELSE pipe
  /\ alive' = alive \ {App}
  /\ UNCHANGED <<thread, mutex, known, service, elevated, held, executed, deaths>>

-----------------------------------------------------------------------------
(* The service: ProcessRequests.                                           *)

ToPc(pc) == service' = [service EXCEPT !.pc = pc]

\* An answer is written; if nobody reads it, the exception leaves ProcessRequests.
Respond(answer, rest) ==
  /\ ToPc("read")
  /\ IF CanWrite(Service, App)
     THEN pipe' = [rest EXCEPT ![<<Service, App>>] = Append(@, answer)] /\ UNCHANGED alive
     ELSE pipe' = rest /\ alive' = alive \ {Service}

\* An exit request is passed on to the elevated service; should that throw, the exception is
\* answered like any other.
ServiceRead ==
  /\ Service \in alive /\ service.pc = "read" /\ Arrived(App, Service)
  /\ LET request == Next1(App, Service)
         rest == Consumed(App, Service)
     IN \/ /\ request.kind = "exit" /\ (service.available => CanWrite(Service, Elevated))
           /\ pipe' = IF service.available
                      THEN [rest EXCEPT ![<<Service, Elevated>>] = Append(@, ExitRequest)] ELSE rest
           /\ alive' = alive \ {Service} /\ UNCHANGED service
        \/ /\ request.kind = "exit" /\ service.available /\ ~CanWrite(Service, Elevated)
           /\ Respond(Answer(request, "failed"), rest)
        \/ /\ request.kind # "exit" /\ pipe' = rest /\ UNCHANGED alive
           /\ service' = [service EXCEPT !.request = request,
                !.pc = IF ~request.elevate THEN "execute"
                       ELSE IF service.available THEN "forward" ELSE "elevate"]
  /\ UNCHANGED <<thread, mutex, known, elevated, held, executed, deaths>>

\* The stream ends in the middle of the loop: an exception leaves ProcessRequests.
ServiceEnds ==
  /\ Service \in alive /\ service.pc = "read" /\ Ended(App, Service)
  /\ alive' = alive \ {Service}
  /\ UNCHANGED <<thread, mutex, known, service, elevated, pipe, held, executed, deaths>>

\* StartElevated: sudo accepts the password, or not, or does not answer in time.
StartElevated ==
  /\ Service \in alive /\ service.pc = "elevate"
  /\ \/ /\ service' = [service EXCEPT !.pc = "forward", !.available = TRUE]
        /\ elevated' = [pc |-> "sync", request |-> NoRequest]
        /\ alive' = alive \cup {Elevated}
        /\ pipe' = [pipe EXCEPT ![<<Service, Elevated>>] = <<SyncCode>>, ![<<Elevated, Service>>] = <<>>]
     \/ Respond(Answer(service.request, "notElevated"), pipe) /\ UNCHANGED elevated
  /\ UNCHANGED <<thread, mutex, known, held, executed, deaths>>

ServiceForward ==
  /\ Service \in alive /\ service.pc = "forward"
  /\ IF CanWrite(Service, Elevated)
     THEN pipe' = Written(Service, Elevated, service.request) /\ ToPc("relay") /\ UNCHANGED alive
     ELSE Respond(Answer(service.request, "failed"), pipe)
  /\ UNCHANGED <<thread, mutex, known, elevated, held, executed, deaths>>

\* The answer of the elevated service, or the exception that its stream has ended.
ServiceRelay ==
  /\ Service \in alive /\ service.pc = "relay"
  /\ \/ Arrived(Elevated, Service)
        /\ Respond(Next1(Elevated, Service), Consumed(Elevated, Service))
     \/ Ended(Elevated, Service)
        /\ Respond(Answer(service.request, "failed"), pipe)
  /\ UNCHANGED <<thread, mutex, known, elevated, held, executed, deaths>>

\* (Mutant: an exception of the operation is not answered.)
OutcomesSilent == {"done", "silent"}

Outcomes == {"done", "failed"}

ServiceExecute ==
  /\ Service \in alive /\ service.pc = "execute"
  /\ \E outcome \in Outcomes :
       IF outcome = "silent" THEN ToPc("read") /\ UNCHANGED <<pipe, alive>>
       ELSE Respond(Answer(service.request, outcome), pipe)
  /\ executed' = Append(executed, service.request.of)
  /\ UNCHANGED <<thread, mutex, known, elevated, held, deaths>>

-----------------------------------------------------------------------------
(* The elevated service: ProcessElevatedRequests, then ProcessRequests.    *)

ElevatedRead ==
  /\ Elevated \in alive /\ elevated.pc \in {"sync", "read"} /\ Arrived(Service, Elevated)
  /\ LET request == Next1(Service, Elevated)
     IN /\ pipe' = Consumed(Service, Elevated)
        /\ IF request.kind = "exit" THEN alive' = alive \ {Elevated} /\ UNCHANGED elevated
           ELSE /\ elevated' = IF request.kind = "sync" THEN [elevated EXCEPT !.pc = "read"]
                               ELSE [pc |-> "execute", request |-> request]
                /\ UNCHANGED alive
  /\ UNCHANGED <<thread, mutex, known, service, held, executed, deaths>>

ElevatedEnds ==
  /\ Elevated \in alive /\ elevated.pc \in {"sync", "read"} /\ Ended(Service, Elevated)
  /\ alive' = alive \ {Elevated}
  /\ UNCHANGED <<thread, mutex, known, service, elevated, pipe, held, executed, deaths>>

ElevatedExecute ==
  /\ Elevated \in alive /\ elevated.pc = "execute"
  /\ \E outcome \in {"done", "failed"} :
       IF CanWrite(Elevated, Service)
       THEN pipe' = Written(Elevated, Service, Answer(elevated.request, outcome)) /\ UNCHANGED alive
       ELSE alive' = alive \ {Elevated} /\ UNCHANGED pipe
  /\ elevated' = [elevated EXCEPT !.pc = "read"]
  /\ executed' = Append(executed, elevated.request.of)
  /\ UNCHANGED <<thread, mutex, known, service, held, deaths>>

-----------------------------------------------------------------------------

Kill(p) ==
  /\ p \in alive /\ deaths < MaxDeaths
  /\ alive' = alive \ {p} /\ deaths' = deaths + 1
  /\ UNCHANGED <<thread, mutex, known, service, elevated, pipe, held, executed>>

\* Process::Execute forks; what runs in the child may stay, like the FUSE service of a volume.
\* The elevated service's ends are its standard streams, which every child replaces.
Fork(p) ==
  /\ p \in alive \ {Elevated} /\ (p = Service => service.pc \in {"execute", "elevate"})
  /\ held' = held \cup (IF p = App THEN {<<App, Service>>}
                        ELSE IF service.available THEN {<<Service, App>>, <<Service, Elevated>>}
                        ELSE {<<Service, App>>})
  /\ UNCHANGED <<thread, mutex, known, service, elevated, pipe, alive, executed, deaths>>

\* Children end; one that holds the ends of the elevated service's pipes holds the others, too.
ChildrenEnd ==
  /\ \E ends \in SUBSET held \ {{}} :
       held' = held \ ends /\ (<<Service, Elevated>> \in held' => <<Service, App>> \in held')
  /\ UNCHANGED <<thread, mutex, known, service, elevated, pipe, alive, executed, deaths>>

MoveThread(t) == AskPassword(t) \/ Send(t) \/ Receive(t)
MoveService == ServiceRead \/ ServiceEnds \/ StartElevated \/ ServiceForward \/ ServiceRelay \/ ServiceExecute
MoveElevated == ElevatedRead \/ ElevatedEnds \/ ElevatedExecute

Next ==
  \/ \E t \in Threads : SendRequest(t) \/ MoveThread(t)
  \/ Stop \/ MoveService \/ MoveElevated
  \/ \E p \in {App, Service, Elevated} : Kill(p) \/ Fork(p)
  \/ ChildrenEnd

Spec == Init /\ [][Next]_vars

\* The operating system runs every process; the user answers a question for a password.
Fairness ==
  /\ \A t \in Threads : WF_vars(MoveThread(t))
  /\ WF_vars(MoveService) /\ WF_vars(MoveElevated)

FairSpec == Spec /\ Fairness

-----------------------------------------------------------------------------
(* Properties.                                                             *)

\* Type invariant.
TypeOK ==
  /\ \A t \in Threads : thread[t].pc \in {"idle", "password", "send", "receive"}
  /\ mutex \in Threads \cup {Nobody} /\ known \in BOOLEAN
  /\ service.pc \in {"read", "execute", "elevate", "forward", "relay"}
  /\ elevated.pc \in {"none", "sync", "read", "execute"}
  /\ DOMAIN pipe = Wires /\ alive \subseteq {App, Service, Elevated}
  /\ held \subseteq Wires \ {<<Elevated, Service>>}

\* SendRequest returns the answer to the request it sent: the two pairs of streams stay
\* in step although passwords are refused, operations throw and the elevated service dies
\* between a request and its answer.
OwnAnswer ==
  \A t \in Threads : thread[t].pc = "idle" /\ thread[t].count > 0 =>
    thread[t].outcome.of = <<t, thread[t].count>>

\* No operation is executed twice, although SendRequest sends a request again when it was
\* not elevated; and an operation is reported as done when it was executed.
ExecutedOnce ==
  /\ \A i, j \in DOMAIN executed : executed[i] = executed[j] => i = j
  /\ \A t \in Threads : thread[t].outcome.kind = "done" =>
       \E i \in DOMAIN executed : executed[i] = thread[t].outcome.of

\* The service is dead, and its children keep the application's streams from ending.
Stuck == Service \notin alive /\ <<Service, App>> \in held

\* Every request is answered, or throws, while the application runs: nobody waits for a
\* process that is dead, except for a service whose children hold its ends of the pipes, and
\* for that one only as long as they do.
RequestsEnd ==
  \A t \in Threads :
    (thread[t].pc # "idle" /\ ~Stuck) ~> (thread[t].pc = "idle" \/ App \notin alive \/ Stuck)

ExitSent(from, to) == \E i \in DOMAIN pipe[<<from, to>>] : pipe[<<from, to>>][i].kind = "exit"

\* No service outlives the process that started it, which may exit or be killed, except
\* while children of that process hold its ends of the pipes.  An exit request ends both even
\* then, unless the service finds the elevated one dead.
NoOrphans ==
  /\ Gone(App, Service) ~> (Service \notin alive)
  /\ Gone(Service, Elevated) ~> (Elevated \notin alive)
  /\ ExitSent(App, Service) ~> (Service \notin alive \/ (service.available /\ Elevated \notin alive))
  /\ ExitSent(Service, Elevated) ~> (Elevated \notin alive)

=============================================================================
