------------------------------ MODULE AgentRuns ------------------------------
(***************************************************************************)
(* The agent runs of one chat: requests that save a message and start a    *)
(* run (handlers/agent.ts), the registry of running agents and the end of  *)
(* a run (services/agent.ts), the routes that stop and cancel it           *)
(* (trpc/chat.routes.ts), and the versions of the messages                 *)
(* (queries/chat.queries.ts).                                              *)
(*                                                                         *)
(* One process serves the chat.  Request r saves the user message of turn  *)
(* r, and its run the assistant message.  Whatever is awaited is a step of *)
(* its own; a transaction is one step, but for deleteLastEmptyTurn, which  *)
(* reads, counts and deletes in statements that see what was committed     *)
(* meanwhile, as on Postgres.  Every message and every superseding has a   *)
(* time of its own.                                                        *)
(***************************************************************************)
EXTENDS Integers, FiniteSets, FiniteSetsExt

CONSTANTS
    Clients,      \* the kinds of client: "patient" and "hasty"
    Bound,        \* kind -> bounds on the requests, cancels, switches and faults
    Null

ASSUME AgentAssumption ==
    /\ Clients \subseteq {"patient", "hasty"}
    /\ Bound \in [Clients -> [requests : Nat, cancels : Nat, switches : Nat, faults : Nat]]

MaxRequests == Max({Bound[c].requests : c \in Clients})
MaxCancels  == Max({Bound[c].cancels : c \in Clients})

Requests == 1..MaxRequests
Cancels  == 1..MaxCancels
Messages == {"user", "assistant"} \X Requests

VARIABLES
    client,      \* "patient": one request, cancel or switch at a time
    chat,        \* "none", "exists", "deleted" by its owner, "dropped" by a cancel
    row,         \* message -> its chat_message row, or Null
    clock,       \* messages saved so far
    batches,     \* supersedings so far
    registry,    \* agentService.get(chat.id)
    phase,       \* request -> how far it is
    edits,       \* request -> the turn whose message it edits, or Null
    group,       \* request -> the version group of its message
    aborted,     \* requests whose run was told to stop and has not left
    cancel,      \* each call of the cancel route
    switches,
    interrupted, \* has an edit failed between superseding and saving? (history)
    faults

thread == <<chat, row, clock, batches>>
turn   == <<edits, group>>
bounds == <<client, switches, interrupted, faults>>
vars   == <<client, chat, row, clock, batches, registry, phase, edits, group,
            aborted, cancel, switches, interrupted, faults>>

Phases == {"idle", "supersede", "insert", "load", "dispose", "create",
           "run", "finish", "leave", "over"}
Row == [at : Nat, group : Requests \union {Null}, superseded : Nat, text : BOOLEAN]

ASSUME NullAssumption == Null \notin Nat \union Row

TypeOK ==
    /\ client \in Clients
    /\ chat \in {"none", "exists", "deleted", "dropped"}
    /\ row \in [Messages -> Row \union {Null}]
    /\ clock \in Nat /\ batches \in Nat
    /\ registry \in Requests \union {Null}
    /\ phase \in [Requests -> Phases]
    /\ edits \in [Requests -> Requests \union {Null}]
    /\ group \in [Requests -> Requests]
    /\ aborted \subseteq Requests
    /\ cancel \in [Cancels -> [phase : {"idle", "wait", "read", "count", "drop", "over"},
                               run : Requests \union {Null}, doomed : SUBSET Messages]]
    /\ switches \in Nat
    /\ interrupted \in BOOLEAN
    /\ faults \in Nat

Init ==
    /\ client \in Clients
    /\ chat = "none"
    /\ row = [m \in Messages |-> Null]
    /\ clock = 0 /\ batches = 0
    /\ registry = Null
    /\ phase = [r \in Requests |-> "idle"]
    /\ edits = [r \in Requests |-> Null]
    /\ group = [r \in Requests |-> r]
    /\ aborted = {}
    /\ cancel = [k \in Cancels |-> [phase |-> "idle", run |-> Null, doomed |-> {}]]
    /\ switches = 0
    /\ interrupted = FALSE
    /\ faults = 0

Go(r, to) == phase' = [phase EXCEPT ![r] = to]
Fault == faults < Bound[client].faults /\ faults' = faults + 1

\* What the requests of S remembered is of no use any more.
Forget(S) ==
    /\ edits' = [r \in Requests |-> IF r \in S THEN Null ELSE edits[r]]
    /\ group' = [r \in Requests |-> IF r \in S THEN r ELSE group[r]]

Quiet ==
    /\ \A r \in Requests : phase[r] \in {"idle", "over"}
    /\ \A k \in Cancels : cancel[k].phase \in {"idle", "over"}

MayStart(r) ==
    /\ phase[r] = "idle"
    /\ \A q \in 1..(r - 1) : phase[q] # "idle"
    /\ r <= Bound[client].requests
    /\ client = "patient" => Quiet

-----------------------------------------------------------------------------
(* Rows *)

Kept   == {m \in Messages : row[m] # Null}
Active == {m \in Kept : row[m].superseded = 0}
From(at) == {m \in Active : row[m].at >= at}
Version(g) == {m \in Kept : row[m].group = g}

Save(m, g, content) ==
    /\ row' = [row EXCEPT ![m] = [at |-> clock + 1, group |-> g, superseded |-> 0, text |-> content]]
    /\ clock' = clock + 1

\* Set or clear supersededAt of the messages in hide and in show.
Mark(hide, show) ==
    row' = [m \in Messages |->
              IF m \in hide THEN [row[m] EXCEPT !.superseded = batches + 1]
              ELSE IF m \in show THEN [row[m] EXCEPT !.superseded = 0]
              ELSE row[m]]

-----------------------------------------------------------------------------
(* A request: handleAgentRoute, persistUserMessage, insertOrSupersedeMessage *)

CreateChat(r) ==
    /\ MayStart(r)
    /\ chat = "none"
    /\ chat' = "exists"
    /\ Save(<<"user", r>>, r, TRUE)
    /\ Go(r, "load")
    /\ UNCHANGED <<batches, registry, turn, aborted, cancel, bounds>>

Send(r) ==
    /\ MayStart(r)
    /\ chat = "exists"
    /\ Go(r, "insert")
    /\ UNCHANGED <<thread, registry, turn, aborted, cancel, bounds>>

\* resolveVersionGroupIdForEdit
VersionGroup(q) == row[<<"user", q>>].group

Edit(r, q) ==
    /\ MayStart(r)
    /\ <<"user", q>> \in Active
    /\ edits' = [edits EXCEPT ![r] = q]
    /\ group' = [group EXCEPT ![r] = VersionGroup(q)]
    /\ Go(r, "supersede")
    /\ UNCHANGED <<thread, registry, aborted, cancel, bounds>>

\* supersedeMessagesFrom
SupersedeMessagesFrom(r) ==
    LET edited == <<"user", edits[r]>> IN
    /\ phase[r] = "supersede"
    /\ IF edited \in Kept
       THEN /\ Mark(From(row[edited].at), {})
            /\ batches' = batches + 1
       ELSE UNCHANGED <<row, batches>>
    /\ Go(r, "insert")
    /\ UNCHANGED <<chat, clock, registry, turn, aborted, cancel, bounds>>

\* upsertMessage: without its chat the row is refused.
Insert(r) ==
    /\ phase[r] = "insert"
    /\ IF chat = "exists"
       THEN Save(<<"user", r>>, group[r], TRUE) /\ Go(r, "load")
       ELSE UNCHANGED <<row, clock>> /\ Go(r, "over")
    /\ Forget({r})
    /\ UNCHANGED <<chat, batches, registry, aborted, cancel, bounds>>

\* getChat, and the checks of create that come before it touches the registry.
Load(r) ==
    /\ phase[r] = "load"
    /\ Go(r, IF chat = "exists" THEN "dispose" ELSE "over")
    /\ UNCHANGED <<thread, registry, turn, aborted, cancel, bounds>>

-----------------------------------------------------------------------------
(* The registry: AgentService *)

\* _disposeAgent
DisposeAgent(r) ==
    /\ phase[r] = "dispose"
    /\ aborted' = aborted \union ({registry} \ {Null})
    /\ registry' = Null
    /\ Go(r, "create")
    /\ UNCHANGED <<thread, turn, cancel, bounds>>

\* create has resolved the model, the tools and the context: the run starts.
Register(r) ==
    /\ phase[r] = "create"
    /\ registry' = r
    /\ Go(r, "run")
    /\ UNCHANGED <<thread, turn, aborted, cancel, bounds>>

\* chat.stop, the stop buttons of the messaging channels, and /new.
Stop ==
    /\ registry # Null
    /\ aborted' = aborted \union {registry}
    /\ UNCHANGED <<thread, registry, phase, turn, cancel, bounds>>

\* Variant: the entry goes when the stream ends, before the answer is saved.
EndRunUnregistered(r) ==
    /\ phase[r] = "run"
    /\ registry' = Null
    /\ Go(r, "finish")
    /\ UNCHANGED <<thread, turn, aborted, cancel, bounds>>

\* The stream ends: the answer is complete, failed or was aborted.
EndRun(r) ==
    /\ phase[r] = "run"
    /\ Go(r, "finish")
    /\ UNCHANGED <<thread, registry, turn, aborted, cancel, bounds>>

\* Variant: an answer that cannot be saved leaves the run unfinished.
FinishUnlessRefused(r) ==
    /\ phase[r] = "finish"
    /\ chat = "exists"
    /\ \E content \in BOOLEAN : Save(<<"assistant", r>>, Null, content)
    /\ Go(r, "leave")
    /\ UNCHANGED <<chat, batches, registry, turn, aborted, cancel, bounds>>

\* onFinish saves the answer, which may have no content yet.
Finish(r) ==
    /\ phase[r] = "finish"
    /\ IF chat = "exists"
       THEN \E content \in BOOLEAN : Save(<<"assistant", r>>, Null, content)
       ELSE UNCHANGED <<row, clock>>
    /\ Go(r, "leave")
    /\ UNCHANGED <<chat, batches, registry, turn, aborted, cancel, bounds>>

\* _finish: the entry of the chat goes, whichever run it belongs to.
Leave(r) ==
    /\ phase[r] = "leave"
    /\ registry' = Null
    /\ aborted' = aborted \ {r}
    /\ Go(r, "over")
    /\ UNCHANGED <<thread, turn, cancel, bounds>>

\* Any awaited call fails.  The run itself cannot: its failures end the stream.
RequestFails(r) ==
    /\ Fault
    /\ phase[r] \in {"supersede", "insert", "load", "dispose", "create", "finish"}
    /\ Go(r, IF phase[r] = "finish" THEN "leave" ELSE "over")
    /\ interrupted' = (interrupted \/ (phase[r] = "insert" /\ edits[r] # Null))
    /\ IF phase[r] = "finish" THEN UNCHANGED turn ELSE Forget({r})
    /\ UNCHANGED <<thread, registry, aborted, cancel, client, switches>>

-----------------------------------------------------------------------------
(* The cancel route, and deleteLastEmptyTurn *)

MayCancel(k) ==
    /\ cancel[k].phase = "idle"
    /\ k <= Bound[client].cancels
    /\ chat = "exists"
    /\ client = "patient" =>
          /\ registry # Null
          /\ \A j \in Cancels : cancel[j].phase \in {"idle", "over"}

CancelTo(k, to) == cancel' = [cancel EXCEPT ![k].phase = to, ![k].run = Null]
Answered == [phase |-> "over", run |-> Null, doomed |-> {}]

\* A run that is registered is stopped and waited for.
Cancel(k) ==
    /\ MayCancel(k)
    /\ aborted' = aborted \union ({registry} \ {Null})
    /\ cancel' = [cancel EXCEPT ![k].phase = IF registry = Null THEN "read" ELSE "wait",
                                ![k].run = registry]
    /\ UNCHANGED <<thread, registry, phase, turn, bounds>>

\* The run has finished, or ten seconds are over: a patient client is one whose
\* runs end in time.
Waited(k) ==
    /\ cancel[k].phase = "wait"
    /\ phase[cancel[k].run] = "over" \/ client = "hasty"
    /\ CancelTo(k, "read")
    /\ UNCHANGED <<thread, registry, phase, turn, aborted, bounds>>

Latest(S) == CHOOSE m \in S : \A n \in S : row[n].at <= row[m].at

Question == Latest({m \in Active : m[1] = "user"})

\* Variant: the last question goes whatever was answered.
KeepsNoTurn ==
    \/ {m \in Active : m[1] = "user"} = {}
    \/ Cardinality(Version(row[Question].group)) > 1

\* Variant: a message with other versions goes too.
KeepsTurnWithContent ==
    \/ {m \in Active : m[1] = "user"} = {}
    \/ Latest(Active)[1] = "assistant" /\ row[Latest(Active)].text

\* deleteLastEmptyTurn leaves alone what has content or other versions.
KeepsTurn ==
    \/ {m \in Active : m[1] = "user"} = {}
    \/ Latest(Active)[1] = "assistant" /\ row[Latest(Active)].text
    \/ Cardinality(Version(row[Question].group)) > 1

Doomed == {Question} \union {m \in {Latest(Active)} : m[1] = "assistant"}

ReadTurn(k) ==
    /\ cancel[k].phase = "read"
    /\ cancel' = [cancel EXCEPT ![k] =
                      IF KeepsTurn THEN Answered ELSE [@ EXCEPT !.phase = "count", !.doomed = Doomed]]
    /\ UNCHANGED <<thread, registry, phase, turn, aborted, bounds>>

\* The messages are deleted, and the chat with them unless others remain.
DeleteTurn(k) ==
    /\ cancel[k].phase = "count"
    /\ IF Active \subseteq cancel[k].doomed
       THEN CancelTo(k, "drop") /\ UNCHANGED row
       ELSE /\ cancel' = [cancel EXCEPT ![k] = Answered]
            /\ row' = [m \in Messages |-> IF m \in cancel[k].doomed THEN Null ELSE row[m]]
    /\ UNCHANGED <<chat, clock, batches, registry, phase, turn, aborted, bounds>>

\* Deleting the chat takes every row of it along.
DropChat(k) ==
    /\ cancel[k].phase = "drop"
    /\ chat' = IF chat = "exists" THEN "dropped" ELSE chat
    /\ row' = [m \in Messages |-> Null]
    /\ cancel' = [cancel EXCEPT ![k] = Answered]
    /\ UNCHANGED <<clock, batches, registry, phase, turn, aborted, bounds>>

-----------------------------------------------------------------------------
(* Versions, the end of a chat, crashes *)

\* The versions the client is offered are those of a message it shows.
Offered(m) ==
    /\ m \in Kept \ Active
    /\ row[m].group # Null
    /\ Version(row[m].group) \intersect Active # {}

Batch(m) == {n \in Kept : row[n].superseded = row[m].superseded}

Restored(m) == Batch(m)

\* Variant: what follows is superseded from the target on.
ForkPointOfTarget(m) == row[m].at

ForkPoint(m) == Min({row[n].at : n \in Version(row[m].group)})

SwitchMessageVersion(m) ==
    /\ switches < Bound[client].switches
    /\ client = "patient" => Quiet
    /\ Offered(m)
    /\ Mark(From(ForkPoint(m)), Restored(m))
    /\ batches' = batches + 1
    /\ switches' = switches + 1
    /\ UNCHANGED <<chat, clock, registry, phase, turn, aborted, cancel,
                   client, interrupted, faults>>

\* deleteChat
DeleteChat ==
    /\ chat = "exists"
    /\ chat' = "deleted"
    /\ row' = [m \in Messages |-> Null]
    /\ UNCHANGED <<clock, batches, registry, phase, turn, aborted, cancel, bounds>>

\* The process dies, and with it what was under way.
Crash ==
    /\ Fault
    /\ ~Quiet
    /\ registry' = Null
    /\ phase' = [r \in Requests |-> IF phase[r] = "idle" THEN "idle" ELSE "over"]
    /\ cancel' = [k \in Cancels |-> IF cancel[k].phase = "idle" THEN cancel[k]
                                    ELSE Answered]
    /\ interrupted' = (interrupted \/ \E r \in Requests : phase[r] = "insert" /\ edits[r] # Null)
    /\ Forget(Requests)
    /\ aborted' = {}
    /\ UNCHANGED <<thread, client, switches>>

-----------------------------------------------------------------------------
Asking(r) ==
    \/ CreateChat(r) \/ Send(r) \/ \E q \in Requests : Edit(r, q)
    \/ SupersedeMessagesFrom(r) \/ Insert(r) \/ Load(r)
    \/ DisposeAgent(r) \/ Register(r) \/ RequestFails(r)

Running(r) == EndRun(r) \/ Finish(r) \/ Leave(r)

Cancelling(k) == Waited(k) \/ ReadTurn(k) \/ DeleteTurn(k) \/ DropChat(k)

Next ==
    \/ \E r \in Requests : Asking(r) \/ Running(r)
    \/ \E k \in Cancels : Cancel(k) \/ Cancelling(k)
    \/ \E m \in Messages : SwitchMessageVersion(m)
    \/ Stop \/ DeleteChat \/ Crash

Spec == Init /\ [][Next]_vars

\* Statements return, and a run that was told to stop does; no other need end.
FairSpec ==
    /\ Spec
    /\ \A r \in Requests : /\ WF_vars(r \in aborted /\ EndRun(r))
                           /\ WF_vars(Finish(r) \/ Leave(r))
    /\ \A k \in Cancels : WF_vars(Cancelling(k))

-----------------------------------------------------------------------------
(* Properties *)

Working(r) == phase[r] \in {"run", "finish"}

\* A chat has an agent in the registry only while a run of it is alive, however
\* requests, stops, cancels and failures overlap: a story is not locked for good.
EntryIsAlive == registry # Null => phase[registry] \in {"run", "finish", "leave"}

\* As long as requests do not overlap, a chat without an agent in the registry has
\* no run at work, not even one that has still to save what it answered: what
\* editCustomStoryBlock, saveCustomStoryFiles and restoreCustomVersion rely on when
\* they let a user write to its stories.
StoriesGuardedInTurn ==
    client = "patient" /\ registry = Null => \A r \in Requests : ~Working(r)

\* The registry tells who may write: an entry means a run alive, and in turn no
\* entry means none at work.
RegistryTells == EntryIsAlive /\ StoriesGuardedInTurn

\* An answer is shown exactly where its question is: editing, switching,
\* cancelling and finishing move and remove whole turns.
TurnsWhole ==
    client = "patient" =>
        \A r \in Requests :
            <<"assistant", r>> \in Kept =>
                /\ <<"user", r>> \in Kept
                /\ row[<<"user", r>>].superseded = row[<<"assistant", r>>].superseded

\* Of the versions of a message at most one is part of the conversation.
OneVersion ==
    client = "patient" =>
        \A g \in Requests : Cardinality(Version(g) \intersect Active) <= 1

\* No message is lost to the user: one that is superseded comes back with a
\* version that the client can switch to, now or after other switches, unless an
\* edit is, or was left, between superseding messages and saving the new one.
NothingStranded ==
    client = "patient" /\ ~interrupted /\ (\A r \in Requests : phase[r] # "insert") =>
        \A m \in Kept \ Active : \E n \in Batch(m) :
            n[1] = "user" /\ Cardinality(Version(row[n].group)) > 1

\* The thread is whole: its rows are well typed, an answer stands and falls with
\* its question, no message appears in two of its versions, and none is lost.
ThreadWhole == TypeOK /\ TurnsWhole /\ OneVersion /\ NothingStranded

\* A cancel removes a turn that was not answered, and nothing else: no answer
\* with content, and no other version of the conversation.
CancelTakesEmptyTurn ==
    [][client = "patient" /\ ~interrupted =>
          \A m \in Kept : (row'[m] = Null /\ chat' # "deleted") =>
              /\ m \in Active
              /\ m[1] = "assistant" => ~row[m].text]_vars

\* A stopped run does not stay in the registry: the stories of its chat can be
\* edited again.
StoppedRunsLeave == registry \in aborted ~> registry \notin aborted

\* Every cancel is answered, whatever becomes of the run it waits for.
CancelsEnd ==
    LET Waiting == {k \in Cancels : cancel[k].phase \notin {"idle", "over"}} IN
    Waiting # {} ~> Waiting = {}

\* Stopping and cancelling take effect, whatever else happens to the run.
StopsTakeEffect == StoppedRunsLeave /\ CancelsEnd

-----------------------------------------------------------------------------
(* What the repository says, and the code does not keep *)

\* However requests overlap, a chat without an agent in the registry has no run at
\* work, or only one that was told to stop.
StoriesGuarded == registry = Null => \A r \in Requests : Working(r) => r \in aborted
=============================================================================
