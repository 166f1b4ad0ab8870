---------------------------- MODULE AgentRuns_proofs ----------------------------
(***************************************************************************)
(* Who runs, and what the thread of a chat keeps, for any number of        *)
(* requests, cancels, switches and faults.                                 *)
(*                                                                         *)
(* Three layers, each over all the actions: TypeInv; Control, which says   *)
(* where the requests and cancels are; Records and ThreadInv, which say    *)
(* what the rows are.  The rows change in four ways only (Saved, Marked    *)
(* and Deleted, or not at all), so that most of the work is about these    *)
(* changes and not about the actions.                                      *)
(***************************************************************************)
EXTENDS AgentRuns, FiniteSetTheorems, WellFoundedInduction, TLAPS

(***************************************************************************)
(* Requests, messages and extrema                                          *)
(***************************************************************************)

\* The messages of a request.
U(r) == <<"user", r>>
A(r) == <<"assistant", r>>

LEMMA Naming ==
    /\ \A r \in Requests : /\ U(r) \in Messages /\ U(r)[1] = "user" /\ U(r)[2] = r
                           /\ A(r) \in Messages /\ A(r)[1] = "assistant" /\ A(r)[2] = r
    /\ \A m \in Messages : /\ m[2] \in Requests
                           /\ m[1] = "user" => m = U(m[2])
                           /\ m[1] # "user" => m = A(m[2]) /\ m[1] = "assistant"
    /\ \A q, r \in Requests : (U(q) = U(r) => q = r) /\ (A(q) = A(r) => q = r) /\ U(q) # A(r)
BY DEF Messages, U, A

LEMMA RequestNumbers ==
    ASSUME Clients # {}
    PROVE  MaxRequests \in Nat /\ Requests \subseteq Nat /\ IsFiniteSet(Requests) /\ Null \notin Requests
<1> DEFINE S == {Bound[c].requests : c \in Clients}
<1>1. \A c \in Clients : Bound[c].requests \in Nat
  BY AgentAssumption
<1>2. \E x \in S : \A y \in S : x >= y
  <2>1. PICK c \in Clients : TRUE
    OBVIOUS
  <2>2. CASE \A d \in Clients : Bound[c].requests >= Bound[d].requests
    BY <2>2
  <2>3. ASSUME NEW d \in Clients, ~(Bound[c].requests >= Bound[d].requests)
        PROVE  \E x \in S : \A y \in S : x >= y
    <3>1. \A e \in Clients : e = c \/ e = d
      BY <2>3, AgentAssumption
    <3>2. \A e \in Clients : Bound[d].requests >= Bound[e].requests
      BY <1>1, <2>3, <3>1
    <3> QED
      BY <3>2
  <2> QED
    BY <2>2, <2>3
<1>3. Max(S) \in S
  BY <1>2 DEF Max
<1>4. MaxRequests = Max(S)
  BY DEF MaxRequests
<1>5. MaxRequests \in Nat
  BY <1>1, <1>3, <1>4
<1> HIDE DEF S
<1>6. PICK n \in Nat : n = MaxRequests
  BY <1>5
<1>7. Requests = 1..n
  BY <1>6 DEF Requests
<1>8. IsFiniteSet(Requests)
  BY <1>7, FS_Interval
<1>9. Requests \subseteq Nat
  BY <1>7
<1> QED
  BY <1>5, <1>8, <1>9, NullAssumption

LEMMA MessagesFinite == ASSUME Clients # {} PROVE IsFiniteSet(Messages)
<1>1. IsFiniteSet({"user", "assistant"})
  <2>1. IsFiniteSet({"user"})
    BY FS_Singleton
  <2>2. IsFiniteSet({"user"} \union {"assistant"})
    BY <2>1, FS_AddElement
  <2> QED
    BY <2>2, {"user"} \union {"assistant"} = {"user", "assistant"}
<1> QED
  BY <1>1, RequestNumbers, FS_Product DEF Messages

\* Of a finite set with numbers there is a member with a largest one: a smallest
\* subset without would have a smaller one.
LEMMA LargestExists ==
    ASSUME NEW S, IsFiniteSet(S), S # {}, NEW f, \A x \in S : f[x] \in Nat
    PROVE  \E x \in S : \A y \in S : f[y] <= f[x]
<1> DEFINE Bounded(T) == \E x \in T : \A y \in T : f[y] <= f[x]
           F == {T \in SUBSET S : T # {} /\ ~Bounded(T)}
<1> SUFFICES ASSUME F # {} PROVE FALSE
  OBVIOUS
<1>1. PICK T \in F : \A V \in F : ~(<<V, T>> \in StrictSubsetOrdering(S))
  <2>1. F \subseteq FiniteSubsetsOf(S)
    BY FS_Subset DEF FiniteSubsetsOf
  <2> HIDE DEF F
  <2> QED
    BY <2>1, FS_StrictSubsetOrderingWellFounded, WFMin, Zenon
<1>2. \A x \in T : f[x] \in Nat
  OBVIOUS
<1>3. PICK t \in T : TRUE
  OBVIOUS
<1>4. T \ {t} \notin F
  BY <1>1, <1>3 DEF StrictSubsetOrdering, OpToRel
<1>5. CASE T \ {t} = {}
  <2>1. \A x \in T : f[x] <= f[t]
    BY <1>2, <1>3, <1>5
  <2> QED
    BY <1>3, <2>1
<1>6. CASE Bounded(T \ {t})
  <2>1. PICK x \in T \ {t} : \A y \in T \ {t} : f[y] <= f[x]
    BY <1>6
  <2>2. \/ \A y \in T : f[y] <= f[x]
        \/ \A y \in T : f[y] <= f[t]
    BY <1>2, <1>3, <2>1
  <2> QED
    BY <1>3, <2>1, <2>2
<1> QED
  BY <1>4, <1>5, <1>6

\* Min is the least of a set of numbers.
LEMMA MinIsLeast ==
    ASSUME NEW S \in SUBSET Nat, S # {}
    PROVE  Min(S) \in S /\ \A x \in S : Min(S) <= x
<1>1. \E x \in S : \A y \in S : x <= y
  <2>1. PICK x \in S : \A y \in S : ~(<<y, x>> \in OpToRel(<, Nat))
    BY NatLessThanWellFounded, WFMin, Zenon
  <2>2. \A y \in S : ~(y < x)
    BY <2>1 DEF OpToRel
  <2> QED
    BY <2>2
<1> QED
  BY <1>1 DEF Min

\* What the cardinalities of the model say.
LEMMA Counts ==
    ASSUME NEW S, IsFiniteSet(S)
    PROVE  /\ Cardinality(S) > 1 <=> \E x, y \in S : x # y
           /\ Cardinality(S) <= 1 <=> \A x, y \in S : x = y
<1>1. Cardinality(S) \in Nat
  BY FS_CardinalityType
<1>2. CASE S = {}
  BY <1>2, FS_EmptySet
<1>3. ASSUME NEW x \in S, S = {x} PROVE Cardinality(S) = 1
  BY <1>3, FS_Singleton
<1>4. ASSUME NEW x \in S, NEW y \in S, x # y PROVE Cardinality(S) > 1
  <2>1. Cardinality(S) # 0
    BY FS_EmptySet
  <2>2. Cardinality(S) # 1
    BY <1>4, FS_Singleton
  <2> QED
    BY <1>1, <2>1, <2>2
<1> QED
  <2>1. CASE \E x, y \in S : x # y
    BY <1>1, <1>4, <2>1
  <2>2. CASE S # {} /\ \A x, y \in S : x = y
    <3>1. PICK x \in S : S = {x}
      BY <2>2
    <3> QED
      BY <1>3, <2>2, <3>1
  <2> QED
    BY <1>2, <2>1, <2>2

(***************************************************************************)
(* How the rows of a chat change                                           *)
(***************************************************************************)

Rows == row \in [Messages -> Row \union {Null}]

\* A message is saved, as the latest one.
Saved(m, g) ==
    /\ Rows'
    /\ row'[m] # Null /\ row'[m].at = clock + 1 /\ row'[m].group = g /\ row'[m].superseded = 0
    /\ \A n \in Messages \ {m} : row'[n] = row[n]

\* Messages are superseded or shown again.
Marked(hide, show) ==
    /\ Rows'
    /\ \A n \in Messages : row'[n] = Null <=> row[n] = Null
    /\ \A n \in Kept :
          /\ row'[n].at = row[n].at /\ row'[n].group = row[n].group /\ row'[n].text = row[n].text
          /\ n \in hide => row'[n].superseded = batches + 1
          /\ n \in show \ hide => row'[n].superseded = 0
          /\ n \notin show \union hide => row'[n].superseded = row[n].superseded

\* Messages are deleted.
Deleted(S) ==
    /\ Rows'
    /\ \A n \in Messages : row'[n] = IF n \in S THEN Null ELSE row[n]

LEMMA RowFields ==
    ASSUME Rows, NEW m \in Kept
    PROVE  /\ m \in Messages /\ row[m] \in Row /\ row[m] # Null
           /\ row[m].at \in Nat /\ row[m].superseded \in Nat /\ row[m].text \in BOOLEAN
           /\ row[m].group \in Requests \union {Null}
BY DEF Rows, Kept, Row

LEMMA Saves ==
    ASSUME TypeOK, NEW m \in Messages, NEW g \in Requests \union {Null}, NEW text \in BOOLEAN,
           Save(m, g, text)
    PROVE  Saved(m, g) /\ clock' = clock + 1
<1> DEFINE new == [at |-> clock + 1, group |-> g, superseded |-> 0, text |-> text]
<1>1. new \in Row
  BY DEF TypeOK, Row
<1>2. new # Null
  BY <1>1, NullAssumption
<1>3. new.at = clock + 1 /\ new.group = g /\ new.superseded = 0
  OBVIOUS
<1>4. row' = [row EXCEPT ![m] = new] /\ clock' = clock + 1
  BY DEF Save
<1> HIDE DEF new
<1> QED
  BY <1>1, <1>2, <1>3, <1>4 DEF TypeOK, Saved, Rows

LEMMA Marks ==
    ASSUME TypeOK, NEW hide \in SUBSET Kept, NEW show \in SUBSET Kept, Mark(hide, show)
    PROVE  Marked(hide, show)
<1>1. ASSUME NEW n \in Kept
      PROVE  /\ row'[n] \in Row
             /\ row'[n].at = row[n].at /\ row'[n].group = row[n].group /\ row'[n].text = row[n].text
             /\ n \in hide => row'[n].superseded = batches + 1
             /\ n \in show \ hide => row'[n].superseded = 0
             /\ n \notin show \union hide => row'[n].superseded = row[n].superseded
  <2>1. n \in Messages /\ row[n] \in Row /\ batches \in Nat
    BY DEF TypeOK, Kept
  <2>2. row'[n] = IF n \in hide THEN [row[n] EXCEPT !.superseded = batches + 1]
                  ELSE IF n \in show THEN [row[n] EXCEPT !.superseded = 0]
                  ELSE row[n]
    BY <2>1 DEF Mark
  <2>3. CASE n \in hide
    BY <2>1, <2>2, <2>3 DEF Row
  <2>4. CASE n \in show \ hide
    BY <2>1, <2>2, <2>4 DEF Row
  <2>5. CASE n \notin show \union hide
    BY <2>1, <2>2, <2>5
  <2> QED
    BY <2>3, <2>4, <2>5
<1>2. ASSUME NEW n \in Messages, n \notin Kept PROVE row'[n] = Null /\ row[n] = Null
  BY <1>2 DEF Mark, Kept
<1>3. \A n \in Messages : row'[n] \in Row \union {Null} /\ (row'[n] = Null <=> row[n] = Null)
  BY <1>1, <1>2, NullAssumption DEF Kept
<1>4. row' = [n \in Messages |-> row'[n]]
  BY DEF Mark
<1> QED
  BY <1>1, <1>3, <1>4 DEF Marked, Rows

LEMMA Deletes ==
    ASSUME TypeOK, NEW S, row' = [m \in Messages |-> IF m \in S THEN Null ELSE row[m]]
    PROVE  Deleted(S)
BY DEF TypeOK, Deleted, Rows

LEMMA KeptAfter ==
    /\ \A m \in Messages : \A g : Saved(m, g) => Kept' = Kept \union {m} /\ m \in Active'
    /\ \A S, T : Marked(S, T) => Kept' = Kept
    /\ \A S : Deleted(S) => Kept' = Kept \ S
BY DEF Kept, Active, Saved, Marked, Deleted

(***************************************************************************)
(* The latest of messages                                                  *)
(***************************************************************************)

LEMMA LatestIsLast ==
    ASSUME TypeOK, NEW S \in SUBSET Kept, S # {}
    PROVE  Latest(S) \in S /\ \A n \in S : row[n].at <= row[Latest(S)].at
<1>1. IsFiniteSet(S)
  BY MessagesFinite, FS_Subset DEF TypeOK, Kept
<1> DEFINE f == [m \in Messages |-> row[m].at]
<1>2. \A m \in S : f[m] = row[m].at /\ f[m] \in Nat
  BY RowFields DEF TypeOK, Rows, Kept
<1>3. PICK m \in S : \A n \in S : f[n] <= f[m]
  <2> HIDE DEF f
  <2> QED
    BY <1>1, <1>2, LargestExists
<1>4. \A n \in S : row[n].at <= row[m].at
  BY <1>2, <1>3
<1> QED
  BY <1>4 DEF Latest

\* The active messages of the user, and what is true of the last of them.
Asked == {m \in Active : m[1] = "user"}

LEMMA LastQuestion ==
    ASSUME TypeOK, Asked # {}
    PROVE  /\ Question \in Asked /\ \A n \in Asked : row[n].at <= row[Question].at
           /\ Latest(Active) \in Active /\ \A n \in Active : row[n].at <= row[Latest(Active)].at
<1>1. Asked \subseteq Kept /\ Active \subseteq Kept /\ Active # {}
  BY DEF Asked, Active
<1>2. Question = Latest(Asked)
  BY DEF Question, Asked
<1> QED
  BY <1>1, <1>2, LatestIsLast

LEMMA DoomedMessages == ASSUME TypeOK, ~KeepsTurn PROVE Asked # {} /\ Doomed \subseteq Active
<1>1. Asked # {}
  BY DEF KeepsTurn, Asked
<1> QED
  BY <1>1, LastQuestion DEF Doomed, Asked

(***************************************************************************)
(* Typing                                                                  *)
(***************************************************************************)

\* A question has a version group, an answer none.
Grouped ==
    \A r \in Requests : /\ U(r) \in Kept => row[U(r)].group \in Requests
                        /\ A(r) \in Kept => row[A(r)].group = Null

TypeInv == TypeOK /\ Grouped

LEMMA RowsTyped ==
    ASSUME TypeInv,
           \/ row' = row
           \/ \E r, g \in Requests : Saved(U(r), g)
           \/ \E r \in Requests : Saved(A(r), Null)
           \/ \E S, T : Marked(S, T)
           \/ \E S : Deleted(S)
    PROVE  Rows' /\ Grouped'
<1>1. Rows /\ Grouped
  BY DEF TypeInv, TypeOK, Rows
<1>2. CASE row' = row
  BY <1>1, <1>2 DEF Rows, Grouped, Kept
<1>3. ASSUME NEW r \in Requests, NEW g \in Requests, Saved(U(r), g) PROVE Rows' /\ Grouped'
  BY <1>1, <1>3, Naming DEF Saved, Grouped, Kept
<1>4. ASSUME NEW r \in Requests, Saved(A(r), Null) PROVE Rows' /\ Grouped'
  BY <1>1, <1>4, Naming DEF Saved, Grouped, Kept
<1>5. ASSUME NEW S, NEW T, Marked(S, T) PROVE Rows' /\ Grouped'
  BY <1>1, <1>5 DEF Marked, Grouped, Kept
<1>6. ASSUME NEW S, Deleted(S) PROVE Rows' /\ Grouped'
  BY <1>1, <1>6 DEF Deleted, Grouped, Kept
<1> QED
  BY <1>2, <1>3, <1>4, <1>5, <1>6

\* What the rest of an action has to leave well typed.
OthersTyped ==
    /\ client' \in Clients
    /\ chat' \in {"none", "exists", "deleted", "dropped"}
    /\ clock' \in Nat /\ batches' \in Nat
    /\ registry' \in Requests \union {Null}
    /\ phase' \in [Requests -> Phases]
    /\ edits' \in [Requests -> Requests \union {Null}]
    /\ group' \in [Requests -> Requests]
    /\ aborted' \subseteq Requests
    /\ cancel' \in [Cancels -> [phase : {"idle", "wait", "read", "count", "drop", "over"},
                                run : Requests \union {Null}, doomed : SUBSET Messages]]
    /\ switches' \in Nat
    /\ interrupted' \in BOOLEAN
    /\ faults' \in Nat

LEMMA Together ==
    ASSUME TypeInv, OthersTyped,
           \/ row' = row
           \/ \E r, g \in Requests : Saved(U(r), g)
           \/ \E r \in Requests : Saved(A(r), Null)
           \/ \E S, T : Marked(S, T)
           \/ \E S : Deleted(S)
    PROVE  TypeInv'
BY RowsTyped DEF OthersTyped, TypeInv, TypeOK, Rows

LEMMA ForgetTyped ==
    ASSUME TypeOK, NEW S, Forget(S)
    PROVE  edits' \in [Requests -> Requests \union {Null}] /\ group' \in [Requests -> Requests]
BY DEF TypeOK, Forget

LEMMA InitTyped == Init => TypeInv
<1> SUFFICES ASSUME Init PROVE TypeInv
  OBVIOUS
<1>1. [phase |-> "idle", run |-> Null, doomed |-> {}]
        \in [phase : {"idle", "wait", "read", "count", "drop", "over"},
             run : Requests \union {Null}, doomed : SUBSET Messages]
  OBVIOUS
<1>2. TypeOK
  BY <1>1 DEF Init, TypeOK, Phases
<1> QED
  BY <1>2 DEF Init, TypeInv, Grouped, Kept

\* The effects on the rows of the actions that write them.
LEMMA CreateChatSaves ==
    ASSUME TypeOK, NEW r \in Requests, CreateChat(r) PROVE Saved(U(r), r) /\ clock' = clock + 1
BY Saves, Naming DEF CreateChat, U

LEMMA InsertSaves ==
    ASSUME TypeOK, NEW r \in Requests, Insert(r)
    PROVE  \/ chat = "exists" /\ Saved(U(r), group[r]) /\ clock' = clock + 1
              /\ phase' = [phase EXCEPT ![r] = "load"]
           \/ chat # "exists" /\ row' = row /\ clock' = clock
              /\ phase' = [phase EXCEPT ![r] = "over"]
<1>1. group[r] \in Requests /\ U(r) \in Messages
  BY Naming DEF TypeOK
<1> QED
  BY <1>1, Saves DEF Insert, U, Go

LEMMA FinishSaves ==
    ASSUME TypeOK, NEW r \in Requests, Finish(r)
    PROVE  \/ chat = "exists" /\ Saved(A(r), Null) /\ clock' = clock + 1
           \/ chat # "exists" /\ row' = row /\ clock' = clock
<1>1. CASE chat = "exists"
  <2>1. PICK text \in BOOLEAN : Save(A(r), Null, text)
    BY <1>1 DEF Finish, A
  <2> QED
    BY <1>1, <2>1, Saves, Naming
<1>2. CASE chat # "exists"
  BY <1>2 DEF Finish
<1> QED
  BY <1>1, <1>2

LEMMA SupersedeMarks ==
    ASSUME TypeOK, NEW r \in Requests, SupersedeMessagesFrom(r)
    PROVE  \/ /\ U(edits[r]) \in Kept /\ Marked(From(row[U(edits[r])].at), {})
              /\ batches' = batches + 1
           \/ U(edits[r]) \notin Kept /\ row' = row /\ batches' = batches
<1>1. \A t : From(t) \in SUBSET Kept
  BY DEF From, Active
<1> QED
  BY <1>1, Marks DEF SupersedeMessagesFrom, U

LEMMA SwitchMarks ==
    ASSUME TypeOK, NEW m \in Messages, SwitchMessageVersion(m)
    PROVE  Marked(From(ForkPoint(m)), Batch(m)) /\ batches' = batches + 1
<1>1. \A t : From(t) \in SUBSET Kept
  BY DEF From, Active
<1>2. Batch(m) \in SUBSET Kept
  BY DEF Batch
<1> QED
  BY <1>1, <1>2, Marks DEF SwitchMessageVersion, Restored

LEMMA DeleteTurnDeletes ==
    ASSUME TypeOK, NEW k \in Cancels, DeleteTurn(k)
    PROVE  \/ Active \subseteq cancel[k].doomed /\ row' = row
              /\ cancel' = [cancel EXCEPT ![k].phase = "drop", ![k].run = Null]
           \/ ~(Active \subseteq cancel[k].doomed) /\ Deleted(cancel[k].doomed)
              /\ cancel' = [cancel EXCEPT ![k] = Answered]
BY Deletes DEF DeleteTurn, CancelTo

LEMMA AllGone ==
    ASSUME TypeOK, row' = [m \in Messages |-> Null] PROVE Deleted(Messages)
BY DEF Deleted, Rows

LEMMA NextTyped == TypeInv /\ [Next]_vars => TypeInv'
<1> SUFFICES ASSUME TypeInv, [Next]_vars PROVE TypeInv'
  OBVIOUS
<1> USE DEF TypeInv
<1>1. ASSUME NEW r \in Requests, CreateChat(r) PROVE TypeInv'
  <2>1. Saved(U(r), r) /\ clock' = clock + 1
    BY <1>1, CreateChatSaves DEF TypeOK, CreateChat, Go, MayStart, thread, turn, bounds
  <2>2. OthersTyped
    BY <1>1, <2>1 DEF TypeOK, OthersTyped, Phases, CreateChat, Go, MayStart, thread, turn, bounds
  <2> QED
    BY <2>1, <2>2, Together
<1>2. ASSUME NEW r \in Requests, Send(r) PROVE TypeInv'
  <2>1. row' = row
    BY <1>2 DEF TypeOK, Send, Go, thread, turn, bounds
  <2>2. OthersTyped
    BY <1>2, <2>1 DEF TypeOK, OthersTyped, Phases, Send, Go, thread, turn, bounds
  <2> QED
    BY <2>1, <2>2, Together
<1>3. ASSUME NEW r \in Requests, NEW q \in Requests, Edit(r, q) PROVE TypeInv'
  <2>1. VersionGroup(q) \in Requests
    BY <1>3, Naming DEF Edit, VersionGroup, U, Grouped, Active
  <2>2. OthersTyped /\ row' = row
    BY <1>3, <2>1 DEF TypeOK, OthersTyped, Phases, Edit, Go, thread, turn, bounds
  <2> QED
    BY <2>2, Together
<1>4. ASSUME NEW r \in Requests, SupersedeMessagesFrom(r) PROVE TypeInv'
  <2>1. row' = row \/ Marked(From(row[U(edits[r])].at), {})
    BY <1>4, SupersedeMarks DEF TypeOK, SupersedeMessagesFrom, Go, thread, turn, bounds
  <2>2. OthersTyped
    BY <1>4, <2>1, SupersedeMarks DEF TypeOK, OthersTyped, Phases, SupersedeMessagesFrom, Go, thread, turn, bounds
  <2> QED
    BY <2>1, <2>2, Together
<1>5. ASSUME NEW r \in Requests, Insert(r) PROVE TypeInv'
  <2>1. (row' = row \/ Saved(U(r), group[r])) /\ group[r] \in Requests /\ clock' \in Nat
       /\ \E to \in Phases : phase' = [phase EXCEPT ![r] = to]
    BY <1>5, InsertSaves DEF TypeOK, Phases
  <2>2. OthersTyped
    BY <1>5, <2>1, ForgetTyped DEF TypeOK, OthersTyped, Phases, Insert, Go, thread, turn, bounds
  <2> QED
    BY <2>1, <2>2, Together
<1>6. ASSUME NEW r \in Requests, Load(r) PROVE TypeInv'
  <2>1. row' = row
    BY <1>6 DEF TypeOK, Load, Go, thread, turn, bounds
  <2>2. OthersTyped
    BY <1>6, <2>1 DEF TypeOK, OthersTyped, Phases, Load, Go, thread, turn, bounds
  <2> QED
    BY <2>1, <2>2, Together
<1>7. ASSUME NEW r \in Requests, DisposeAgent(r) PROVE TypeInv'
  <2>1. row' = row
    BY <1>7 DEF TypeOK, DisposeAgent, Go, thread, turn, bounds
  <2>2. OthersTyped
    BY <1>7, <2>1 DEF TypeOK, OthersTyped, Phases, DisposeAgent, Go, thread, turn, bounds
  <2> QED
    BY <2>1, <2>2, Together
<1>8. ASSUME NEW r \in Requests, Register(r) PROVE TypeInv'
  <2>1. row' = row
    BY <1>8 DEF TypeOK, Register, Go, thread, turn, bounds
  <2>2. OthersTyped
    BY <1>8, <2>1 DEF TypeOK, OthersTyped, Phases, Register, Go, thread, turn, bounds
  <2> QED
    BY <2>1, <2>2, Together
<1>9. ASSUME NEW r \in Requests, RequestFails(r) PROVE TypeInv'
  <2>1. row' = row
    BY <1>9, ForgetTyped DEF TypeOK, RequestFails, Fault, Go, thread, turn, bounds
  <2>2. OthersTyped
    BY <1>9, <2>1, ForgetTyped DEF TypeOK, OthersTyped, Phases, RequestFails, Fault, Go, thread, turn, bounds
  <2> QED
    BY <2>1, <2>2, Together
<1>10. ASSUME NEW r \in Requests, EndRun(r) PROVE TypeInv'
  <2>1. row' = row
    BY <1>10 DEF TypeOK, EndRun, Go, thread, turn, bounds
  <2>2. OthersTyped
    BY <1>10, <2>1 DEF TypeOK, OthersTyped, Phases, EndRun, Go, thread, turn, bounds
  <2> QED
    BY <2>1, <2>2, Together
<1>11. ASSUME NEW r \in Requests, Finish(r) PROVE TypeInv'
  <2>1. (row' = row \/ Saved(A(r), Null)) /\ clock' \in Nat
    BY <1>11, FinishSaves DEF TypeOK
  <2>2. OthersTyped
    BY <1>11, <2>1 DEF TypeOK, OthersTyped, Phases, Finish, Go, thread, turn, bounds
  <2> QED
    BY <2>1, <2>2, Together
<1>12. ASSUME NEW r \in Requests, Leave(r) PROVE TypeInv'
  <2>1. row' = row
    BY <1>12 DEF TypeOK, Leave, Go, thread, turn, bounds
  <2>2. OthersTyped
    BY <1>12, <2>1 DEF TypeOK, OthersTyped, Phases, Leave, Go, thread, turn, bounds
  <2> QED
    BY <2>1, <2>2, Together
<1>13. ASSUME NEW k \in Cancels, Cancel(k) PROVE TypeInv'
  <2>1. row' = row
    BY <1>13 DEF TypeOK, Cancel, Go, thread, turn, bounds
  <2>2. PICK call \in [phase : {"idle", "wait", "read", "count", "drop", "over"},
                      run : Requests \union {Null}, doomed : SUBSET Messages] :
           cancel' = [cancel EXCEPT ![k] = call]
    <3> DEFINE old == cancel[k]
    <3>1. old \in [phase : {"idle", "wait", "read", "count", "drop", "over"},
                    run : Requests \union {Null}, doomed : SUBSET Messages]
      BY DEF TypeOK
    <3>2. cancel' = [cancel EXCEPT ![k] = [old EXCEPT !.phase = IF registry = Null THEN "read" ELSE "wait",
                                                !.run = registry]]
      BY <1>13 DEF Cancel
    <3> HIDE DEF old
    <3> QED
      BY <3>1, <3>2 DEF TypeOK
  <2>3. cancel' \in [Cancels -> [phase : {"idle", "wait", "read", "count", "drop", "over"},
                                run : Requests \union {Null}, doomed : SUBSET Messages]]
    BY <2>2 DEF TypeOK
  <2>4. /\ aborted' = aborted \union ({registry} \ {Null})
        /\ UNCHANGED <<chat, clock, batches, registry, phase, turn, bounds>>
    BY <1>13 DEF Cancel, thread
  <2>5. OthersTyped
    BY <2>3, <2>4 DEF TypeOK, OthersTyped, turn, bounds
  <2> QED
    BY <2>1, <2>5, Together
<1>14. ASSUME NEW k \in Cancels, Waited(k) PROVE TypeInv'
  <2>1. UNCHANGED <<row, chat, clock, batches, registry, phase, turn, aborted, bounds>>
    BY <1>14 DEF Waited, thread
  <2>2. cancel' \in [Cancels -> [phase : {"idle", "wait", "read", "count", "drop", "over"},
                                run : Requests \union {Null}, doomed : SUBSET Messages]]
    BY <1>14 DEF Waited, CancelTo, TypeOK
  <2>3. OthersTyped
    BY <2>1, <2>2 DEF TypeOK, OthersTyped, turn, bounds
  <2> QED
    BY <2>1, <2>3, Together
<1>15. ASSUME NEW k \in Cancels, ReadTurn(k) PROVE TypeInv'
  <2>1. UNCHANGED <<row, chat, clock, batches, registry, phase, turn, aborted, bounds>>
    BY <1>15 DEF ReadTurn, thread
  <2>2. PICK call \in [phase : {"idle", "wait", "read", "count", "drop", "over"},
                      run : Requests \union {Null}, doomed : SUBSET Messages] :
           cancel' = [cancel EXCEPT ![k] = call]
    <3> DEFINE old == cancel[k]
    <3>1. old \in [phase : {"idle", "wait", "read", "count", "drop", "over"},
                    run : Requests \union {Null}, doomed : SUBSET Messages]
      BY DEF TypeOK
    <3>2. CASE KeepsTurn
      BY <1>15, <3>2 DEF ReadTurn, Answered
    <3>3. CASE ~KeepsTurn
      <4>1. Doomed \in SUBSET Messages
        BY <3>3, DoomedMessages DEF Active, Kept
      <4>2. cancel' = [cancel EXCEPT ![k] = [old EXCEPT !.phase = "count", !.doomed = Doomed]]
        BY <1>15, <3>3 DEF ReadTurn
      <4> HIDE DEF old
      <4> QED
        BY <3>1, <4>1, <4>2
    <3> QED
      BY <3>2, <3>3
  <2>3. cancel' \in [Cancels -> [phase : {"idle", "wait", "read", "count", "drop", "over"},
                                run : Requests \union {Null}, doomed : SUBSET Messages]]
    BY <2>2 DEF TypeOK
  <2>4. OthersTyped
    BY <2>1, <2>3 DEF TypeOK, OthersTyped, turn, bounds
  <2> QED
    BY <2>1, <2>4, Together
<1>16. ASSUME NEW k \in Cancels, DeleteTurn(k) PROVE TypeInv'
  <2>1. row' = row \/ Deleted(cancel[k].doomed)
    BY <1>16, DeleteTurnDeletes DEF TypeOK, DeleteTurn, Answered, thread, turn, bounds
  <2>2. PICK call \in [phase : {"idle", "wait", "read", "count", "drop", "over"},
                      run : Requests \union {Null}, doomed : SUBSET Messages] :
           cancel' = [cancel EXCEPT ![k] = call]
    <3> DEFINE old == cancel[k]
    <3>1. old \in [phase : {"idle", "wait", "read", "count", "drop", "over"},
                    run : Requests \union {Null}, doomed : SUBSET Messages]
      BY DEF TypeOK
    <3>2. \/ cancel' = [cancel EXCEPT ![k] = [old EXCEPT !.phase = "drop", !.run = Null]]
          \/ cancel' = [cancel EXCEPT ![k] = Answered]
      BY <1>16 DEF DeleteTurn, CancelTo
    <3> HIDE DEF old
    <3> QED
      BY <3>1, <3>2 DEF Answered
  <2>3. cancel' \in [Cancels -> [phase : {"idle", "wait", "read", "count", "drop", "over"},
                                run : Requests \union {Null}, doomed : SUBSET Messages]]
    BY <2>2 DEF TypeOK
  <2>4. UNCHANGED <<chat, clock, batches, registry, phase, turn, aborted, bounds>>
    BY <1>16 DEF DeleteTurn
  <2>5. OthersTyped
    BY <2>3, <2>4 DEF TypeOK, OthersTyped, turn, bounds
  <2> QED
    BY <2>1, <2>5, Together
<1>17. ASSUME NEW k \in Cancels, DropChat(k) PROVE TypeInv'
  <2>1. Deleted(Messages)
    BY <1>17, AllGone DEF TypeOK, DropChat, Answered, thread, turn, bounds
  <2>2. OthersTyped
    BY <1>17, <2>1, AllGone DEF TypeOK, OthersTyped, Phases, DropChat, Answered, thread, turn, bounds
  <2> QED
    BY <2>1, <2>2, Together
<1>18. ASSUME NEW m \in Messages, SwitchMessageVersion(m) PROVE TypeInv'
  <2>1. Marked(From(ForkPoint(m)), Batch(m))
    BY <1>18, SwitchMarks DEF TypeOK, SwitchMessageVersion, thread, turn, bounds
  <2>2. OthersTyped
    BY <1>18, <2>1, SwitchMarks DEF TypeOK, OthersTyped, Phases, SwitchMessageVersion, thread, turn, bounds
  <2> QED
    BY <2>1, <2>2, Together
<1>19. ASSUME Stop PROVE TypeInv'
  <2>1. row' = row
    BY <1>19 DEF TypeOK, Stop, thread, turn, bounds
  <2>2. OthersTyped
    BY <1>19, <2>1 DEF TypeOK, OthersTyped, Phases, Stop, thread, turn, bounds
  <2> QED
    BY <2>1, <2>2, Together
<1>20. ASSUME DeleteChat PROVE TypeInv'
  <2>1. Deleted(Messages)
    BY <1>20, AllGone DEF TypeOK, DeleteChat, thread, turn, bounds
  <2>2. OthersTyped
    BY <1>20, <2>1, AllGone DEF TypeOK, OthersTyped, Phases, DeleteChat, thread, turn, bounds
  <2> QED
    BY <2>1, <2>2, Together
<1>21. ASSUME Crash PROVE TypeInv'
  <2>1. row' = row
    BY <1>21, ForgetTyped DEF TypeOK, Crash, Fault, Answered, thread, turn, bounds
  <2>2. OthersTyped
    BY <1>21, <2>1, ForgetTyped DEF TypeOK, OthersTyped, Phases, Crash, Fault, Answered, thread, turn, bounds
  <2> QED
    BY <2>1, <2>2, Together
<1>22. CASE UNCHANGED vars
  BY <1>22, Together DEF TypeOK, OthersTyped, vars
<1> QED
  BY <1>1, <1>2, <1>3, <1>4, <1>5, <1>6, <1>7, <1>8, <1>9, <1>10, <1>11, <1>12, <1>13, <1>14, <1>15, <1>16, <1>17, <1>18, <1>19, <1>20, <1>21, <1>22 DEF Next, Asking, Running, Cancelling

(***************************************************************************)
(* Who runs                                                                *)
(*                                                                         *)
(* An entry of the registry is of a run that has not left.  A patient      *)
(* client has one request under way, whose run is registered, or one       *)
(* cancel, which waits for that run and reads and deletes when there is    *)
(* none.                                                                   *)
(***************************************************************************)

Busy(r) == phase[r] \notin {"idle", "over"}
Asks(k) == cancel[k].phase \notin {"idle", "over"}

OneRequest == \A q, r \in Requests : Busy(q) /\ Busy(r) => q = r
Registered == \A r \in Requests : Working(r) => registry = r

CancelsWait ==
    \A k \in Cancels :
        /\ \A j \in Cancels : Asks(j) /\ Asks(k) => j = k
        /\ cancel[k].phase = "wait" =>
              \A r \in Requests : Busy(r) => /\ cancel[k].run = r
                                             /\ phase[r] \in {"run", "finish", "leave"}
        /\ cancel[k].phase \in {"read", "count", "drop"} => \A r \in Requests : ~Busy(r)

Control == EntryIsAlive /\ (client = "patient" => OneRequest /\ Registered /\ CancelsWait)

\* A request that is under way goes on.
LEMMA RequestMoves ==
    ASSUME TypeOK, Control, NEW r \in Requests, Busy(r), NEW to \in Phases, Go(r, to),
           cancel' = cancel, client' = client, EntryIsAlive',
           to \in {"run", "finish"} => registry' = r \/ (Working(r) /\ registry' = registry),
           phase[r] \in {"run", "finish", "leave"} => to \in {"run", "finish", "leave", "over"}
    PROVE  Control'
<1> SUFFICES ASSUME client = "patient" PROVE OneRequest' /\ Registered' /\ CancelsWait'
  BY DEF Control
<1>1. OneRequest /\ Registered /\ CancelsWait
  BY DEF Control
<1>2. phase'[r] = to /\ \A q \in Requests \ {r} : phase'[q] = phase[q]
  BY DEF Go, TypeOK
<1>3. \A q \in Requests \ {r} : ~Busy(q)
  BY <1>1 DEF OneRequest
<1>4. OneRequest'
  BY <1>2, <1>3 DEF OneRequest, Busy
<1>5. Registered'
  BY <1>1, <1>2, <1>3 DEF Registered, Working, Busy
<1>6. ASSUME NEW k \in Cancels
      PROVE  /\ \A j \in Cancels : Asks(j)' /\ Asks(k)' => j = k
             /\ cancel'[k].phase = "wait" =>
                   \A q \in Requests : Busy(q)' => /\ cancel'[k].run = q
                                                   /\ phase'[q] \in {"run", "finish", "leave"}
             /\ cancel'[k].phase \in {"read", "count", "drop"} => \A q \in Requests : ~Busy(q)'
  <2>1. \A j \in Cancels : Asks(j)' /\ Asks(k)' => j = k
    BY <1>1 DEF CancelsWait, Asks
  <2>2. ASSUME cancel'[k].phase = "wait", NEW q \in Requests, Busy(q)'
        PROVE  cancel'[k].run = q /\ phase'[q] \in {"run", "finish", "leave"}
    <3>1. q = r /\ cancel[k].run = r /\ phase[r] \in {"run", "finish", "leave"}
      BY <1>1, <1>2, <1>3, <2>2 DEF CancelsWait, Busy
    <3> QED
      BY <1>2, <2>2, <3>1 DEF Busy
  <2>3. cancel'[k].phase \notin {"read", "count", "drop"}
    BY <1>1 DEF CancelsWait
  <2> QED
    BY <2>1, <2>2, <2>3
<1> QED
  BY <1>4, <1>5, <1>6 DEF CancelsWait

\* A request begins.
LEMMA RequestStarts ==
    ASSUME TypeOK, Control, NEW r \in Requests, MayStart(r), NEW to \in {"load", "insert", "supersede"},
           Go(r, to), cancel' = cancel, client' = client, registry' = registry
    PROVE  Control'
<1>1. phase'[r] = to /\ phase[r] = "idle" /\ \A q \in Requests \ {r} : phase'[q] = phase[q]
  BY DEF Go, TypeOK, MayStart
<1>2. EntryIsAlive'
  BY <1>1 DEF Control, EntryIsAlive, TypeOK
<1> SUFFICES ASSUME client = "patient" PROVE OneRequest' /\ Registered' /\ CancelsWait'
  BY <1>2 DEF Control
<1>3. (\A q \in Requests : ~Busy(q)) /\ \A k \in Cancels : ~Asks(k)
  BY DEF MayStart, Quiet, Busy, Asks
<1>4. OneRequest' /\ Registered'
  BY <1>1, <1>3 DEF OneRequest, Registered, Working, Busy
<1> QED
  BY <1>3, <1>4 DEF CancelsWait, Asks

\* A cancel goes on, or begins.
LEMMA CancelMoves ==
    ASSUME TypeOK, Control, NEW k \in Cancels, phase' = phase, client' = client, registry' = registry,
           \A j \in Cancels \ {k} : cancel'[j] = cancel[j],
           client = "patient" =>
               /\ \A j \in Cancels \ {k} : ~Asks(j)
               /\ \/ cancel'[k].phase = "wait" /\ registry # Null /\ cancel'[k].run = registry
                  \/ cancel'[k].phase \in {"read", "count", "drop"} /\ \A r \in Requests : ~Busy(r)
                  \/ cancel'[k].phase = "over"
    PROVE  Control'
<1>1. EntryIsAlive'
  BY DEF Control, EntryIsAlive
<1> SUFFICES ASSUME client = "patient" PROVE OneRequest' /\ Registered' /\ CancelsWait'
  BY <1>1 DEF Control
<1>2. OneRequest /\ Registered /\ EntryIsAlive
  BY DEF Control
<1>3. OneRequest' /\ Registered'
  BY <1>2 DEF OneRequest, Registered, Working, Busy
<1>4. \A j \in Cancels \ {k} : ~Asks(j)'
  BY DEF Asks
<1>5. registry # Null => \A r \in Requests : Busy(r) => registry = r /\ phase[r] \in {"run", "finish", "leave"}
  BY <1>2 DEF EntryIsAlive, OneRequest, Busy, TypeOK
<1> QED
  BY <1>3, <1>4, <1>5 DEF CancelsWait, Asks, Busy

LEMMA InitControlled == Init => Control
BY DEF Init, Control, EntryIsAlive, OneRequest, Registered, CancelsWait, Busy, Working, Asks

LEMMA NextControlled == TypeOK /\ Control /\ [Next]_vars => Control'
<1> SUFFICES ASSUME TypeOK, Control, [Next]_vars PROVE Control'
  OBVIOUS
<1>1. ASSUME NEW r \in Requests, CreateChat(r) \/ Send(r) \/ \E q \in Requests : Edit(r, q)
      PROVE  Control'
  <2>1. /\ MayStart(r) /\ UNCHANGED <<cancel, registry, client>>
        /\ \E to \in {"load", "insert", "supersede"} : Go(r, to)
    BY <1>1 DEF CreateChat, Send, Edit, bounds
  <2> QED
    BY <2>1, RequestStarts
<1>2. ASSUME NEW r \in Requests, SupersedeMessagesFrom(r) \/ Insert(r) \/ Load(r) PROVE Control'
  <2>1. PICK to \in {"insert", "load", "dispose", "over"} : Go(r, to)
    BY <1>2 DEF SupersedeMessagesFrom, Insert, Load
  <2>2. UNCHANGED <<cancel, registry, client>>
    BY <1>2 DEF SupersedeMessagesFrom, Insert, Load, bounds
  <2>3. phase[r] \in {"supersede", "insert", "load"}
    BY <1>2 DEF SupersedeMessagesFrom, Insert, Load
  <2>4. EntryIsAlive'
    BY <2>1, <2>2, <2>3 DEF Control, EntryIsAlive, Go, TypeOK
  <2> QED
    BY <2>1, <2>2, <2>3, <2>4, RequestMoves DEF Busy, Phases
<1>3. ASSUME NEW r \in Requests, DisposeAgent(r) PROVE Control'
  <2>1. Go(r, "create") /\ registry' = Null /\ phase[r] = "dispose" /\ UNCHANGED <<cancel, client>>
    BY <1>3 DEF DisposeAgent, bounds
  <2> QED
    BY <2>1, RequestMoves DEF Busy, Phases, EntryIsAlive
<1>4. ASSUME NEW r \in Requests, Register(r) PROVE Control'
  <2>1. Go(r, "run") /\ registry' = r /\ phase[r] = "create" /\ UNCHANGED <<cancel, client>>
    BY <1>4 DEF Register, bounds
  <2>2. EntryIsAlive'
    BY <2>1 DEF EntryIsAlive, Go, TypeOK
  <2> QED
    BY <2>1, <2>2, RequestMoves DEF Busy, Phases
<1>5. ASSUME NEW r \in Requests, RequestFails(r) PROVE Control'
  <2>1. PICK to \in {"leave", "over"} : Go(r, to) /\ (phase[r] = "finish" <=> to = "leave")
    BY <1>5 DEF RequestFails
  <2>2. /\ UNCHANGED <<cancel, registry, client>>
        /\ phase[r] \in {"supersede", "insert", "load", "dispose", "create", "finish"}
    BY <1>5 DEF RequestFails
  <2>3. EntryIsAlive'
    BY <2>1, <2>2 DEF Control, EntryIsAlive, Go, TypeOK
  <2> QED
    BY <2>1, <2>2, <2>3, RequestMoves DEF Busy, Phases
<1>6. ASSUME NEW r \in Requests, EndRun(r) PROVE Control'
  <2>1. Go(r, "finish") /\ phase[r] = "run" /\ UNCHANGED <<cancel, registry, client>>
    BY <1>6 DEF EndRun, bounds
  <2>2. EntryIsAlive'
    BY <2>1 DEF Control, EntryIsAlive, Go, TypeOK
  <2> QED
    BY <2>1, <2>2, RequestMoves DEF Busy, Phases, Working
<1>7. ASSUME NEW r \in Requests, Finish(r) PROVE Control'
  <2>1. Go(r, "leave") /\ phase[r] = "finish" /\ UNCHANGED <<cancel, registry, client>>
    BY <1>7 DEF Finish, bounds
  <2>2. EntryIsAlive'
    BY <2>1 DEF Control, EntryIsAlive, Go, TypeOK
  <2> QED
    BY <2>1, <2>2, RequestMoves DEF Busy, Phases
<1>8. ASSUME NEW r \in Requests, Leave(r) PROVE Control'
  <2>1. Go(r, "over") /\ phase[r] = "leave" /\ registry' = Null /\ UNCHANGED <<cancel, client>>
    BY <1>8 DEF Leave, bounds
  <2> QED
    BY <2>1, RequestMoves DEF Busy, Phases, EntryIsAlive
<1>9. ASSUME NEW k \in Cancels, Cancel(k) PROVE Control'
  <2>1. /\ UNCHANGED <<phase, client, registry>>
        /\ \A j \in Cancels \ {k} : cancel'[j] = cancel[j]
        /\ client = "patient" => registry # Null /\ \A j \in Cancels : ~Asks(j)
    BY <1>9 DEF Cancel, MayCancel, bounds, TypeOK, Asks
  <2>2. registry # Null => cancel'[k].phase = "wait" /\ cancel'[k].run = registry
    BY <1>9 DEF Cancel, TypeOK
  <2> QED
    BY <2>1, <2>2, CancelMoves
<1>10. ASSUME NEW k \in Cancels, Cancelling(k) PROVE Control'
  <2>1. /\ UNCHANGED <<phase, client, registry>>
        /\ \A j \in Cancels \ {k} : cancel'[j] = cancel[j]
        /\ cancel'[k].phase \in {"read", "count", "drop", "over"}
    <3>1. CASE Waited(k)
      BY <3>1 DEF Waited, CancelTo, bounds, TypeOK
    <3>2. CASE ReadTurn(k)
      BY <3>2 DEF ReadTurn, Answered, bounds, TypeOK
    <3>3. CASE DeleteTurn(k)
      BY <3>3 DEF DeleteTurn, CancelTo, Answered, bounds, TypeOK
    <3>4. CASE DropChat(k)
      BY <3>4 DEF DropChat, Answered, bounds, TypeOK
    <3> QED
      BY <1>10, <3>1, <3>2, <3>3, <3>4 DEF Cancelling
  <2>2. /\ cancel[k].phase \in {"wait", "read", "count", "drop"}
        /\ cancel[k].phase = "wait" /\ client = "patient" => phase[cancel[k].run] = "over"
    BY <1>10 DEF Cancelling, Waited, ReadTurn, DeleteTurn, DropChat
  <2>3. ASSUME client = "patient"
        PROVE  (\A j \in Cancels \ {k} : ~Asks(j)) /\ \A r \in Requests : ~Busy(r)
    <3>1. CancelsWait /\ Asks(k)
      BY <2>2, <2>3 DEF Control, Asks
    <3>2. \A r \in Requests : ~Busy(r)
      BY <2>2, <2>3, <3>1 DEF CancelsWait, Busy
    <3> QED
      BY <3>1, <3>2 DEF CancelsWait
  <2> QED
    BY <2>1, <2>3, CancelMoves
<1>11. CASE \/ \E m \in Messages : SwitchMessageVersion(m)
            \/ Stop \/ DeleteChat \/ UNCHANGED vars
  <2>1. UNCHANGED <<phase, client, registry, cancel>>
    BY <1>11 DEF SwitchMessageVersion, Stop, DeleteChat, vars, bounds
  <2> QED
    BY <2>1 DEF Control, EntryIsAlive, OneRequest, Registered, CancelsWait, Busy, Working, Asks
<1>12. CASE Crash
  <2>1. /\ registry' = Null /\ \A r \in Requests : ~Busy(r)' /\ phase'[r] \in {"idle", "over"}
        /\ \A k \in Cancels : ~Asks(k)' /\ cancel'[k].phase \in {"idle", "over"}
    BY <1>12 DEF Crash, Busy, Asks, Answered
  <2> QED
    BY <2>1 DEF Control, EntryIsAlive, OneRequest, Registered, CancelsWait, Working
<1> QED
  BY <1>1, <1>2, <1>3, <1>4, <1>5, <1>6, <1>7, <1>8, <1>9, <1>10, <1>11, <1>12
  DEF Next, Asking, Running

LEMMA ControlInvariant == Spec => [](TypeInv /\ Control)
<1>1. TypeInv /\ Control /\ [Next]_vars => (TypeInv /\ Control)'
  BY NextTyped, NextControlled DEF TypeInv
<1> QED
  BY InitTyped, InitControlled, <1>1, PTL DEF Spec

\* An agent is in the registry only while a run of the chat is alive, whatever
\* requests, stops, cancels and crashes overlap; and as long as requests do not
\* overlap, a chat without one has no run at work that could still write.
THEOREM RegistryTellsWhoRuns == Spec => []RegistryTells
<1>1. TypeInv /\ Control => RegistryTells
  BY RequestNumbers DEF TypeInv, TypeOK, Control, RegistryTells, EntryIsAlive, StoriesGuardedInTurn, Registered
<1> QED
  BY <1>1, ControlInvariant, PTL

(***************************************************************************)
(* What the rows record                                                    *)
(*                                                                         *)
(* Messages have times of their own, a chat that does not exist has none,  *)
(* and a request that has not saved its message has none either, nor is    *)
(* there a version of it.                                                  *)
(***************************************************************************)

Unsaved == {"idle", "supersede", "insert"}

Times ==
    /\ \A m \in Kept : row[m].at <= clock /\ row[m].superseded <= batches
    /\ \A m, n \in Kept : row[m].at = row[n].at => m = n

NoRows == chat # "exists" => Kept = {}

Fresh(r) ==
    /\ phase[r] \in Unsaved => U(r) \notin Kept /\ \A m \in Kept : row[m].group # r
    /\ phase[r] \notin {"leave", "over"} => A(r) \notin Kept
    /\ phase[r] \in Unsaved /\ edits[r] = Null => group[r] = r
    /\ edits[r] # Null => phase[group[r]] \notin Unsaved
    /\ phase[r] = "idle" => edits[r] = Null
    /\ phase[r] = "supersede" => edits[r] # Null

Records == Times /\ NoRows /\ \A r \in Requests : Fresh(r)

LEMMA TimesKept ==
    ASSUME TypeInv, Times,
           \/ row' = row /\ clock' = clock /\ batches' = batches
           \/ /\ \E m \in Messages \ Kept : \E g : Saved(m, g)
              /\ clock' = clock + 1 /\ batches' = batches
           \/ (\E S, T : Marked(S, T)) /\ batches' = batches + 1 /\ clock' = clock
           \/ (\E S : Deleted(S)) /\ clock' = clock /\ batches' = batches
    PROVE  Times'
<1>1. /\ clock \in Nat /\ batches \in Nat
      /\ \A m \in Kept : row[m].at \in Nat /\ row[m].superseded \in Nat
  BY RowFields DEF TypeInv, TypeOK, Rows
<1>2. CASE row' = row /\ clock' = clock /\ batches' = batches
  BY <1>2 DEF Times, Kept
<1>3. ASSUME NEW m \in Messages \ Kept, NEW g, Saved(m, g), clock' = clock + 1, batches' = batches
      PROVE  Times'
  <2>1. Kept' = Kept \union {m}
    BY <1>3, KeptAfter
  <2>2. /\ row'[m].at = clock + 1 /\ row'[m].superseded = 0
        /\ \A n \in Kept : row'[n] = row[n]
    BY <1>3 DEF Saved, Kept
  <2> QED
    BY <1>1, <1>3, <2>1, <2>2 DEF Times
<1>4. ASSUME NEW S, NEW T, Marked(S, T), batches' = batches + 1, clock' = clock PROVE Times'
  <2>1. Kept' = Kept
    BY <1>4, KeptAfter
  <2>2. \A n \in Kept : /\ row'[n].at = row[n].at
                        /\ row'[n].superseded \in {batches + 1, 0, row[n].superseded}
    BY <1>4 DEF Marked
  <2> QED
    BY <1>1, <1>4, <2>1, <2>2 DEF Times
<1>5. ASSUME NEW S, Deleted(S), clock' = clock, batches' = batches PROVE Times'
  <2>1. Kept' = Kept \ S
    BY <1>5, KeptAfter
  <2>2. \A n \in Kept \ S : row'[n] = row[n]
    BY <1>5 DEF Deleted, Kept
  <2> QED
    BY <1>5, <2>1, <2>2 DEF Times
<1> QED
  BY <1>2, <1>3, <1>4, <1>5

\* Requests go on, and no row is added.
LEMMA FreshKept ==
    ASSUME TypeInv, \A r \in Requests : Fresh(r),
           Kept' \subseteq Kept, \A m \in Kept' : row'[m].group = row[m].group,
           \A r \in Requests :
               /\ phase'[r] \in Unsaved => phase[r] \in Unsaved
               /\ phase'[r] \notin {"leave", "over"} => phase[r] \notin {"leave", "over"}
               /\ \/ edits'[r] = Null /\ group'[r] = r /\ phase'[r] # "supersede"
                  \/ /\ edits'[r] = edits[r] /\ group'[r] = group[r]
                     /\ phase'[r] \in {"idle", "supersede"} => phase'[r] = phase[r]
    PROVE  \A r \in Requests : Fresh(r)'
<1> SUFFICES ASSUME NEW r \in Requests PROVE Fresh(r)'
  OBVIOUS
<1>1. Fresh(r) /\ group[r] \in Requests
  BY DEF TypeInv, TypeOK
<1>2. edits'[r] # Null => phase'[group'[r]] \notin Unsaved
  BY <1>1 DEF Fresh
<1> QED
  BY <1>1, <1>2 DEF Fresh

\* A request saves its question.
LEMMA FreshSaved ==
    ASSUME TypeInv, \A r \in Requests : Fresh(r),
           NEW r \in Requests, phase[r] \in Unsaved, Saved(U(r), group[r]),
           phase' = [phase EXCEPT ![r] = "load"],
           edits'[r] = Null, \A q \in Requests \ {r} : edits'[q] = edits[q] /\ group'[q] = group[q]
    PROVE  \A q \in Requests : Fresh(q)'
<1> SUFFICES ASSUME NEW q \in Requests PROVE Fresh(q)'
  OBVIOUS
<1>1. /\ phase'[r] = "load" /\ \A p \in Requests \ {r} : phase'[p] = phase[p]
      /\ group[q] \in Requests /\ group[r] \in Requests
  BY DEF TypeInv, TypeOK
<1>2. Kept' = Kept \union {U(r)} /\ row'[U(r)].group = group[r] /\ \A m \in Kept : row'[m] = row[m] \/ m = U(r)
  BY KeptAfter, Naming DEF Saved, Kept
<1>3. U(r) \notin Kept /\ A(q) # U(r) /\ (q # r => U(q) # U(r))
  BY Naming DEF Fresh
<1>4. phase[q] \in Unsaved /\ q # r => group[r] # q
  BY DEF Fresh
<1>5. CASE q = r
  BY <1>1, <1>2, <1>3, <1>5 DEF Fresh, Unsaved
<1>6. CASE q # r
  <2>1. edits'[q] # Null => phase'[group'[q]] \notin Unsaved
    BY <1>1, <1>6 DEF Fresh, Unsaved
  <2> QED
    BY <1>1, <1>2, <1>3, <1>4, <1>6, <2>1 DEF Fresh
<1> QED
  BY <1>5, <1>6

LEMMA InitRecorded == Init => Records
BY DEF Init, Records, Times, NoRows, Fresh, Kept

LEMMA NextRecorded == TypeInv /\ Records /\ [Next]_vars => Records'
<1> SUFFICES ASSUME TypeInv, Records, [Next]_vars PROVE Records'
  OBVIOUS
<1>0. TypeOK /\ Times /\ NoRows /\ \A r \in Requests : Fresh(r)
  BY DEF TypeInv, Records
<1>1. ASSUME NEW r \in Requests, CreateChat(r) PROVE Records'
  <2>1. /\ Saved(U(r), r) /\ clock' = clock + 1 /\ batches' = batches /\ chat' = "exists"
        /\ phase[r] = "idle" /\ phase' = [phase EXCEPT ![r] = "load"] /\ UNCHANGED <<edits, group>>
    BY <1>0, <1>1, CreateChatSaves DEF CreateChat, MayStart, Go, turn
  <2>2. U(r) \in Messages \ Kept /\ group[r] = r /\ edits[r] = Null
    BY <1>0, <2>1, Naming DEF Fresh, Unsaved
  <2>3. Times'
    BY <1>0, <2>1, <2>2, TimesKept
  <2>4. \A q \in Requests : Fresh(q)'
    BY <1>0, <2>1, <2>2, FreshSaved DEF Unsaved
  <2> QED
    BY <2>1, <2>3, <2>4 DEF Records, NoRows
<1>2. ASSUME NEW r \in Requests, Insert(r), chat = "exists" PROVE Records'
  <2>1. /\ Saved(U(r), group[r]) /\ clock' = clock + 1 /\ batches' = batches /\ chat' = chat
        /\ phase[r] = "insert" /\ phase' = [phase EXCEPT ![r] = "load"] /\ Forget({r})
    BY <1>0, <1>2, InsertSaves DEF Insert
  <2>2. U(r) \in Messages \ Kept
    BY <1>0, <2>1, Naming DEF Fresh, Unsaved
  <2>3. Times'
    BY <1>0, <2>1, <2>2, TimesKept
  <2>4. edits'[r] = Null /\ \A q \in Requests \ {r} : edits'[q] = edits[q] /\ group'[q] = group[q]
    BY <2>1 DEF Forget
  <2>5. \A q \in Requests : Fresh(q)'
    BY <1>0, <2>1, <2>4, FreshSaved DEF Unsaved
  <2> QED
    BY <1>2, <2>1, <2>3, <2>5 DEF Records, NoRows
<1>3. ASSUME NEW r \in Requests, Finish(r), chat = "exists" PROVE Records'
  <2>1. /\ Saved(A(r), Null) /\ clock' = clock + 1 /\ batches' = batches /\ chat' = chat
        /\ phase[r] = "finish" /\ phase' = [phase EXCEPT ![r] = "leave"] /\ UNCHANGED <<edits, group>>
    BY <1>0, <1>3, FinishSaves DEF Finish, Go, turn
  <2>2. A(r) \in Messages \ Kept
    BY <1>0, <2>1, Naming DEF Fresh
  <2>3. Times'
    BY <1>0, <2>1, <2>2, TimesKept
  <2>4. /\ Kept' = Kept \union {A(r)} /\ row'[A(r)].group = Null
        /\ \A m \in Kept : row'[m] = row[m] \/ m = A(r)
    BY <2>1, KeptAfter, Naming DEF Saved, Kept
  <2>5. ASSUME NEW q \in Requests PROVE Fresh(q)'
    <3>1. phase'[r] = "leave" /\ \A p \in Requests \ {r} : phase'[p] = phase[p]
      BY <1>0, <2>1 DEF TypeOK
    <3>2. /\ U(q) # A(r) /\ q # Null /\ (q # r => A(q) # A(r)) /\ group[q] \in Requests
          /\ phase'[q] \in Unsaved <=> phase[q] \in Unsaved
          /\ phase'[group[q]] \in Unsaved <=> phase[group[q]] \in Unsaved
      BY <1>0, <2>1, <3>1, Naming, RequestNumbers DEF TypeOK, Unsaved
    <3> QED
      BY <1>0, <2>1, <2>4, <3>1, <3>2 DEF Fresh, Unsaved
  <2> QED
    BY <1>3, <2>1, <2>3, <2>5 DEF Records, NoRows
<1>4. ASSUME NEW r \in Requests, NEW q \in Requests, Edit(r, q) PROVE Records'
  <2>1. /\ U(q) \in Kept /\ phase[r] = "idle" /\ phase' = [phase EXCEPT ![r] = "supersede"]
        /\ edits' = [edits EXCEPT ![r] = q] /\ group' = [group EXCEPT ![r] = row[U(q)].group]
        /\ UNCHANGED <<row, clock, batches, chat>>
    BY <1>4 DEF Edit, MayStart, Go, thread, Active, U, VersionGroup
  <2>2. Times' /\ NoRows'
    BY <1>0, <2>1, TimesKept DEF NoRows, Kept
  <2>3. row[U(q)].group \in Requests /\ phase[row[U(q)].group] \notin Unsaved
    BY <1>0, <2>1 DEF TypeInv, Grouped, Fresh
  <2>4. ASSUME NEW p \in Requests PROVE Fresh(p)'
    <3>1. /\ phase'[r] = "supersede" /\ edits'[r] = q /\ group'[r] = row[U(q)].group /\ q # Null
          /\ \A s \in Requests \ {r} : /\ phase'[s] = phase[s]
                                       /\ edits'[s] = edits[s] /\ group'[s] = group[s]
          /\ group[p] \in Requests
      BY <1>0, <2>1, RequestNumbers DEF TypeOK
    <3>2. Kept' = Kept /\ row' = row
      BY <2>1 DEF Kept
    <3>3. CASE p = r
      BY <1>0, <2>1, <2>3, <3>1, <3>2, <3>3 DEF Fresh, Unsaved
    <3>4. CASE p # r
      BY <1>0, <2>1, <3>1, <3>2, <3>4 DEF Fresh, Unsaved
    <3> QED
      BY <3>3, <3>4
  <2> QED
    BY <2>2, <2>4 DEF Records
<1>5. ASSUME NEW r \in Requests, Send(r) \/ Load(r) \/ DisposeAgent(r) \/ Register(r) \/ EndRun(r) \/ Leave(r)
                \/ (Finish(r) /\ chat # "exists")
      PROVE  Records'
  <2>1. UNCHANGED <<row, clock, batches, chat, edits, group>>
    BY <1>0, <1>5, FinishSaves DEF Send, Load, DisposeAgent, Register, EndRun, Leave, Finish, thread, turn
  <2>2. PICK to \in Phases : /\ phase' = [phase EXCEPT ![r] = to] /\ to \notin {"idle", "supersede"}
                             /\ to \in Unsaved => phase[r] \in Unsaved
                             /\ to \notin {"leave", "over"} => phase[r] \notin {"leave", "over"}
    BY <1>5 DEF Send, MayStart, Load, DisposeAgent, Register, EndRun, Leave, Finish, Go, Phases, Unsaved
  <2>3. Kept' = Kept
    BY <2>1 DEF Kept
  <2>4. Times' /\ NoRows'
    BY <1>0, <2>1, <2>3, TimesKept DEF NoRows
  <2>5. \A q \in Requests : Fresh(q)'
    BY <1>0, <2>1, <2>2, <2>3, FreshKept DEF TypeOK
  <2> QED
    BY <2>4, <2>5 DEF Records
<1>6. ASSUME NEW r \in Requests, RequestFails(r) \/ (Insert(r) /\ chat # "exists") PROVE Records'
  <2>1. UNCHANGED <<row, clock, batches, chat>>
    BY <1>0, <1>6, InsertSaves DEF RequestFails, Insert, thread
  <2>2. PICK to \in {"leave", "over"} : phase' = [phase EXCEPT ![r] = to]
    BY <1>6 DEF RequestFails, Insert, Go
  <2>3. UNCHANGED <<edits, group>> \/ Forget({r})
    BY <1>6 DEF RequestFails, Insert, turn
  <2>4. \A q \in Requests : \/ edits'[q] = edits[q] /\ group'[q] = group[q]
                            \/ q = r /\ edits'[q] = Null /\ group'[q] = q
    BY <2>3 DEF Forget
  <2>5. Kept' = Kept
    BY <2>1 DEF Kept
  <2>6. Times' /\ NoRows'
    BY <1>0, <2>1, <2>5, TimesKept DEF NoRows
  <2>7. \A q \in Requests : Fresh(q)'
    BY <1>0, <2>1, <2>2, <2>4, <2>5, FreshKept DEF TypeOK, Unsaved
  <2> QED
    BY <2>6, <2>7 DEF Records
<1>7. ASSUME NEW r \in Requests, SupersedeMessagesFrom(r) PROVE Records'
  <2>1. /\ phase[r] = "supersede" /\ phase' = [phase EXCEPT ![r] = "insert"]
        /\ UNCHANGED <<chat, clock, edits, group>>
    BY <1>7 DEF SupersedeMessagesFrom, Go, turn
  <2>2. \/ row' = row /\ batches' = batches
        \/ (\E S, T : Marked(S, T)) /\ batches' = batches + 1
    BY <1>0, <1>7, SupersedeMarks
  <2>3. Kept' = Kept /\ \A m \in Kept : row'[m].group = row[m].group
    BY <2>2, KeptAfter DEF Kept, Marked
  <2>4. Times' /\ NoRows'
    BY <1>0, <2>1, <2>2, <2>3, TimesKept DEF NoRows
  <2>5. \A q \in Requests : Fresh(q)'
    BY <1>0, <2>1, <2>3, FreshKept DEF TypeOK, Unsaved
  <2> QED
    BY <2>4, <2>5 DEF Records
<1>8. ASSUME UNCHANGED <<clock, phase, edits, group>>,
             \/ row' = row /\ batches' = batches /\ chat' = chat
             \/ (\E S, T : Marked(S, T)) /\ batches' = batches + 1 /\ chat' = chat
             \/ (\E S : Deleted(S)) /\ batches' = batches /\ chat' = chat
             \/ Deleted(Messages) /\ batches' = batches
      PROVE  Records'
  <2>1. Kept' \subseteq Kept /\ \A m \in Kept' : row'[m].group = row[m].group
    BY <1>8, KeptAfter DEF Kept, Marked, Deleted
  <2>2. chat' = chat \/ Kept' = {}
    BY <1>8, KeptAfter DEF Kept
  <2>3. Times' /\ NoRows'
    BY <1>0, <1>8, <2>1, <2>2, TimesKept DEF NoRows
  <2>4. \A q \in Requests : Fresh(q)'
    BY <1>0, <1>8, <2>1, FreshKept DEF TypeOK
  <2> QED
    BY <2>3, <2>4 DEF Records
<1>9. ASSUME NEW k \in Cancels, Cancel(k) \/ Waited(k) \/ ReadTurn(k) PROVE Records'
  BY <1>8, <1>9 DEF Cancel, Waited, ReadTurn, thread, turn
<1>10. ASSUME NEW k \in Cancels, DeleteTurn(k) PROVE Records'
  <2>1. UNCHANGED <<clock, phase, edits, group, batches, chat>>
    BY <1>10 DEF DeleteTurn, turn
  <2> QED
    BY <1>0, <1>8, <1>10, <2>1, DeleteTurnDeletes
<1>11. ASSUME NEW k \in Cancels, DropChat(k) PROVE Records'
  BY <1>0, <1>8, <1>11, AllGone DEF DropChat, turn
<1>12. ASSUME NEW m \in Messages, SwitchMessageVersion(m) PROVE Records'
  <2>1. UNCHANGED <<clock, phase, edits, group, chat>>
    BY <1>12 DEF SwitchMessageVersion, turn
  <2> QED
    BY <1>0, <1>8, <1>12, <2>1, SwitchMarks
<1>13. CASE Stop \/ UNCHANGED vars
  BY <1>8, <1>13 DEF Stop, vars, thread, turn
<1>14. CASE DeleteChat
  BY <1>0, <1>8, <1>14, AllGone DEF DeleteChat, turn
<1>15. CASE Crash
  <2>1. /\ UNCHANGED <<row, clock, batches, chat>>
        /\ \A r \in Requests : /\ edits'[r] = Null /\ group'[r] = r /\ phase'[r] \in {"idle", "over"}
                               /\ phase'[r] = "idle" => phase[r] = "idle"
    BY <1>15 DEF Crash, thread, Forget
  <2>2. Kept' = Kept
    BY <2>1 DEF Kept
  <2>3. Times' /\ NoRows'
    BY <1>0, <2>1, <2>2, TimesKept DEF NoRows
  <2>4. \A q \in Requests : Fresh(q)'
    BY <1>0, <2>1, <2>2, FreshKept DEF Unsaved
  <2> QED
    BY <2>3, <2>4 DEF Records
<1> QED
  BY <1>1, <1>2, <1>3, <1>4, <1>5, <1>6, <1>7, <1>9, <1>10, <1>11, <1>12, <1>13, <1>14, <1>15
  DEF Next, Asking, Running, Cancelling
(***************************************************************************)
(* The thread                                                              *)
(*                                                                         *)
(* The versions of a message follow one message of the user, the same for  *)
(* all of them, or begin the chat: P[g] is the request whose message the   *)
(* version group g follows.  Superseding and restoring move a batch, and   *)
(* what keeps a thread whole is that the messages of the user of one       *)
(* batch, in the order of their times, each follow another of their batch, *)
(* but for the first.                                                      *)
(***************************************************************************)

Open == {"load", "dispose", "create", "run", "finish"}
Revising(r) == phase[r] = "insert" /\ edits[r] # Null
Forked(q) == \E x \in Requests : x # q /\ U(x) \in Kept /\ row[U(x)].group = row[U(q)].group

Follows == [Requests -> Requests \union {Null}]
Up(P, r) == P[row[U(r)].group]

\* An answer follows its question, and no other question comes between.
Turns ==
    \A q \in Requests :
        A(q) \in Kept =>
            /\ U(q) \in Kept /\ row[U(q)].at < row[A(q)].at
            /\ row[U(q)].superseded = row[A(q)].superseded
            /\ \A e \in Requests :
                  U(e) \in Kept => row[U(e)].at <= row[U(q)].at \/ row[A(q)].at < row[U(e)].at

\* A batch has one version of a message, and so has what is shown.
Versions ==
    \A q, r \in Requests :
        /\ U(q) \in Kept /\ U(r) \in Kept
        /\ row[U(q)].group = row[U(r)].group /\ row[U(q)].superseded = row[U(r)].superseded
        => q = r

\* What is shown follows what is shown.
ShownAfterShown(P) ==
    \A r \in Requests : U(r) \in Active => Up(P, r) = Null \/ U(Up(P, r)) \in Active

\* A message of a batch but the first follows another of it, none in between.
BatchesLinked(P) ==
    \A q, r \in Requests :
        /\ U(q) \in Kept /\ U(r) \in Kept
        /\ row[U(q)].superseded = row[U(r)].superseded /\ row[U(q)].at < row[U(r)].at
        => /\ Up(P, r) # Null /\ U(Up(P, r)) \in Kept
           /\ row[U(Up(P, r))].superseded = row[U(r)].superseded
           /\ row[U(q)].at <= row[U(Up(P, r))].at

\* What a message follows was there before it.
FollowsEarlier(P) ==
    \A r \in Requests :
        U(r) \in Kept /\ Up(P, r) # Null /\ U(Up(P, r)) \in Kept => row[U(Up(P, r))].at < row[U(r)].at

Shape(P) == Turns /\ Versions /\ ShownAfterShown(P) /\ BatchesLinked(P) /\ FollowsEarlier(P)

\* A request whose message is saved and whose answer is not is the last of its chat.
Standing ==
    \A r \in Requests :
        phase[r] \in Open /\ chat = "exists" =>
            U(r) \in Active /\ \A m \in Kept : row[m].at <= row[U(r)].at

\* The message of p is the last that is shown, and Null stands for none.
Continues(p) ==
    /\ p = Null \/ U(p) \in Active
    /\ \A x \in Requests : U(x) \in Active => p # Null /\ row[U(x)].at <= row[U(p)].at

\* An edit continues where the message it edits did.
Pending(P) ==
    \A r \in Requests :
        chat = "exists" =>
            /\ phase[r] = "supersede" => U(edits[r]) \in Active /\ group[r] = row[U(edits[r])].group
            /\ Revising(r) =>
                  /\ edits[r] \in Requests /\ U(edits[r]) \in Kept /\ group[r] = row[U(edits[r])].group
                  /\ Continues(P[group[r]])

\* A cancel that has read the last turn knows it still.
Tallied(k) ==
    cancel[k].phase \in {"count", "drop"} =>
        /\ \A m \in cancel[k].doomed : m \in Kept => m \in Active
        /\ \A q \in Requests : A(q) \in cancel[k].doomed /\ A(q) \in Kept => ~row[A(q)].text
        /\ \A q \in Requests :
              U(q) \in cancel[k].doomed /\ U(q) \in Kept =>
                  /\ A(q) \in Kept => A(q) \in cancel[k].doomed
                  /\ \A x \in Requests : U(x) \in Active => row[U(x)].at <= row[U(q)].at
                  /\ ~Forked(q)
        /\ cancel[k].phase = "drop" => Active \subseteq cancel[k].doomed

\* What is superseded can be found again, from what is shown.
Found ==
    ~interrupted =>
        /\ \A m \in Kept \ Active : \E n \in Requests :
              /\ U(n) \in Kept /\ row[U(n)].superseded = row[m].superseded
              /\ Forked(n) \/ \E r \in Requests : Revising(r) /\ row[U(n)].group = group[r]
        /\ (\A r \in Requests : ~Revising(r)) /\ Kept # Active =>
              \E n \in Requests : U(n) \in Active /\ Forked(n)

Known(P) == \A g \in Requests : P[g] # Null => phase[P[g]] \notin Unsaved

Thread(P) ==
    /\ Shape(P) /\ Known(P)
    /\ Standing /\ Pending(P) /\ (\A k \in Cancels : Tallied(k)) /\ Found

ThreadInv == client = "patient" => \E P \in Follows : Thread(P)

\* What the rows are, in the terms of the thread.
LEMMA KeptRows ==
    ASSUME TypeInv, Times
    PROVE  /\ \A m \in Kept : /\ m \in Messages /\ row[m].at \in Nat /\ row[m].superseded \in Nat
                              /\ row[m].at <= clock /\ row[m].superseded <= batches
                              /\ m \in Active <=> row[m].superseded = 0
           /\ Active \subseteq Kept /\ clock \in Nat /\ batches \in Nat
           /\ \A r \in Requests : U(r) \in Kept => row[U(r)].group \in Requests
           /\ \A m, n \in Kept : row[m].at = row[n].at => m = n
BY RowFields DEF TypeInv, TypeOK, Rows, Times, Active, Grouped

\* Without a chat there is no thread.
LEMMA NoThread ==
    ASSUME Kept = {}, chat # "exists", NEW P, Known(P) PROVE Thread(P)
BY DEF Thread, Shape, Turns, Versions, ShownAfterShown, BatchesLinked, FollowsEarlier, Standing,
       Pending, Tallied, Found, Active

LEMMA InitThread == Init => ThreadInv
<1> DEFINE P == [g \in Requests |-> Null]
<1> SUFFICES ASSUME Init PROVE P \in Follows /\ Thread(P)
  BY DEF ThreadInv
<1>1. Kept = {} /\ chat # "exists" /\ Known(P)
  BY DEF Init, Kept, Known
<1> QED
  BY <1>1, NoThread DEF Follows

\* A message of the user is saved: it follows what is shown.
LEMMA ShapeAsked ==
    ASSUME TypeInv, Times, NEW P \in Follows, Shape(P),
           NEW r \in Requests, U(r) \notin Kept, A(r) \notin Kept,
           \A g \in Requests : P[g] # r,
           NEW g \in Requests, Saved(U(r), g),
           NEW Q \in Follows, Continues(Q[g]),
           \A x \in Requests : U(x) \in Kept => Q[row[U(x)].group] = P[row[U(x)].group]
    PROVE  Shape(Q)'
<1> DEFINE p == Q[g]
<1>0. /\ p = Null \/ U(p) \in Active
      /\ \A x \in Requests : U(x) \in Active => p # Null /\ row[U(x)].at <= row[U(p)].at
  BY DEF Continues
<1>1. /\ Kept' = Kept \union {U(r)} /\ row'[U(r)].group = g /\ row'[U(r)].at = clock + 1
      /\ row'[U(r)].superseded = 0
      /\ \A m \in Kept : row'[m] = row[m] /\ m # U(r) /\ m \in Messages
      /\ Active' = Active \union {U(r)}
  <2>1. Kept' = Kept \union {U(r)}
    BY KeptAfter, Naming
  <2> QED
    BY <2>1 DEF Saved, Kept, Active
<1>2. \A x \in Requests : U(x) \in Kept => /\ x # r /\ row'[U(x)] = row[U(x)] /\ Up(Q, x)' = Up(P, x)
                                           /\ Up(P, x) # r /\ row[U(x)].group \in Requests
  BY <1>1, KeptRows DEF Up
<1>3. Up(Q, r)' = p /\ p # r
  <2>1. p # r
    BY <1>0, RequestNumbers DEF TypeInv, TypeOK, Active
  <2> QED
    BY <1>1, <2>1 DEF Up
<1>4. \A x \in Requests : U(x) \in Kept' => x = r \/ U(x) \in Kept
  BY <1>1, Naming
<1>5. Turns'
  <2> SUFFICES ASSUME NEW q \in Requests, A(q) \in Kept'
               PROVE  /\ U(q) \in Kept' /\ row'[U(q)].at < row'[A(q)].at
                      /\ row'[U(q)].superseded = row'[A(q)].superseded
                      /\ \A e \in Requests :
                            U(e) \in Kept' => row'[U(e)].at <= row'[U(q)].at \/ row'[A(q)].at < row'[U(e)].at
    BY DEF Turns
  <2>1. A(q) \in Kept /\ row'[A(q)] = row[A(q)] /\ row[A(q)].at <= clock /\ row[A(q)].at \in Nat
    BY <1>1, Naming, KeptRows
  <2>2. U(q) \in Kept /\ row'[U(q)] = row[U(q)]
    BY <1>1, <2>1 DEF Shape, Turns
  <2>3. clock \in Nat
    BY KeptRows
  <2> QED
    BY <1>1, <1>4, <2>1, <2>2, <2>3 DEF Shape, Turns
<1>6. Versions'
  <2>1. ASSUME NEW x \in Requests, U(x) \in Kept, row[U(x)].group = g, U(x) \in Active PROVE FALSE
    <3>1. Up(P, x) = p /\ p # Null /\ row[U(x)].at <= row[U(p)].at /\ U(p) \in Kept
      BY <1>0, <1>2, <2>1 DEF Up, Active
    <3>2. row[U(p)].at < row[U(x)].at
      BY <2>1, <3>1 DEF Shape, FollowsEarlier
    <3> QED
      BY <2>1, <3>1, <3>2, KeptRows
  <2> QED
    BY <1>1, <1>2, <1>4, <2>1, KeptRows DEF Shape, Versions
<1>7. ShownAfterShown(Q)'
  BY <1>0, <1>1, <1>2, <1>3, <1>4, KeptRows DEF Shape, ShownAfterShown
<1>8. BatchesLinked(Q)'
  <2> SUFFICES ASSUME NEW x \in Requests, NEW y \in Requests, U(x) \in Kept', U(y) \in Kept',
                      row'[U(x)].superseded = row'[U(y)].superseded, row'[U(x)].at < row'[U(y)].at
               PROVE  /\ Up(Q, y)' # Null /\ U(Up(Q, y)') \in Kept'
                      /\ row'[U(Up(Q, y)')].superseded = row'[U(y)].superseded
                      /\ row'[U(x)].at <= row'[U(Up(Q, y)')].at
    BY DEF BatchesLinked
  <2>1. CASE y = r
    <3>1. U(x) \in Active /\ row'[U(x)] = row[U(x)]
      BY <1>1, <1>2, <1>4, <2>1, KeptRows
    <3>2. p # Null /\ row[U(x)].at <= row[U(p)].at /\ U(p) \in Kept /\ U(p) \in Active
      BY <1>0, <3>1, KeptRows
    <3> QED
      BY <1>1, <1>3, <2>1, <3>1, <3>2, KeptRows
  <2>2. CASE y # r
    <3>1. U(y) \in Kept /\ row'[U(y)] = row[U(y)] /\ row[U(y)].at <= clock /\ row[U(y)].at \in Nat
      BY <1>2, <1>4, <2>2, KeptRows
    <3>2. U(x) \in Kept /\ row'[U(x)] = row[U(x)]
      BY <1>1, <1>2, <1>4, <3>1, KeptRows
    <3>3. /\ Up(P, y) # Null /\ U(Up(P, y)) \in Kept
          /\ row[U(Up(P, y))].superseded = row[U(y)].superseded
          /\ row[U(x)].at <= row[U(Up(P, y))].at
      BY <3>1, <3>2 DEF Shape, BatchesLinked
    <3> QED
      BY <1>1, <1>2, <3>1, <3>2, <3>3
  <2> QED
    BY <2>1, <2>2
<1>9. FollowsEarlier(Q)'
  <2> SUFFICES ASSUME NEW x \in Requests, U(x) \in Kept', Up(Q, x)' # Null, U(Up(Q, x)') \in Kept'
               PROVE  row'[U(Up(Q, x)')].at < row'[U(x)].at
    BY DEF FollowsEarlier
  <2>1. CASE x = r
    BY <1>0, <1>1, <1>3, <2>1, KeptRows
  <2>2. CASE x # r
    <3>1. U(x) \in Kept /\ Up(P, x) \in Requests \union {Null}
      BY <1>2, <1>4, <2>2 DEF Up, Follows
    <3>2. U(Up(P, x)) \in Kept
      BY <1>2, <1>4, <3>1
    <3> QED
      BY <1>1, <1>2, <3>1, <3>2 DEF Shape, FollowsEarlier
  <2> QED
    BY <2>1, <2>2
<1> QED
  BY <1>5, <1>6, <1>7, <1>8, <1>9 DEF Shape

\* An answer is saved, after its question.
LEMMA ShapeAnswered ==
    ASSUME TypeInv, Times, NEW P \in Follows, Shape(P),
           NEW r \in Requests, A(r) \notin Kept, Saved(A(r), Null),
           U(r) \in Active, \A m \in Kept : row[m].at <= row[U(r)].at
    PROVE  Shape(P)'
<1>1. /\ Kept' = Kept \union {A(r)} /\ row'[A(r)].at = clock + 1 /\ row'[A(r)].superseded = 0
      /\ \A m \in Kept : row'[m] = row[m] /\ m # A(r) /\ m \in Messages
      /\ Active' = Active \union {A(r)}
  <2>1. Kept' = Kept \union {A(r)}
    BY KeptAfter, Naming
  <2> QED
    BY <2>1 DEF Saved, Kept, Active
<1>2. \A x \in Requests : /\ U(x) \in Kept' <=> U(x) \in Kept
                          /\ U(x) \in Active' <=> U(x) \in Active
                          /\ U(x) \in Kept => row'[U(x)] = row[U(x)]
  BY <1>1, Naming
<1>3. Turns'
  <2> SUFFICES ASSUME NEW q \in Requests, A(q) \in Kept'
               PROVE  /\ U(q) \in Kept' /\ row'[U(q)].at < row'[A(q)].at
                      /\ row'[U(q)].superseded = row'[A(q)].superseded
                      /\ \A e \in Requests :
                            U(e) \in Kept' => row'[U(e)].at <= row'[U(q)].at \/ row'[A(q)].at < row'[U(e)].at
    BY DEF Turns
  <2>1. CASE q = r
    BY <1>1, <1>2, <2>1, KeptRows
  <2>2. CASE q # r
    <3>1. A(q) \in Kept /\ row'[A(q)] = row[A(q)]
      BY <1>1, <2>2, Naming
    <3> QED
      BY <1>1, <1>2, <3>1 DEF Shape, Turns
  <2> QED
    BY <2>1, <2>2
<1>4. \A x \in Requests : U(x) \in Kept => Up(P, x)' = Up(P, x) /\ Up(P, x) \in Requests \union {Null}
  BY <1>2, KeptRows DEF Up, Follows
<1>5. Versions'
  BY <1>2 DEF Shape, Versions
<1>6. ShownAfterShown(P)'
  BY <1>2, <1>4, KeptRows DEF Shape, ShownAfterShown
<1>7. BatchesLinked(P)'
  BY <1>2, <1>4 DEF Shape, BatchesLinked
<1>8. FollowsEarlier(P)'
  BY <1>2, <1>4 DEF Shape, FollowsEarlier
<1> QED
  BY <1>3, <1>5, <1>6, <1>7, <1>8 DEF Shape

\* What is shown from one of its messages on becomes a batch.
LEMMA ShapeSuperseded ==
    ASSUME TypeInv, Times, NEW P \in Follows, Shape(P),
           NEW e \in Requests, U(e) \in Active, Marked(From(row[U(e)].at), {}), batches' = batches + 1
    PROVE  Shape(P)'
<1> DEFINE f == row[U(e)].at
           Hidden(m) == row[m].superseded = 0 /\ f <= row[m].at
<1>1. /\ Kept' = Kept /\ f \in Nat
      /\ \A m \in Kept : /\ row'[m].at = row[m].at /\ row'[m].group = row[m].group
                         /\ row[m].at \in Nat /\ row[m].superseded \in Nat
                         /\ row[m].superseded < batches + 1
                         /\ Hidden(m) => row'[m].superseded = batches + 1
                         /\ ~Hidden(m) => row'[m].superseded = row[m].superseded
                         /\ m \in Active <=> row[m].superseded = 0
  <2>1. \A m \in Kept : m \in From(f) <=> Hidden(m)
    BY DEF From, Active
  <2>2. U(e) \in Kept
    BY KeptRows
  <2>3. Kept' = Kept
    BY KeptAfter
  <2> QED
    BY <2>1, <2>2, <2>3, KeptRows DEF Marked
<1>2. \A m \in Kept : m \in Active' <=> m \in Active /\ ~Hidden(m)
  BY <1>1 DEF Active
<1>3. \A x \in Requests : U(x) \in Kept => Up(P, x)' = Up(P, x) /\ Up(P, x) \in Requests \union {Null}
  BY <1>1, KeptRows DEF Up, Follows
<1>4. \A m, n \in Kept : row'[m].superseded = row'[n].superseded =>
                            row[m].superseded = row[n].superseded /\ (Hidden(m) <=> Hidden(n))
  BY <1>1
<1> HIDE DEF Hidden
<1>5. Turns'
  <2> SUFFICES ASSUME NEW q \in Requests, A(q) \in Kept
               PROVE  /\ U(q) \in Kept /\ row'[U(q)].at < row'[A(q)].at
                      /\ row'[U(q)].superseded = row'[A(q)].superseded
                      /\ \A x \in Requests :
                            U(x) \in Kept => row'[U(x)].at <= row'[U(q)].at \/ row'[A(q)].at < row'[U(x)].at
    BY <1>1 DEF Turns
  <2>1. /\ U(q) \in Kept /\ row[U(q)].at < row[A(q)].at
        /\ row[U(q)].superseded = row[A(q)].superseded
        /\ \A x \in Requests :
              U(x) \in Kept => row[U(x)].at <= row[U(q)].at \/ row[A(q)].at < row[U(x)].at
    BY DEF Shape, Turns
  <2>2. Hidden(U(q)) <=> Hidden(A(q))
    BY <1>1, <2>1 DEF Hidden, Active
  <2> QED
    BY <1>1, <2>1, <2>2
<1>6. Versions'
  BY <1>1, <1>4 DEF Shape, Versions
<1>7. ShownAfterShown(P)'
  <2> SUFFICES ASSUME NEW x \in Requests, U(x) \in Active', Up(P, x) # Null
               PROVE  U(Up(P, x)) \in Active'
    BY <1>1, <1>3 DEF ShownAfterShown, Active
  <2>1. U(x) \in Active /\ U(x) \in Kept /\ ~Hidden(U(x))
    BY <1>1, <1>2 DEF Active
  <2>2. Up(P, x) \in Requests /\ U(Up(P, x)) \in Active /\ U(Up(P, x)) \in Kept
    BY <1>3, <2>1, KeptRows DEF Shape, ShownAfterShown
  <2>3. row[U(Up(P, x))].at < row[U(x)].at
    BY <2>1, <2>2 DEF Shape, FollowsEarlier
  <2> QED
    BY <1>1, <1>2, <2>1, <2>2, <2>3 DEF Hidden
<1>8. BatchesLinked(P)'
  <2> SUFFICES ASSUME NEW x \in Requests, NEW y \in Requests, U(x) \in Kept, U(y) \in Kept,
                      row'[U(x)].superseded = row'[U(y)].superseded, row[U(x)].at < row[U(y)].at
               PROVE  /\ Up(P, y) # Null /\ U(Up(P, y)) \in Kept
                      /\ row'[U(Up(P, y))].superseded = row'[U(y)].superseded
                      /\ row[U(x)].at <= row'[U(Up(P, y))].at
    BY <1>1, <1>3 DEF BatchesLinked
  <2>1. row[U(x)].superseded = row[U(y)].superseded /\ (Hidden(U(x)) <=> Hidden(U(y)))
    BY <1>4
  <2>2. /\ Up(P, y) # Null /\ U(Up(P, y)) \in Kept
        /\ row[U(Up(P, y))].superseded = row[U(y)].superseded
        /\ row[U(x)].at <= row[U(Up(P, y))].at
    BY <2>1 DEF Shape, BatchesLinked
  <2>3. row[U(Up(P, y))].at < row[U(y)].at
    BY <2>2 DEF Shape, FollowsEarlier
  <2>4. Hidden(U(Up(P, y))) <=> Hidden(U(y))
    BY <1>1, <2>1, <2>2, <2>3 DEF Hidden
  <2> QED
    BY <1>1, <2>2, <2>4
<1>9. FollowsEarlier(P)'
  BY <1>1, <1>3 DEF Shape, FollowsEarlier
<1> QED
  BY <1>5, <1>6, <1>7, <1>8, <1>9 DEF Shape

\* What a switch finds: the message is of the user, another version of it is shown,
\* its batch begins with it, and all of its versions come after what they follow.
LEMMA SwitchedFrom ==
    ASSUME TypeInv, Times, NEW P \in Follows, Shape(P), NEW m \in Messages, Offered(m)
    PROVE  \E s, a \in Requests :
              /\ m = U(s) /\ U(s) \in Kept \ Active
              /\ U(a) \in Active /\ row[U(a)].group = row[U(s)].group
              /\ ForkPoint(m) \in Nat /\ ForkPoint(m) <= row[U(s)].at /\ ForkPoint(m) <= row[U(a)].at
              /\ \A x \in Requests : U(x) \in Kept /\ row[U(x)].group = row[U(s)].group => ForkPoint(m) <= row[U(x)].at
              /\ \E v \in Requests : U(v) \in Kept /\ row[U(v)].at = ForkPoint(m)
              /\ Up(P, s) = Null \/ (U(Up(P, s)) \in Active /\ row[U(Up(P, s))].at < ForkPoint(m))
              /\ \A x \in Requests :
                    U(x) \in Kept /\ row[U(x)].superseded = row[U(s)].superseded => row[U(s)].at <= row[U(x)].at
              /\ \A x \in Requests :
                    U(x) \in Active /\ row[U(x)].at < ForkPoint(m) =>
                        Up(P, s) # Null /\ row[U(x)].at <= row[U(Up(P, s))].at
<1> DEFINE g == row[m].group
           f == ForkPoint(m)
           V == {x \in Requests : U(x) \in Kept /\ row[U(x)].group = g}
<1>1. m \in Kept /\ m \notin Active /\ g # Null /\ Version(g) \intersect Active # {}
  BY DEF Offered
<1>2. ASSUME NEW n \in Version(g) PROVE \E x \in V : n = U(x)
  <2>1. n \in Kept /\ n \in Messages /\ row[n].group = g
    BY DEF Version, Kept
  <2>2. n[1] = "user"
    BY <1>1, <2>1, Naming DEF TypeInv, Grouped
  <2> QED
    BY <2>1, <2>2, Naming
<1>3. m \in Version(g)
  BY <1>1 DEF Version
<1>4. PICK s \in V : m = U(s)
  BY <1>2, <1>3
<1>5. PICK a \in V : U(a) \in Active
  BY <1>1, <1>2
<1>6. \A x \in V : U(x) \in Version(g)
  BY DEF Version
<1>7. /\ f \in Nat /\ \A x \in V : f <= row[U(x)].at
      /\ \E v \in V : row[U(v)].at = f
  <2> DEFINE T == {row[n].at : n \in Version(g)}
  <2>1. T \in SUBSET Nat /\ T # {}
    BY <1>3, KeptRows DEF Version
  <2>2. f = Min(T)
    BY DEF ForkPoint
  <2>3. Min(T) \in T /\ \A t \in T : Min(T) <= t
    <3> HIDE DEF T
    <3> QED
      BY <2>1, MinIsLeast
  <2>4. PICK n \in Version(g) : row[n].at = f
    BY <2>2, <2>3
  <2>5. \E v \in V : row[U(v)].at = f
    BY <1>2, <2>4
  <2>6. f \in Nat
    BY <2>1, <2>2, <2>3
  <2>7. \A x \in V : f <= row[U(x)].at
    BY <1>6, <2>2, <2>3
  <2> QED
    BY <2>5, <2>6, <2>7
<1>8. \A x \in V : Up(P, x) = P[g]
  BY DEF Up
<1>9. P[g] = Null \/ U(P[g]) \in Active
  BY <1>5, <1>8 DEF Shape, ShownAfterShown
<1>10. P[g] \in Requests \union {Null}
  BY <1>4, KeptRows DEF Follows
<1>11. P[g] # Null => U(P[g]) \in Kept /\ row[U(P[g])].superseded = 0 /\ \A x \in V : row[U(P[g])].at < row[U(x)].at
  <2> SUFFICES ASSUME P[g] # Null
               PROVE  U(P[g]) \in Kept /\ row[U(P[g])].superseded = 0 /\ \A x \in V : row[U(P[g])].at < row[U(x)].at
    OBVIOUS
  <2>1. U(P[g]) \in Kept /\ row[U(P[g])].superseded = 0
    BY <1>9, KeptRows
  <2>2. \A x \in V : row[U(P[g])].at < row[U(x)].at
    BY <1>8, <2>1 DEF Shape, FollowsEarlier
  <2> QED
    BY <2>1, <2>2
<1>12. row[U(s)].superseded # 0
  BY <1>1, <1>4, KeptRows
<1>13. ASSUME NEW x \in Requests, U(x) \in Kept, row[U(x)].superseded = row[U(s)].superseded
       PROVE  row[U(s)].at <= row[U(x)].at
  <2> SUFFICES ASSUME row[U(x)].at < row[U(s)].at PROVE FALSE
    BY <1>13, <1>4, KeptRows
  <2>1. Up(P, s) # Null /\ row[U(Up(P, s))].superseded = row[U(s)].superseded
    BY <1>13 DEF Shape, BatchesLinked
  <2> QED
    BY <1>8, <1>11, <1>12, <2>1
<1>14. ASSUME NEW x \in Requests, U(x) \in Active, row[U(x)].at < f
       PROVE  Up(P, s) # Null /\ row[U(x)].at <= row[U(Up(P, s))].at
  <2>1. U(x) \in Kept /\ row[U(x)].superseded = row[U(a)].superseded /\ row[U(x)].at < row[U(a)].at
    BY <1>5, <1>7, <1>14, KeptRows
  <2>2. Up(P, a) # Null /\ row[U(x)].at <= row[U(Up(P, a))].at
    BY <2>1 DEF Shape, BatchesLinked
  <2> QED
    BY <1>8, <2>2
<1> HIDE DEF f
<1>15. Up(P, s) = Null \/ (U(Up(P, s)) \in Active /\ row[U(Up(P, s))].at < f)
  BY <1>7, <1>8, <1>9, <1>11
<1>16. U(s) \in Kept \ Active /\ row[U(s)].group = g
  BY <1>1, <1>4
<1>17. \A x \in Requests : U(x) \in Kept /\ row[U(x)].group = row[U(s)].group => f <= row[U(x)].at
  BY <1>7, <1>16
<1>18. f <= row[U(s)].at /\ f <= row[U(a)].at /\ f \in Nat /\ \E v \in Requests : U(v) \in Kept /\ row[U(v)].at = f
  BY <1>7
<1> HIDE DEF g
<1> QED
  BY <1>4, <1>5, <1>13, <1>14, <1>15, <1>16, <1>17, <1>18 DEF f

\* A switch shows a batch in the place of what followed the version shown.
LEMMA ShapeSwitched ==
    ASSUME TypeInv, Times, NEW P \in Follows, Shape(P), NEW m \in Messages, Offered(m),
           Marked(From(ForkPoint(m)), Batch(m)), batches' = batches + 1
    PROVE  Shape(P)'
<1>0. PICK s \in Requests, a \in Requests :
              /\ m = U(s) /\ U(s) \in Kept \ Active
              /\ U(a) \in Active /\ row[U(a)].group = row[U(s)].group
              /\ ForkPoint(m) \in Nat /\ ForkPoint(m) <= row[U(s)].at /\ ForkPoint(m) <= row[U(a)].at
              /\ \A x \in Requests : U(x) \in Kept /\ row[U(x)].group = row[U(s)].group => ForkPoint(m) <= row[U(x)].at
              /\ \E v \in Requests : U(v) \in Kept /\ row[U(v)].at = ForkPoint(m)
              /\ Up(P, s) = Null \/ (U(Up(P, s)) \in Active /\ row[U(Up(P, s))].at < ForkPoint(m))
              /\ \A x \in Requests :
                    U(x) \in Kept /\ row[U(x)].superseded = row[U(s)].superseded => row[U(s)].at <= row[U(x)].at
              /\ \A x \in Requests :
                    U(x) \in Active /\ row[U(x)].at < ForkPoint(m) =>
                        Up(P, s) # Null /\ row[U(x)].at <= row[U(Up(P, s))].at
  BY SwitchedFrom
<1> DEFINE f == ForkPoint(m)
           Hidden(n) == row[n].superseded = 0 /\ f <= row[n].at
           Stays(n) == row[n].superseded = 0 /\ row[n].at < f
           Comes(n) == row[n].superseded = row[m].superseded
<1>1. /\ Kept' = Kept /\ f \in Nat /\ row[m].superseded # 0
      /\ \A n \in Kept : /\ row'[n].at = row[n].at /\ row'[n].group = row[n].group
                         /\ row[n].at \in Nat /\ row[n].superseded \in Nat
                         /\ row[n].superseded < batches + 1
                         /\ Hidden(n) => row'[n].superseded = batches + 1
                         /\ Comes(n) => row'[n].superseded = 0
                         /\ ~Hidden(n) /\ ~Comes(n) => row'[n].superseded = row[n].superseded
                         /\ n \in Active <=> row[n].superseded = 0
                         /\ n \in Active <=> Hidden(n) \/ Stays(n)
  <2>1. \A n \in Kept : (n \in From(f) <=> Hidden(n)) /\ (n \in Batch(m) <=> Comes(n))
    BY DEF From, Active, Batch
  <2>2. row[m].superseded # 0
    BY <1>0, KeptRows
  <2>3. Kept' = Kept /\ f \in Nat
    BY <1>0, KeptAfter
  <2>4. \A n \in Kept : /\ row'[n].at = row[n].at /\ row'[n].group = row[n].group
                        /\ n \in From(f) => row'[n].superseded = batches + 1
                        /\ n \in Batch(m) \ From(f) => row'[n].superseded = 0
                        /\ n \notin Batch(m) \union From(f) => row'[n].superseded = row[n].superseded
    BY DEF Marked
  <2>5. \A n \in Kept : ~(Hidden(n) /\ Comes(n))
    BY <2>2
  <2> QED
    BY <2>1, <2>2, <2>3, <2>4, <2>5, KeptRows
<1>2. \A n \in Kept : n \in Active' <=> Stays(n) \/ Comes(n)
  BY <1>1 DEF Active
<1>3. \A x \in Requests : U(x) \in Kept => Up(P, x)' = Up(P, x) /\ Up(P, x) \in Requests \union {Null}
  BY <1>1, KeptRows DEF Up, Follows
<1>4. \A x \in Requests : Comes(U(x)) /\ U(x) \in Kept => row[U(s)].at <= row[U(x)].at /\ f <= row[U(x)].at
  BY <1>0, <1>1
\* What is behind a message of the batch but its first is of the batch.
<1>5. ASSUME NEW x \in Requests, U(x) \in Kept, Comes(U(x)), x # s
      PROVE  /\ row[U(s)].at < row[U(x)].at /\ Up(P, x) # Null /\ U(Up(P, x)) \in Kept
             /\ Comes(U(Up(P, x))) /\ row[U(s)].at <= row[U(Up(P, x))].at
  <2>1. U(x) # U(s)
    BY <1>5, Naming
  <2>2. row[U(s)].at < row[U(x)].at
    BY <1>0, <1>1, <1>4, <1>5, <2>1, KeptRows
  <2> QED
    BY <1>0, <1>5, <2>2 DEF Shape, BatchesLinked
<1>6. \A x, y \in Kept : row'[x].superseded = row'[y].superseded =>
         \/ row[x].superseded = row[y].superseded /\ (Hidden(x) <=> Hidden(y))
         \/ Stays(x) /\ Comes(y)
         \/ Comes(x) /\ Stays(y)
  BY <1>1
<1>7. \A x \in Kept : (Stays(x) <=> x \in Active /\ row[x].at < f) /\ (Hidden(x) <=> x \in Active /\ f <= row[x].at)
  BY <1>1
<1>8. \A x, y \in Kept : row[x].superseded = row[y].superseded /\ (Hidden(x) <=> Hidden(y))
                            => row'[x].superseded = row'[y].superseded
  BY <1>1
<1>9. \A x, y \in Kept : (Stays(x) \/ Comes(x)) /\ (Stays(y) \/ Comes(y)) => row'[x].superseded = row'[y].superseded
  BY <1>1
<1>10. \A x \in Kept : row[x].at \in Nat
  BY <1>1
<1>11. \A x, y \in Kept : row[x].superseded = row[y].superseded => (Comes(x) <=> Comes(y)) /\ (x \in Active <=> y \in Active)
  BY <1>1
<1> HIDE DEF Hidden, Stays, Comes, f
<1>12. Turns'
  <2> SUFFICES ASSUME NEW q \in Requests, A(q) \in Kept
               PROVE  /\ U(q) \in Kept /\ row'[U(q)].at < row'[A(q)].at
                      /\ row'[U(q)].superseded = row'[A(q)].superseded
                      /\ \A x \in Requests :
                            U(x) \in Kept => row'[U(x)].at <= row'[U(q)].at \/ row'[A(q)].at < row'[U(x)].at
    BY <1>1 DEF Turns
  <2>1. /\ U(q) \in Kept /\ row[U(q)].at < row[A(q)].at
        /\ row[U(q)].superseded = row[A(q)].superseded
        /\ \A x \in Requests :
              U(x) \in Kept => row[U(x)].at <= row[U(q)].at \/ row[A(q)].at < row[U(x)].at
    BY DEF Shape, Turns
  <2>2. PICK v \in Requests : U(v) \in Kept /\ row[U(v)].at = f
    BY <1>0 DEF f
  <2>3. f <= row[U(q)].at \/ row[A(q)].at < f
    BY <2>1, <2>2
  <2>4. Hidden(U(q)) <=> Hidden(A(q))
    BY <1>7, <1>10, <1>11, <2>1, <2>2, <2>3
  <2>5. row'[U(q)].superseded = row'[A(q)].superseded
    BY <1>8, <2>1, <2>4
  <2>6. \A x \in Kept : row'[x].at = row[x].at
    BY <1>1
  <2> QED
    BY <2>1, <2>5, <2>6
<1>13. ASSUME NEW x \in Requests, NEW y \in Requests, U(x) \in Kept, U(y) \in Kept,
              row[U(x)].group = row[U(y)].group, Stays(U(x)), Comes(U(y))
       PROVE  FALSE
  <2>1. CASE y = s
    BY <1>0, <1>7, <1>10, <1>13, <2>1 DEF f
  <2>2. CASE y # s
    <3>1. Up(P, y) # Null /\ U(Up(P, y)) \in Kept /\ Comes(U(Up(P, y)))
      BY <1>5, <1>13, <2>2
    <3>2. U(Up(P, y)) \notin Active
      BY <1>0, <3>1, <1>11 DEF Comes
    <3>3. Up(P, x) = Up(P, y)
      BY <1>13 DEF Up
    <3> QED
      BY <1>7, <1>13, <3>1, <3>2, <3>3 DEF Shape, ShownAfterShown
  <2> QED
    BY <2>1, <2>2
<1>14. Versions'
  <2> SUFFICES ASSUME NEW q \in Requests, NEW r \in Requests, U(q) \in Kept, U(r) \in Kept,
                      row[U(q)].group = row[U(r)].group, row'[U(q)].superseded = row'[U(r)].superseded
               PROVE  q = r
    BY <1>1 DEF Versions
  <2> QED
    BY <1>6, <1>13 DEF Shape, Versions
\* What a message that is shown now follows is shown now.
<1>15. ASSUME NEW x \in Requests, U(x) \in Kept, Stays(U(x)), Up(P, x) # Null
       PROVE  U(Up(P, x)) \in Kept /\ Stays(U(Up(P, x)))
  <2>1. U(Up(P, x)) \in Active /\ U(Up(P, x)) \in Kept
    BY <1>7, <1>15, KeptRows DEF Shape, ShownAfterShown
  <2>2. row[U(Up(P, x))].at < row[U(x)].at
    BY <1>15, <2>1 DEF Shape, FollowsEarlier
  <2> QED
    BY <1>0, <1>7, <1>10, <1>15, <2>1, <2>2 DEF f
<1>16. ASSUME NEW x \in Requests, U(x) \in Kept, Comes(U(x)), Up(P, x) # Null
       PROVE  U(Up(P, x)) \in Kept /\ (Stays(U(Up(P, x))) \/ Comes(U(Up(P, x))))
  <2>1. CASE x = s
    BY <1>0, <1>7, <1>16, <2>1, KeptRows DEF f
  <2>2. CASE x # s
    BY <1>5, <1>16, <2>2
  <2> QED
    BY <2>1, <2>2
<1>17. ShownAfterShown(P)'
  <2> SUFFICES ASSUME NEW x \in Requests, U(x) \in Active', Up(P, x) # Null
               PROVE  U(Up(P, x)) \in Active'
    BY <1>1, <1>3 DEF ShownAfterShown, Active
  <2>1. U(x) \in Kept
    BY <1>1 DEF Active
  <2> QED
    BY <1>2, <1>15, <1>16, <2>1
<1>18. BatchesLinked(P)'
  <2> SUFFICES ASSUME NEW x \in Requests, NEW y \in Requests, U(x) \in Kept, U(y) \in Kept,
                      row'[U(x)].superseded = row'[U(y)].superseded, row[U(x)].at < row[U(y)].at
               PROVE  /\ Up(P, y) # Null /\ U(Up(P, y)) \in Kept
                      /\ row'[U(Up(P, y))].superseded = row'[U(y)].superseded
                      /\ row[U(x)].at <= row[U(Up(P, y))].at
    <3>1. \A n \in Kept : row'[n].at = row[n].at
      BY <1>1
    <3>2. Kept' = Kept
      BY <1>1
    <3> QED
      BY <1>3, <3>1, <3>2 DEF BatchesLinked
  <2>1. CASE row[U(x)].superseded = row[U(y)].superseded /\ (Hidden(U(x)) <=> Hidden(U(y)))
    <3>1. /\ Up(P, y) # Null /\ U(Up(P, y)) \in Kept
          /\ row[U(Up(P, y))].superseded = row[U(y)].superseded
          /\ row[U(x)].at <= row[U(Up(P, y))].at
      BY <2>1 DEF Shape, BatchesLinked
    <3>2. row[U(Up(P, y))].at < row[U(y)].at
      BY <3>1 DEF Shape, FollowsEarlier
    <3>3. Hidden(U(Up(P, y))) <=> Hidden(U(y))
      BY <1>0, <1>7, <1>10, <1>11, <2>1, <3>1, <3>2 DEF f
    <3> QED
      BY <1>8, <3>1, <3>3
  <2>2. CASE Stays(U(x)) /\ Comes(U(y))
    <3>1. CASE y = s
      <4>1. Up(P, s) # Null /\ row[U(x)].at <= row[U(Up(P, s))].at
        BY <1>0, <1>7, <2>2 DEF f
      <4>2. U(Up(P, s)) \in Kept /\ (Stays(U(Up(P, s))) \/ Comes(U(Up(P, s))))
        BY <1>16, <2>2, <3>1, <4>1
      <4> QED
        BY <1>9, <2>2, <3>1, <4>1, <4>2
    <3>2. CASE y # s
      <4>1. /\ Up(P, y) # Null /\ U(Up(P, y)) \in Kept /\ Comes(U(Up(P, y)))
            /\ row[U(s)].at <= row[U(Up(P, y))].at
        BY <1>5, <2>2, <3>2
      <4>2. row[U(x)].at < f /\ f <= row[U(s)].at /\ f \in Nat
        BY <1>0, <1>7, <2>2 DEF f
      <4>3. row[U(x)].at <= row[U(Up(P, y))].at
        BY <1>0, <1>10, <4>1, <4>2
      <4> QED
        BY <1>9, <2>2, <4>1, <4>3
    <3> QED
      BY <3>1, <3>2
  <2>3. CASE Comes(U(x)) /\ Stays(U(y))
    BY <1>0, <1>4, <1>7, <1>10, <2>3 DEF f
  <2> QED
    BY <1>6, <2>1, <2>2, <2>3
<1>19. FollowsEarlier(P)'
  BY <1>1, <1>3 DEF Shape, FollowsEarlier
<1> QED
  BY <1>12, <1>14, <1>17, <1>18, <1>19 DEF Shape

\* A turn is deleted with which the chat ends.
LEMMA ShapeCut ==
    ASSUME TypeInv, Times, NEW P \in Follows, Shape(P), NEW D, Deleted(D),
           \A m \in D : m \in Kept => m \in Active,
           \A q \in Requests :
              U(q) \in D /\ U(q) \in Kept =>
                  /\ A(q) \in Kept => A(q) \in D
                  /\ \A x \in Requests : U(x) \in Active => row[U(x)].at <= row[U(q)].at
    PROVE  Shape(P)'
<1>1. Kept' = Kept \ D /\ Active' = Active \ D /\ \A m \in Kept' : row'[m] = row[m]
  <2>1. Kept' = Kept \ D
    BY KeptAfter
  <2>2. \A m \in Kept' : row'[m] = row[m]
    BY <2>1 DEF Deleted, Kept
  <2> QED
    BY <2>1, <2>2 DEF Active
<1>2. \A x \in Requests : U(x) \in Kept' => U(x) \in Kept /\ Up(P, x)' = Up(P, x) /\ Up(P, x) \in Requests \union {Null}
  BY <1>1, KeptRows DEF Up, Follows
<1>3. ASSUME NEW u \in Requests, NEW x \in Requests, U(u) \in Kept, U(u) \in D, U(x) \in Kept,
             row[U(x)].superseded = row[U(u)].superseded
      PROVE  row[U(x)].at <= row[U(u)].at
  <2>1. U(x) \in Active
    BY <1>3, KeptRows
  <2> QED
    BY <1>3, <2>1
<1>4. Turns' /\ Versions'
  BY <1>1 DEF Shape, Turns, Versions
<1>5. ShownAfterShown(P)'
  <2> SUFFICES ASSUME NEW x \in Requests, U(x) \in Active', Up(P, x) # Null
               PROVE  U(Up(P, x)) \in Active'
    BY <1>1, <1>2 DEF ShownAfterShown, Active
  <2>1. U(x) \in Active /\ U(x) \in Kept /\ U(x) \notin D /\ Up(P, x) \in Requests
    BY <1>1, <1>2, KeptRows
  <2>2. U(Up(P, x)) \in Active /\ U(Up(P, x)) \in Kept
    BY <2>1, KeptRows DEF Shape, ShownAfterShown
  <2>3. row[U(Up(P, x))].at < row[U(x)].at /\ row[U(x)].superseded = row[U(Up(P, x))].superseded
    BY <2>1, <2>2, KeptRows DEF Shape, FollowsEarlier
  <2>4. U(Up(P, x)) \notin D
    BY <1>3, <2>1, <2>2, <2>3, KeptRows
  <2> QED
    BY <1>1, <2>2, <2>4
<1>6. BatchesLinked(P)'
  <2> SUFFICES ASSUME NEW x \in Requests, NEW y \in Requests, U(x) \in Kept', U(y) \in Kept',
                      row[U(x)].superseded = row[U(y)].superseded, row[U(x)].at < row[U(y)].at
               PROVE  /\ Up(P, y) # Null /\ U(Up(P, y)) \in Kept'
                      /\ row[U(Up(P, y))].superseded = row[U(y)].superseded
                      /\ row[U(x)].at <= row[U(Up(P, y))].at
    BY <1>1, <1>2 DEF BatchesLinked
  <2>1. /\ Up(P, y) # Null /\ U(Up(P, y)) \in Kept
        /\ row[U(Up(P, y))].superseded = row[U(y)].superseded
        /\ row[U(x)].at <= row[U(Up(P, y))].at
    BY <1>2 DEF Shape, BatchesLinked
  <2>2. row[U(Up(P, y))].at < row[U(y)].at /\ Up(P, y) \in Requests
    BY <1>2, <2>1 DEF Shape, FollowsEarlier
  <2>3. U(Up(P, y)) \notin D
    BY <1>2, <1>3, <2>1, <2>2, KeptRows
  <2> QED
    BY <1>1, <2>1, <2>3
<1>7. FollowsEarlier(P)'
  BY <1>1, <1>2 DEF Shape, FollowsEarlier
<1> QED
  BY <1>4, <1>5, <1>6, <1>7 DEF Shape

LEMMA NoThreadNow ==
    ASSUME Kept' = {}, chat' # "exists", NEW P, Known(P)' PROVE Thread(P)'
BY DEF Thread, Shape, Turns, Versions, ShownAfterShown, BatchesLinked, FollowsEarlier, Standing,
       Pending, Tallied, Found, Active

\* Rows stay as they are.
LEMMA ThreadStays ==
    ASSUME TypeInv, NEW P \in Follows, Thread(P), row' = row, chat' = chat,
           \A r \in Requests :
               /\ phase'[r] \in Open => phase[r] \in Open
               /\ phase'[r] \in Unsaved => phase[r] \in Unsaved
               /\ phase'[r] = "supersede" =>
                     \/ phase[r] = "supersede" /\ edits'[r] = edits[r] /\ group'[r] = group[r]
                     \/ U(edits'[r]) \in Active /\ group'[r] = row[U(edits'[r])].group
               /\ Revising(r)' => Revising(r) /\ edits'[r] = edits[r] /\ group'[r] = group[r],
           ~interrupted' => /\ ~interrupted
                            /\ \A r \in Requests : Revising(r) => Revising(r)' /\ group'[r] = group[r],
           \A k \in Cancels : cancel'[k] = cancel[k] \/ Tallied(k)'
    PROVE  Thread(P)'
<1>1. Kept' = Kept /\ Active' = Active
  BY DEF Kept, Active
<1>2. Shape(P)'
  <2>1. \A x : Up(P, x)' = Up(P, x)
    BY DEF Up
  <2> QED
    BY <1>1, <2>1 DEF Thread, Shape, Turns, Versions, ShownAfterShown, BatchesLinked, FollowsEarlier
<1>3. Known(P)'
  BY DEF Thread, Known, Follows
<1>4. Standing'
  BY <1>1 DEF Thread, Standing
<1>5. Pending(P)'
  <2> SUFFICES ASSUME NEW r \in Requests, chat' = "exists"
               PROVE  /\ phase'[r] = "supersede" =>
                            U(edits'[r]) \in Active' /\ group'[r] = row'[U(edits'[r])].group
                      /\ Revising(r)' =>
                            /\ edits'[r] \in Requests /\ U(edits'[r]) \in Kept'
                            /\ group'[r] = row'[U(edits'[r])].group
                            /\ Continues(P[group[r]])'
    BY DEF Pending
  <2>1. Revising(r)' => Continues(P[group[r]])'
    BY <1>1 DEF Thread, Pending, Continues
  <2> QED
    BY <1>1, <2>1 DEF Thread, Pending
<1>6. \A q \in Requests : Forked(q)' <=> Forked(q)
  BY <1>1 DEF Forked
<1>7. ASSUME NEW k \in Cancels PROVE Tallied(k)'
  <2>1. CASE cancel'[k] = cancel[k]
    BY <1>1, <1>6, <2>1 DEF Thread, Tallied
  <2> QED
    BY <2>1
<1>8. Found'
  <2> SUFFICES ASSUME ~interrupted'
               PROVE  /\ \A m \in Kept \ Active : \E n \in Requests :
                            /\ U(n) \in Kept /\ row[U(n)].superseded = row[m].superseded
                            /\ Forked(n) \/ \E r \in Requests : Revising(r)' /\ row[U(n)].group = group'[r]
                      /\ (\A r \in Requests : ~Revising(r)') /\ Kept # Active =>
                            \E n \in Requests : U(n) \in Active /\ Forked(n)
    BY <1>1, <1>6 DEF Found
  <2> QED
    BY DEF Thread, Found
<1> QED
  BY <1>2, <1>3, <1>4, <1>5, <1>7, <1>8 DEF Thread

\* A question, or an edit of one, is saved.
LEMMA LastShown ==
    ASSUME TypeInv
    PROVE  \E p \in Requests \union {Null} : Continues(p)
<1>1. CASE Asked = {}
  BY <1>1, Naming DEF Asked, Continues
<1>2. CASE Asked # {}
  <2>1. Question \in Asked /\ \A n \in Asked : row[n].at <= row[Question].at
    BY <1>2, LastQuestion DEF TypeInv
  <2>2. PICK p \in Requests : Question = U(p) /\ U(p) \in Active
    BY <2>1, Naming DEF Asked, Active, Kept
  <2>3. p # Null
    BY RequestNumbers DEF TypeInv, TypeOK
  <2>4. \A x \in Requests : U(x) \in Active => row[U(x)].at <= row[U(p)].at
    BY <2>1, <2>2, Naming DEF Asked
  <2> QED
    BY <2>2, <2>3, <2>4 DEF Continues
<1> QED
  BY <1>1, <1>2

LEMMA CreateThread ==
    ASSUME TypeInv, Records, client = "patient", NEW r \in Requests, CreateChat(r)
    PROVE  \E P \in Follows : Thread(P)'
<1> DEFINE P == [g \in Requests |-> Null]
<1>1. P \in Follows /\ \A g \in Requests : P[g] = Null
  BY DEF Follows
<1> HIDE DEF P
<1>2. Kept = {} /\ Active = {} /\ chat # "exists"
  BY DEF CreateChat, Records, NoRows, Active
<1>3. Thread(P)
  BY <1>1, <1>2, NoThread DEF Known
<1>4. Saved(U(r), r) /\ clock' = clock + 1
  BY CreateChatSaves DEF TypeInv
<1>5. r # Null /\ Null \notin Requests
  BY RequestNumbers DEF TypeInv, TypeOK
<1>6. Shape(P)'
  <2>1. Shape(P) /\ U(r) \notin Kept /\ A(r) \notin Kept /\ \A g \in Requests : P[g] # r
    BY <1>1, <1>2, <1>3, <1>5 DEF Thread
  <2> QED
    BY <1>1, <1>2, <1>4, <2>1, ShapeAsked DEF Records, Continues
<1>7. Kept' = {U(r)} /\ Active' = {U(r)} /\ row'[U(r)].at \in Nat
  <2>1. Kept' = {U(r)}
    BY <1>2, <1>4, KeptAfter, Naming
  <2> QED
    BY <1>4, <2>1 DEF Saved, Active, TypeInv, TypeOK
<1>8. /\ \A q \in Requests : phase'[q] = IF q = r THEN "load" ELSE phase[q]
      /\ \A q \in Requests : phase[q] \in {"idle", "over"}
      /\ \A k \in Cancels : cancel'[k].phase \in {"idle", "over"}
  BY DEF CreateChat, MayStart, Quiet, Go, TypeInv, TypeOK
<1>9. Known(P)' /\ Pending(P)' /\ \A k \in Cancels : Tallied(k)'
  BY <1>1, <1>8 DEF Known, Pending, Tallied, Revising
<1>10. Standing'
  BY <1>7, <1>8 DEF Standing, Open
<1>11. Found'
  BY <1>7 DEF Found
<1> QED
  BY <1>1, <1>6, <1>9, <1>10, <1>11 DEF Thread

LEMMA InsertThread ==
    ASSUME TypeInv, Control, Records, client = "patient", NEW P \in Follows, Thread(P),
           NEW r \in Requests, Insert(r), chat = "exists"
    PROVE  \E Q \in Follows : Thread(Q)'
<1>0. PICK g \in Requests : g = group[r]
  BY DEF TypeInv, TypeOK
<1>1. /\ phase[r] = "insert" /\ g \in Requests /\ r # Null /\ Null \notin Requests
      /\ Saved(U(r), g) /\ clock' = clock + 1 /\ chat' = chat /\ cancel' = cancel /\ interrupted' = interrupted
      /\ \A q \in Requests : phase'[q] = IF q = r THEN "load" ELSE phase[q]
  BY <1>0, InsertSaves, RequestNumbers DEF Insert, TypeInv, TypeOK, bounds
<1>2. /\ \A q \in Requests \ {r} : ~Busy(q)
      /\ \A k \in Cancels : cancel[k].phase \notin {"count", "drop"}
  BY <1>1 DEF Control, OneRequest, CancelsWait, Busy
<1>3. /\ U(r) \notin Kept /\ A(r) \notin Kept
      /\ \A x \in Requests : U(x) \in Kept => phase[x] \notin Unsaved /\ row[U(x)].group # r
      /\ edits[r] = Null => g = r
  BY <1>0, <1>1, Naming DEF Records, Fresh, Unsaved
<1>4. \A x \in Requests : P[x] # r
  BY <1>1 DEF Thread, Known, Unsaved
<1>5. PICK p \in Requests \union {Null} : Continues(p) /\ (edits[r] # Null => p = P[g])
  <2>1. CASE edits[r] = Null
    BY <2>1, LastShown
  <2>2. CASE edits[r] # Null
    <3>1. P[g] \in Requests \union {Null}
      BY <1>1 DEF Follows
    <3> QED
      BY <1>0, <1>1, <2>2, <3>1 DEF Thread, Pending, Revising
  <2> QED
    BY <2>1, <2>2
<1>6. PICK Q \in Follows : Q = [P EXCEPT ![g] = p] /\ Q[g] = p /\ \A x \in Requests : Q[x] \in {P[x], p}
  <2>1. [P EXCEPT ![g] = p] \in Follows
    BY DEF Follows
  <2> QED
    BY <2>1 DEF Follows
<1>7. \A x \in Requests : U(x) \in Kept => Q[row[U(x)].group] = P[row[U(x)].group]
  <2>1. CASE edits[r] = Null
    BY <1>3, <1>6, <2>1 DEF Follows
  <2>2. CASE edits[r] # Null
    BY <1>1, <1>5, <1>6, <2>2 DEF Follows
  <2> QED
    BY <2>1, <2>2
<1>8. Shape(Q)'
  <2>1. Shape(P) /\ Times
    BY DEF Thread, Records
  <2> QED
    <3>1. Continues(Q[g]) /\ U(r) \notin Kept /\ A(r) \notin Kept /\ Saved(U(r), g)
      BY <1>1, <1>3, <1>5, <1>6
    <3> QED
      BY <1>4, <1>7, <2>1, <3>1, ShapeAsked
<1>9. /\ Kept' = Kept \union {U(r)} /\ Active' = Active \union {U(r)} /\ row'[U(r)].group = g
      /\ row'[U(r)].at = clock + 1 /\ row'[U(r)].superseded = 0
      /\ \A m \in Kept : row'[m] = row[m] /\ m # U(r) /\ row[m].at \in Nat /\ row[m].at <= clock
      /\ clock \in Nat /\ Active \subseteq Kept
  <2>1. Kept' = Kept \union {U(r)}
    BY <1>1, KeptAfter, Naming
  <2> QED
    BY <1>1, <1>3, <2>1, KeptRows DEF Saved, Kept, Active, Records
<1>10. Known(Q)'
  <2>1. p # Null => phase[p] \notin Unsaved
    BY <1>3, <1>5 DEF Active, Continues
  <2>2. \A x \in Requests : P[x] # Null => phase[P[x]] \notin Unsaved
    BY DEF Thread, Known
  <2>3. \A x \in Requests : Q[x] # Null => Q[x] \in Requests /\ phase[Q[x]] \notin Unsaved
    BY <1>6, <2>1, <2>2 DEF Follows
  <2> QED
    BY <1>1, <2>3 DEF Known, Unsaved
<1>11. \A q \in Requests : q # r => phase'[q] \in {"idle", "over"}
  BY <1>1, <1>2 DEF Busy
<1>12. Standing'
  BY <1>1, <1>9, <1>11 DEF Standing, Open
<1>13. Pending(Q)' /\ \A q \in Requests : ~Revising(q)'
  BY <1>1, <1>11 DEF Pending, Revising
<1>14. \A k \in Cancels : Tallied(k)'
  BY <1>1, <1>2 DEF Tallied
<1>15. \A x \in Requests : U(x) \in Kept => /\ Forked(x) \/ row[U(x)].group = g => Forked(x)'
                                            /\ x # r
  BY <1>9, <1>3 DEF Forked
<1>16. Found'
  <2> SUFFICES ASSUME ~interrupted
               PROVE  /\ \A m \in Kept' \ Active' : \E n \in Requests :
                            /\ U(n) \in Kept' /\ row'[U(n)].superseded = row'[m].superseded /\ Forked(n)'
                      /\ Kept' # Active' => \E n \in Requests : U(n) \in Active' /\ Forked(n)'
    BY <1>1 DEF Found
  <2>1. ASSUME NEW m \in Kept' \ Active'
        PROVE  \E n \in Requests :
                  /\ U(n) \in Kept' /\ row'[U(n)].superseded = row'[m].superseded /\ Forked(n)'
    <3>1. m \in Kept \ Active
      BY <1>9, <2>1
    <3>2. PICK n \in Requests :
             /\ U(n) \in Kept /\ row[U(n)].superseded = row[m].superseded
             /\ Forked(n) \/ \E q \in Requests : Revising(q) /\ row[U(n)].group = group[q]
      BY <3>1 DEF Thread, Found
    <3>3. Forked(n) \/ row[U(n)].group = g
      BY <1>0, <1>2, <3>2 DEF Revising, Busy
    <3> QED
      BY <1>9, <1>15, <3>1, <3>2, <3>3
  <2>2. ASSUME Kept' # Active' PROVE \E n \in Requests : U(n) \in Active' /\ Forked(n)'
    <3>1. Kept # Active
      BY <1>9, <2>2
    <3>2. CASE edits[r] = Null
      <4>1. \A q \in Requests : ~Revising(q)
        BY <1>2, <3>2 DEF Revising, Busy
      <4> QED
        BY <1>9, <1>15, <3>1, <4>1 DEF Thread, Found
    <3>3. CASE edits[r] # Null
      <4>1. edits[r] \in Requests /\ U(edits[r]) \in Kept /\ row[U(edits[r])].group = g
        BY <1>0, <1>1, <3>3 DEF Thread, Pending, Revising
      <4> QED
        BY <1>9, <1>15, <4>1 DEF Forked
    <3> QED
      BY <3>2, <3>3
  <2> QED
    BY <2>1, <2>2
<1> QED
  BY <1>6, <1>8, <1>10, <1>12, <1>13, <1>14, <1>16 DEF Thread

\* An answer is saved.
LEMMA FinishThread ==
    ASSUME TypeInv, Control, Records, client = "patient", NEW P \in Follows, Thread(P),
           NEW r \in Requests, Finish(r), chat = "exists"
    PROVE  Thread(P)'
<1>1. /\ phase[r] = "finish" /\ Saved(A(r), Null) /\ clock' = clock + 1 /\ chat' = chat /\ cancel' = cancel
      /\ UNCHANGED <<edits, group, interrupted>>
      /\ \A q \in Requests : phase'[q] = IF q = r THEN "leave" ELSE phase[q]
  BY FinishSaves DEF Finish, TypeInv, TypeOK, bounds, turn, Go
<1>2. /\ \A q \in Requests \ {r} : phase[q] \in {"idle", "over"}
      /\ \A k \in Cancels : cancel[k].phase \notin {"count", "drop"}
  BY <1>1 DEF Control, OneRequest, CancelsWait, Busy
<1>3. A(r) \notin Kept
  BY <1>1 DEF Records, Fresh
<1>4. U(r) \in Active /\ \A m \in Kept : row[m].at <= row[U(r)].at
  BY <1>1 DEF Thread, Standing, Open
<1>5. Shape(P)'
  BY <1>1, <1>3, <1>4, ShapeAnswered DEF Thread, Records
<1>6. /\ Kept' = Kept \union {A(r)} /\ Active' = Active \union {A(r)}
      /\ \A m \in Kept : row'[m] = row[m]
  <2>1. Kept' = Kept \union {A(r)}
    BY <1>1, KeptAfter, Naming
  <2> QED
    BY <1>1, <1>3, <2>1 DEF Saved, Kept, Active
<1>7. \A x \in Requests : /\ U(x) \in Kept' <=> U(x) \in Kept
                          /\ U(x) \in Active' <=> U(x) \in Active
  BY <1>6, Naming
<1>8. \A x \in Requests : U(x) \in Kept => (Forked(x)' <=> Forked(x))
  BY <1>6, <1>7 DEF Forked
<1>9. Known(P)'
  BY <1>1 DEF Thread, Known, Unsaved, Follows
<1>10. \A q \in Requests : ~Revising(q)' /\ ~Revising(q) /\ phase'[q] \notin Open \union {"supersede"}
  BY <1>1, <1>2 DEF Revising, Open
<1>11. Standing' /\ Pending(P)'
  BY <1>10 DEF Standing, Pending
<1>12. \A k \in Cancels : Tallied(k)'
  BY <1>1, <1>2 DEF Tallied
<1>13. Found'
  <2> SUFFICES ASSUME ~interrupted
               PROVE  /\ \A m \in Kept' \ Active' : \E n \in Requests :
                            /\ U(n) \in Kept' /\ row'[U(n)].superseded = row'[m].superseded /\ Forked(n)'
                      /\ Kept' # Active' => \E n \in Requests : U(n) \in Active' /\ Forked(n)'
    BY <1>1 DEF Found
  <2>1. \A m \in Kept \ Active : \E n \in Requests :
           U(n) \in Kept /\ row[U(n)].superseded = row[m].superseded /\ Forked(n)
    BY <1>10 DEF Thread, Found
  <2>2. Kept # Active => \E n \in Requests : U(n) \in Active /\ U(n) \in Kept /\ Forked(n)
    BY <1>10 DEF Thread, Found, Active
  <2>3. Kept' \ Active' \subseteq Kept \ Active /\ (Kept' # Active' => Kept # Active)
    BY <1>6
  <2>4. ASSUME NEW m \in Kept' \ Active'
        PROVE  \E n \in Requests :
                  U(n) \in Kept' /\ row'[U(n)].superseded = row'[m].superseded /\ Forked(n)'
    <3>1. PICK n \in Requests : U(n) \in Kept /\ row[U(n)].superseded = row[m].superseded /\ Forked(n)
      BY <2>1, <2>3, <2>4
    <3> QED
      BY <1>6, <1>7, <1>8, <2>3, <2>4, <3>1
  <2> QED
    BY <1>7, <1>8, <2>2, <2>3, <2>4
<1> QED
  BY <1>5, <1>9, <1>11, <1>12, <1>13 DEF Thread

\* An edit supersedes what it edits and what follows.
LEMMA SupersedeThread ==
    ASSUME TypeInv, Control, Records, client = "patient", NEW P \in Follows, Thread(P),
           NEW r \in Requests, SupersedeMessagesFrom(r), chat = "exists"
    PROVE  Thread(P)'
<1>0. PICK e \in Requests : e = edits[r] /\ U(e) \in Active /\ U(e) \in Kept /\ group[r] = row[U(e)].group
  <2>1. edits[r] \in Requests
    BY DEF SupersedeMessagesFrom, Records, Fresh, TypeInv, TypeOK
  <2> QED
    BY <2>1 DEF SupersedeMessagesFrom, Thread, Pending, Active
<1> DEFINE Hidden(m) == row[m].superseded = 0 /\ row[U(e)].at <= row[m].at
<1>1. /\ phase[r] = "supersede" /\ Marked(From(row[U(e)].at), {}) /\ batches' = batches + 1
      /\ UNCHANGED <<edits, group, interrupted, chat, cancel>>
      /\ \A q \in Requests : phase'[q] = IF q = r THEN "insert" ELSE phase[q]
  BY <1>0, SupersedeMarks DEF SupersedeMessagesFrom, TypeInv, TypeOK, bounds, turn, Go
<1>2. /\ \A q \in Requests \ {r} : phase[q] \in {"idle", "over"}
      /\ \A k \in Cancels : cancel[k].phase \notin {"count", "drop"}
  BY <1>1 DEF Control, OneRequest, CancelsWait, Busy
<1>3. Shape(P)'
  BY <1>0, <1>1, ShapeSuperseded DEF Thread, Records
<1>4. /\ Kept' = Kept
      /\ \A m \in Kept : /\ row'[m].at = row[m].at /\ row'[m].group = row[m].group
                         /\ Hidden(m) => row'[m].superseded = batches + 1
                         /\ ~Hidden(m) => row'[m].superseded = row[m].superseded
                         /\ m \in Active <=> row[m].superseded = 0
                         /\ row[m].at \in Nat
  <2>1. \A m \in Kept : m \in From(row[U(e)].at) <=> Hidden(m)
    BY DEF From, Active
  <2>2. Kept' = Kept
    BY <1>1, KeptAfter
  <2> QED
    BY <1>1, <2>1, <2>2, KeptRows DEF Marked, Records
<1>5. \A m \in Kept : m \in Active' <=> m \in Active /\ ~Hidden(m)
  <2>1. batches + 1 # 0
    BY DEF TypeInv, TypeOK
  <2> QED
    BY <1>4, <2>1 DEF Active
<1>6. \A x \in Requests : U(x) \in Kept => (Forked(x)' <=> Forked(x))
  BY <1>4 DEF Forked
<1>7. Known(P)'
  BY <1>1 DEF Thread, Known, Unsaved, Follows
<1>8. e # Null
  BY RequestNumbers DEF TypeInv, TypeOK
<1>9. Standing' /\ \A k \in Cancels : Tallied(k)'
  BY <1>1, <1>2 DEF Standing, Open, Tallied
<1>10. Revising(r)' /\ \A q \in Requests : q # r => ~Revising(q)' /\ phase'[q] # "supersede"
  BY <1>0, <1>1, <1>2, <1>8 DEF Revising
<1>11. Continues(Up(P, e))'
  <2> DEFINE p == Up(P, e)
  <2>1. p \in Requests \union {Null} /\ Up(P, e)' = p
    BY <1>0, <1>4, KeptRows DEF Up, Follows, Records
  <2>2. p = Null \/ U(p) \in Active'
    <3> SUFFICES ASSUME p # Null PROVE U(p) \in Active'
      OBVIOUS
    <3>1. U(p) \in Active /\ U(p) \in Kept
      BY <1>0 DEF Thread, Shape, ShownAfterShown, Active
    <3>2. row[U(p)].at < row[U(e)].at
      BY <1>0, <3>1 DEF Thread, Shape, FollowsEarlier
    <3> QED
      BY <1>0, <1>4, <1>5, <3>1, <3>2
  <2>3. ASSUME NEW x \in Requests, U(x) \in Active' PROVE p # Null /\ row'[U(x)].at <= row'[U(p)].at
    <3>1. U(x) \in Kept
      BY <1>4, <2>3 DEF Active
    <3>2. U(x) \in Active /\ row[U(x)].at < row[U(e)].at /\ row[U(x)].superseded = row[U(e)].superseded
      BY <1>0, <1>4, <1>5, <2>3, <3>1
    <3>3. p # Null /\ U(p) \in Kept /\ row[U(x)].at <= row[U(p)].at
      BY <1>0, <3>1, <3>2 DEF Thread, Shape, BatchesLinked
    <3> QED
      BY <1>4, <3>1, <3>3
  <2> QED
    BY <2>1, <2>2, <2>3 DEF Continues
<1>12. Pending(P)'
  <2>1. P[group[r]]' = Up(P, e)'
    BY <1>0, <1>1, <1>4 DEF Up
  <2>2. Continues(P[group[r]])'
    BY <1>11, <2>1 DEF Continues
  <2>3. edits'[r] = e /\ U(e) \in Kept' /\ group'[r] = row'[U(e)].group /\ phase'[r] = "insert"
    BY <1>0, <1>1, <1>4
  <2> QED
    BY <1>10, <2>2, <2>3 DEF Pending
<1>13. Found'
  <2> SUFFICES ASSUME ~interrupted, NEW m \in Kept \ Active'
               PROVE  \E n \in Requests :
                         /\ U(n) \in Kept /\ row'[U(n)].superseded = row'[m].superseded
                         /\ Forked(n)' \/ row'[U(n)].group = group'[r]
    BY <1>1, <1>4, <1>10 DEF Found
  <2>1. CASE Hidden(m)
    BY <1>0, <1>1, <1>4, <2>1
  <2>2. CASE ~Hidden(m)
    <3>1. m \in Kept \ Active
      BY <1>5, <2>2
    <3>2. PICK n \in Requests :
             /\ U(n) \in Kept /\ row[U(n)].superseded = row[m].superseded
             /\ Forked(n) \/ \E q \in Requests : Revising(q) /\ row[U(n)].group = group[q]
      BY <3>1 DEF Thread, Found
    <3>3. Forked(n)
      BY <1>1, <1>2, <3>2 DEF Revising
    <3>4. ~Hidden(U(n))
      BY <1>4, <3>1, <3>2
    <3> QED
      BY <1>4, <1>6, <2>2, <3>2, <3>3, <3>4
  <2> QED
    BY <2>1, <2>2
<1> QED
  BY <1>3, <1>7, <1>9, <1>12, <1>13 DEF Thread

\* The client switches to another version.
LEMMA SwitchThread ==
    ASSUME TypeInv, Records, client = "patient", NEW P \in Follows, Thread(P),
           NEW m \in Messages, SwitchMessageVersion(m)
    PROVE  Thread(P)'
<1>0. Offered(m) /\ Times /\ Shape(P)
  BY DEF SwitchMessageVersion, Thread, Records
<1>1. /\ Marked(From(ForkPoint(m)), Batch(m)) /\ batches' = batches + 1
      /\ UNCHANGED <<edits, group, interrupted, chat, cancel, phase>>
      /\ \A q \in Requests : phase[q] \in {"idle", "over"}
      /\ \A k \in Cancels : cancel[k].phase \in {"idle", "over"}
  BY SwitchMarks DEF SwitchMessageVersion, Quiet, TypeInv, turn
<1>2. PICK s \in Requests, a \in Requests :
         /\ m = U(s) /\ U(s) \in Kept \ Active /\ U(a) \in Active /\ row[U(a)].group = row[U(s)].group
         /\ ForkPoint(m) \in Nat /\ ForkPoint(m) <= row[U(a)].at
  BY <1>0, SwitchedFrom
<1>3. Shape(P)'
  BY <1>0, <1>1, ShapeSwitched
<1> DEFINE Hidden(n) == row[n].superseded = 0 /\ ForkPoint(m) <= row[n].at
           Comes(n) == row[n].superseded = row[m].superseded
<1>4. /\ Kept' = Kept /\ row[m].superseded # 0 /\ batches + 1 # 0
      /\ \A n \in Kept : /\ row'[n].group = row[n].group
                         /\ Hidden(n) => row'[n].superseded = batches + 1
                         /\ Comes(n) => row'[n].superseded = 0
                         /\ ~Hidden(n) /\ ~Comes(n) => row'[n].superseded = row[n].superseded
                         /\ n \in Active <=> row[n].superseded = 0
                         /\ n \in Active' <=> row'[n].superseded = 0
  <2>1. \A n \in Kept : (n \in From(ForkPoint(m)) <=> Hidden(n)) /\ (n \in Batch(m) <=> Comes(n))
    BY DEF From, Active, Batch
  <2>2. row[m].superseded # 0 /\ batches + 1 # 0
    BY <1>0, <1>2, KeptRows
  <2>3. Kept' = Kept
    BY <1>1, KeptAfter
  <2> QED
    BY <1>1, <2>1, <2>2, <2>3 DEF Marked, Active
<1>5. \A x \in Requests : U(x) \in Kept => (Forked(x)' <=> Forked(x))
  BY <1>4 DEF Forked
<1>6. Known(P)' /\ Standing' /\ Pending(P)' /\ \A k \in Cancels : Tallied(k)'
  BY <1>1 DEF Thread, Known, Standing, Open, Pending, Revising, Tallied
<1>7. U(a) \in Kept /\ Forked(a) /\ Forked(s)
  BY <1>2 DEF Forked, Active
<1>8. Found'
  <2> SUFFICES ASSUME ~interrupted
               PROVE  /\ \A n \in Kept' \ Active' : \E x \in Requests :
                            U(x) \in Kept' /\ row'[U(x)].superseded = row'[n].superseded /\ Forked(x)'
                      /\ \E x \in Requests : U(x) \in Active' /\ Forked(x)'
    BY <1>1 DEF Found
  <2>1. ASSUME NEW n \in Kept' \ Active'
        PROVE  \E x \in Requests :
                  U(x) \in Kept' /\ row'[U(x)].superseded = row'[n].superseded /\ Forked(x)'
    <3>1. CASE Hidden(n)
      <4>1. Hidden(U(a))
        BY <1>2, <1>4, <1>7
      <4> QED
        BY <1>4, <1>5, <1>7, <2>1, <3>1, <4>1
    <3>2. CASE ~Hidden(n)
      <4>1. n \in Kept \ Active /\ ~Comes(n)
        BY <1>4, <2>1, <3>2
      <4>2. PICK x \in Requests :
               /\ U(x) \in Kept /\ row[U(x)].superseded = row[n].superseded
               /\ Forked(x) \/ \E q \in Requests : Revising(q) /\ row[U(x)].group = group[q]
        BY <4>1 DEF Thread, Found
      <4>3. Forked(x)
        BY <1>1, <4>2 DEF Revising
      <4>4. ~Hidden(U(x)) /\ ~Comes(U(x))
        BY <1>4, <4>1, <4>2
      <4> QED
        BY <1>4, <1>5, <3>2, <4>1, <4>2, <4>3, <4>4
    <3> QED
      BY <3>1, <3>2
  <2>2. U(s) \in Active'
    BY <1>2, <1>4
  <2> QED
    BY <1>2, <1>5, <1>7, <2>1, <2>2
<1> QED
  BY <1>3, <1>6, <1>8 DEF Thread

\* A cancel reads the last turn.
LEMMA ReadTallied ==
    ASSUME TypeInv, Times, NEW P, Shape(P), NEW k \in Cancels, ReadTurn(k) PROVE Tallied(k)'
<1>1. row' = row /\ Kept' = Kept /\ Active' = Active
  BY DEF ReadTurn, thread, Kept, Active
<1>2. CASE KeepsTurn
  <2>1. cancel'[k].phase = "over"
    BY <1>2 DEF ReadTurn, Answered, TypeInv, TypeOK
  <2> QED
    BY <2>1 DEF Tallied
<1>3. CASE ~KeepsTurn
  <2>1. cancel'[k].phase = "count" /\ cancel'[k].doomed = Doomed
    BY <1>3 DEF ReadTurn, TypeInv, TypeOK
  <2>2. Asked # {} /\ Doomed \subseteq Active
    BY <1>3, DoomedMessages DEF TypeInv
  <2> DEFINE L == Latest(Active)
  <2>3. PICK z \in Requests :
           /\ Question = U(z) /\ U(z) \in Active /\ U(z) \in Kept
           /\ \A x \in Requests : U(x) \in Active => row[U(x)].at <= row[U(z)].at
    <3>1. Question \in Asked /\ \A n \in Asked : row[n].at <= row[Question].at
      BY <2>2, LastQuestion DEF TypeInv
    <3>2. PICK z \in Requests : Question = U(z)
      BY <3>1, Naming DEF Asked, Active, Kept
    <3> QED
      BY <3>1, <3>2, Naming DEF Asked, Active
  <2>4. L \in Active /\ L \in Kept /\ \A n \in Active : row[n].at <= row[L].at
    BY <2>2, LastQuestion DEF TypeInv, Active
  <2> HIDE DEF L
  <2>5. \A q \in Requests : U(q) \in Doomed => q = z
    BY <2>3, Naming DEF Doomed
  <2>6. \A q \in Requests : A(q) \in Doomed => ~row[A(q)].text
    <3>1. \A q \in Requests : A(q) \in Doomed => A(q) = L
      BY <2>3, Naming DEF Doomed, L
    <3>2. L[1] = "assistant" => ~row[L].text
      BY <1>3 DEF KeepsTurn, L
    <3> QED
      BY <3>1, <3>2, Naming
  <2>7. ~Forked(z)
    <3>1. Cardinality(Version(row[U(z)].group)) <= 1
      <4>1. IsFiniteSet(Version(row[U(z)].group))
        BY MessagesFinite, FS_Subset DEF TypeInv, TypeOK, Version, Kept
      <4>2. ~(Cardinality(Version(row[U(z)].group)) > 1)
        BY <1>3, <2>3 DEF KeepsTurn
      <4> QED
        BY <4>1, <4>2, FS_CardinalityType
    <3>2. IsFiniteSet(Version(row[U(z)].group))
      BY MessagesFinite, FS_Subset DEF TypeInv, TypeOK, Version, Kept
    <3>3. \A m, n \in Version(row[U(z)].group) : m = n
      BY <3>1, <3>2, Counts
    <3> QED
      BY <2>3, <3>3, Naming DEF Forked, Version
  <2>8. ASSUME A(z) \in Kept PROVE A(z) \in Doomed
    <3>1. A(z) \in Active /\ row[U(z)].at < row[A(z)].at
      BY <2>3, <2>8, KeptRows DEF Shape, Turns
    <3>2. row[A(z)].at <= row[L].at
      BY <2>4, <3>1
    <3>3. PICK y \in Requests : L = A(y)
      <4>1. L[1] # "user"
        <5> SUFFICES ASSUME NEW y \in Requests, L = U(y) PROVE FALSE
          BY <2>4, Naming, KeptRows
        <5> QED
          BY <2>3, <2>4, <3>1, <3>2, <2>8, KeptRows
      <4> QED
        BY <2>4, <4>1, Naming, KeptRows
    <3>4. U(y) \in Kept /\ U(y) \in Active
      BY <2>4, <3>3, KeptRows DEF Shape, Turns
    <3>5. row[U(z)].at <= row[U(y)].at \/ row[A(y)].at < row[U(z)].at
      BY <2>3, <2>4, <3>3 DEF Shape, Turns
    <3>6. row[U(y)].at = row[U(z)].at
      BY <2>3, <2>4, <2>8, <3>1, <3>2, <3>3, <3>4, <3>5, KeptRows
    <3>7. y = z
      BY <2>3, <3>4, <3>6, Naming DEF Times
    <3> QED
      BY <3>3, <3>7, Naming DEF Doomed, L
  <2>9. Forked(z)' <=> Forked(z)
    BY <1>1 DEF Forked
  <2> QED
    BY <1>1, <2>1, <2>2, <2>3, <2>5, <2>6, <2>7, <2>8, <2>9 DEF Tallied
<1> QED
  BY <1>2, <1>3

\* The turn that a cancel has read is deleted.
LEMMA CutThread ==
    ASSUME TypeInv, Control, Records, client = "patient", NEW P \in Follows, Thread(P),
           NEW k \in Cancels, cancel[k].phase = "count", Deleted(cancel[k].doomed),
           cancel' = [cancel EXCEPT ![k] = Answered], UNCHANGED <<phase, edits, group, interrupted, chat>>
    PROVE  Thread(P)'
<1> DEFINE D == cancel[k].doomed
<1>1. /\ \A q \in Requests : phase[q] \in {"idle", "over"}
      /\ \A j \in Cancels : j # k => cancel[j].phase \in {"idle", "over"}
  BY DEF Control, CancelsWait, Busy, Asks
<1>2. /\ \A m \in D : m \in Kept => m \in Active
      /\ \A q \in Requests :
              U(q) \in D /\ U(q) \in Kept =>
                  /\ A(q) \in Kept => A(q) \in D
                  /\ \A x \in Requests : U(x) \in Active => row[U(x)].at <= row[U(q)].at
                  /\ ~Forked(q)
  BY DEF Thread, Tallied
<1>3. Shape(P)'
  <2>1. Times /\ Shape(P)
    BY DEF Records, Thread
  <2> QED
    BY <1>2, <2>1, ShapeCut
<1>4. Kept' = Kept \ D /\ Active' = Active \ D /\ \A m \in Kept' : row'[m] = row[m]
  <2>1. Kept' = Kept \ D
    BY KeptAfter
  <2>2. \A m \in Kept' : row'[m] = row[m]
    BY <2>1 DEF Deleted, Kept
  <2> QED
    BY <2>1, <2>2 DEF Active
<1>5. \A q \in Requests : U(q) \in Kept /\ Forked(q) => U(q) \in Kept' /\ Forked(q)'
  <2> SUFFICES ASSUME NEW q \in Requests, U(q) \in Kept,
                      NEW x \in Requests, x # q, U(x) \in Kept, row[U(x)].group = row[U(q)].group
               PROVE  U(q) \notin D /\ U(x) \notin D
    BY <1>4 DEF Forked
  <2>1. Forked(q) /\ Forked(x)
    BY DEF Forked
  <2> QED
    BY <1>2, <2>1
<1>6. Known(P)' /\ Standing' /\ Pending(P)' /\ \A q \in Requests : ~Revising(q) /\ ~Revising(q)'
  BY <1>1 DEF Thread, Known, Standing, Open, Pending, Revising
<1>7. ASSUME NEW j \in Cancels PROVE Tallied(j)'
  <2>1. cancel'[j].phase \in {"idle", "over"}
    BY <1>1, <1>7 DEF Answered, TypeInv, TypeOK
  <2> QED
    BY <2>1 DEF Tallied
<1>8. Found'
  <2> SUFFICES ASSUME ~interrupted
               PROVE  /\ \A m \in Kept' \ Active' : \E n \in Requests :
                            U(n) \in Kept' /\ row'[U(n)].superseded = row'[m].superseded /\ Forked(n)'
                      /\ Kept' # Active' => \E n \in Requests : U(n) \in Active' /\ Forked(n)'
    BY DEF Found
  <2>1. /\ \A m \in Kept \ Active : \E n \in Requests :
              U(n) \in Kept /\ row[U(n)].superseded = row[m].superseded /\ Forked(n)
        /\ Kept # Active => \E n \in Requests : U(n) \in Active /\ U(n) \in Kept /\ Forked(n)
    BY <1>6 DEF Thread, Found, Active
  <2>2. Kept' \ Active' \subseteq Kept \ Active
    BY <1>4
  <2>3. Kept' # Active' => Kept # Active
    BY <1>4
  <2>4. \A n \in Requests : U(n) \in Kept /\ Forked(n) /\ U(n) \in Active => U(n) \in Active'
    BY <1>4, <1>5
  <2> QED
    BY <1>4, <1>5, <2>1, <2>2, <2>3, <2>4
<1> QED
  BY <1>3, <1>6, <1>7, <1>8 DEF Thread

\* A request starts or goes on, and leaves the rows alone.
LEMMA RequestThread ==
    ASSUME TypeInv, Control, Records, client = "patient", NEW P \in Follows, Thread(P), chat' = "exists",
           NEW r \in Requests,
           \/ Send(r) \/ \E q \in Requests : Edit(r, q)
           \/ Load(r) \/ DisposeAgent(r) \/ Register(r) \/ RequestFails(r) \/ EndRun(r) \/ Leave(r)
    PROVE  Thread(P)'
<1>1. UNCHANGED <<row, chat, cancel>>
  BY DEF Send, Edit, Load, DisposeAgent, Register, RequestFails, EndRun, Leave, thread
<1>2. CASE Send(r)
  <2>1. /\ phase[r] = "idle" /\ edits' = edits /\ group' = group /\ interrupted' = interrupted
        /\ \A q \in Requests : phase'[q] = IF q = r THEN "insert" ELSE phase[q]
    BY <1>2 DEF Send, MayStart, Go, turn, bounds, TypeInv, TypeOK
  <2>2. edits[r] = Null
    BY <2>1 DEF Records, Fresh
  <2>3. \A q \in Requests : Revising(q)' <=> Revising(q)
    BY <2>1, <2>2 DEF Revising
  <2> QED
    BY <1>1, <2>1, <2>3, ThreadStays DEF Open, Unsaved
<1>3. ASSUME NEW q \in Requests, Edit(r, q) PROVE Thread(P)'
  <2>1. /\ phase[r] = "idle" /\ U(q) \in Active /\ interrupted' = interrupted
        /\ edits'[r] = q /\ group'[r] = row[U(q)].group
        /\ \A x \in Requests : x # r => edits'[x] = edits[x] /\ group'[x] = group[x]
        /\ \A x \in Requests : phase'[x] = IF x = r THEN "supersede" ELSE phase[x]
    BY <1>3 DEF Edit, VersionGroup, U, MayStart, Go, bounds, TypeInv, TypeOK
  <2>2. \A x \in Requests : Revising(x)' <=> Revising(x) /\ x # r
    BY <2>1 DEF Revising
  <2>3. ~Revising(r)
    BY <2>1 DEF Revising
  <2> QED
    BY <1>1, <2>1, <2>2, <2>3, ThreadStays DEF Open, Unsaved
<1>4. CASE Load(r) \/ DisposeAgent(r) \/ Register(r) \/ EndRun(r) \/ Leave(r)
  <2>1. PICK to \in Phases :
           /\ edits' = edits /\ group' = group /\ interrupted' = interrupted
           /\ \A q \in Requests : phase'[q] = IF q = r THEN to ELSE phase[q]
           /\ to \notin Unsaved /\ phase[r] \notin Unsaved
           /\ to \in Open => phase[r] \in Open
    BY <1>4 DEF Load, DisposeAgent, Register, EndRun, Leave, Go, turn, bounds, TypeInv, TypeOK, Phases, Open, Unsaved
  <2>2. \A q \in Requests : Revising(q)' <=> Revising(q)
    BY <2>1 DEF Revising, Unsaved
  <2> QED
    BY <1>1, <2>1, <2>2, ThreadStays DEF Unsaved
<1>5. CASE RequestFails(r)
  <2>1. /\ phase[r] # "idle"
        /\ \A q \in Requests : phase'[q] = IF q = r THEN (IF phase[r] = "finish" THEN "leave" ELSE "over")
                                           ELSE phase[q]
        /\ \A q \in Requests : q # r => edits'[q] = edits[q] /\ group'[q] = group[q]
        /\ interrupted' = (interrupted \/ (phase[r] = "insert" /\ edits[r] # Null))
    BY <1>5 DEF RequestFails, Go, turn, Forget, TypeInv, TypeOK
  <2>2. \A q \in Requests : Revising(q)' <=> Revising(q) /\ q # r
    BY <2>1 DEF Revising
  <2>3. ~interrupted' => ~interrupted /\ ~Revising(r)
    BY <2>1 DEF Revising
  <2>4. \A q \in Requests : /\ phase'[q] \in Open => phase[q] \in Open
                            /\ phase'[q] \in Unsaved => phase[q] \in Unsaved
                            /\ phase'[q] = "supersede" => phase[q] = "supersede" /\ q # r
    BY <2>1 DEF Open, Unsaved
  <2> QED
    BY <1>1, <2>1, <2>2, <2>3, <2>4, ThreadStays
<1> QED
  BY <1>2, <1>3, <1>4, <1>5

\* A cancel starts or goes on.
LEMMA CancelThread ==
    ASSUME TypeInv, Control, Records, client = "patient", NEW P \in Follows, Thread(P), chat' = "exists",
           NEW k \in Cancels, Cancel(k) \/ Waited(k) \/ ReadTurn(k) \/ DeleteTurn(k)
    PROVE  Thread(P)'
<1>1. UNCHANGED <<phase, edits, group, interrupted, chat>>
  BY DEF Cancel, Waited, ReadTurn, DeleteTurn, thread, turn, bounds
<1>2. \A r \in Requests : Revising(r)' <=> Revising(r)
  BY <1>1 DEF Revising
<1>3. ASSUME row' = row, \A j \in Cancels : j # k => cancel'[j] = cancel[j], Tallied(k)' PROVE Thread(P)'
  <2>1. \A j \in Cancels : cancel'[j] = cancel[j] \/ Tallied(j)'
    BY <1>3
  <2> QED
    BY <1>1, <1>2, <1>3, <2>1, ThreadStays
<1>4. CASE Cancel(k)
  <2>1. /\ row' = row /\ cancel'[k].phase \in {"read", "wait"}
        /\ \A j \in Cancels : j # k => cancel'[j] = cancel[j]
    BY <1>4 DEF Cancel, thread, TypeInv, TypeOK
  <2> QED
    BY <1>3, <2>1 DEF Tallied
<1>5. CASE Waited(k)
  <2>1. row' = row /\ cancel'[k].phase = "read" /\ \A j \in Cancels : j # k => cancel'[j] = cancel[j]
    BY <1>5 DEF Waited, CancelTo, thread, TypeInv, TypeOK
  <2> QED
    BY <1>3, <2>1 DEF Tallied
<1>6. CASE ReadTurn(k)
  <2>1. row' = row /\ \A j \in Cancels : j # k => cancel'[j] = cancel[j]
    BY <1>6 DEF ReadTurn, thread, TypeInv, TypeOK
  <2>2. Tallied(k)'
    BY <1>6, ReadTallied DEF Records, Thread
  <2> QED
    BY <1>3, <2>1, <2>2
<1>7. CASE DeleteTurn(k)
  <2>1. cancel[k].phase = "count"
    BY <1>7 DEF DeleteTurn
  <2>2. CASE /\ Active \subseteq cancel[k].doomed /\ row' = row
             /\ cancel' = [cancel EXCEPT ![k].phase = "drop", ![k].run = Null]
    <3>1. /\ cancel'[k].phase = "drop" /\ cancel'[k].doomed = cancel[k].doomed
          /\ \A j \in Cancels : j # k => cancel'[j] = cancel[j]
      BY <2>2 DEF TypeInv, TypeOK
    <3>2. Kept' = Kept /\ Active' = Active /\ \A q \in Requests : Forked(q)' <=> Forked(q)
      BY <2>2 DEF Kept, Active, Forked
    <3>3. Tallied(k)'
      BY <2>1, <2>2, <3>1, <3>2 DEF Thread, Tallied
    <3> QED
      BY <1>3, <2>2, <3>1, <3>3
  <2>3. CASE Deleted(cancel[k].doomed) /\ cancel' = [cancel EXCEPT ![k] = Answered]
    BY <1>1, <2>1, <2>3, CutThread
  <2> QED
    BY <1>7, <2>2, <2>3, DeleteTurnDeletes DEF TypeInv
<1> QED
  BY <1>4, <1>5, <1>6, <1>7

LEMMA NextThread == TypeInv /\ Control /\ Records /\ ThreadInv /\ [Next]_vars => ThreadInv'
<1> SUFFICES ASSUME TypeInv, Control, Records, ThreadInv, [Next]_vars, client' = "patient"
             PROVE  \E P \in Follows : Thread(P)'
  BY DEF ThreadInv
<1>0. client = "patient"
  <2>1. ASSUME NEW r \in Requests, Asking(r) \/ Running(r) PROVE client' = client
    BY <2>1 DEF Asking, Running, CreateChat, Send, Edit, SupersedeMessagesFrom, Insert, Load, DisposeAgent,
                Register, RequestFails, EndRun, Finish, Leave, bounds
  <2>2. ASSUME NEW k \in Cancels, Cancel(k) \/ Cancelling(k) PROVE client' = client
    BY <2>2 DEF Cancel, Cancelling, Waited, ReadTurn, DeleteTurn, DropChat, bounds
  <2>3. CASE \/ \E m \in Messages : SwitchMessageVersion(m)
             \/ Stop \/ DeleteChat \/ Crash \/ UNCHANGED vars
    BY <2>3 DEF SwitchMessageVersion, Stop, DeleteChat, Crash, bounds, vars
  <2> QED
    BY <2>1, <2>2, <2>3 DEF Next
<1>1. CASE chat' # "exists"
  <2> DEFINE P == [g \in Requests |-> Null]
  <2>1. P \in Follows /\ Known(P)'
    BY DEF Follows, Known
  <2>2. Kept' = {}
    BY <1>1, NextRecorded DEF Records, NoRows
  <2> HIDE DEF P
  <2> QED
    BY <1>1, <2>1, <2>2, NoThreadNow
<1>2. CASE chat' = "exists"
  <2>0. PICK P \in Follows : Thread(P)
    BY <1>0 DEF ThreadInv
  <2>1. ASSUME NEW r \in Requests, CreateChat(r) PROVE \E Q \in Follows : Thread(Q)'
    BY <1>0, <2>1, CreateThread
  <2>2. ASSUME NEW r \in Requests, Insert(r) PROVE \E Q \in Follows : Thread(Q)'
    <3>1. chat = "exists"
      BY <1>2, <2>2 DEF Insert
    <3> QED
      BY <1>0, <2>0, <2>2, <3>1, InsertThread
  <2>3. ASSUME NEW r \in Requests, Finish(r) \/ SupersedeMessagesFrom(r) PROVE Thread(P)'
    <3>1. chat = "exists"
      BY <1>2, <2>3 DEF Finish, SupersedeMessagesFrom
    <3> QED
      BY <1>0, <2>0, <2>3, <3>1, FinishThread, SupersedeThread
  <2>4. ASSUME NEW r \in Requests,
               \/ Send(r) \/ \E q \in Requests : Edit(r, q)
               \/ Load(r) \/ DisposeAgent(r) \/ Register(r) \/ RequestFails(r) \/ EndRun(r) \/ Leave(r)
        PROVE  Thread(P)'
    BY <1>0, <1>2, <2>0, <2>4, RequestThread
  <2>5. ASSUME NEW k \in Cancels, Cancel(k) \/ Waited(k) \/ ReadTurn(k) \/ DeleteTurn(k) PROVE Thread(P)'
    BY <1>0, <1>2, <2>0, <2>5, CancelThread
  <2>6. ASSUME NEW k \in Cancels, DropChat(k) PROVE FALSE
    BY <1>2, <2>6 DEF DropChat
  <2>7. ASSUME NEW m \in Messages, SwitchMessageVersion(m) PROVE Thread(P)'
    BY <1>0, <2>0, <2>7, SwitchThread
  <2>8. CASE Stop \/ UNCHANGED vars
    <3>1. UNCHANGED <<row, chat, phase, edits, group, cancel, interrupted>>
      BY <2>8 DEF Stop, vars, thread, turn, bounds
    <3>2. \A r \in Requests : Revising(r)' <=> Revising(r)
      BY <3>1 DEF Revising
    <3>3. Thread(P)'
      BY <2>0, <3>1, <3>2, ThreadStays
    <3> QED
      BY <3>3
  <2>9. CASE DeleteChat
    BY <1>2, <2>9 DEF DeleteChat
  <2>10. CASE Crash
    <3>1. /\ UNCHANGED <<row, chat>>
          /\ \A r \in Requests : phase'[r] \in {"idle", "over"} /\ (phase'[r] = "idle" => phase[r] = "idle")
          /\ \A k \in Cancels : cancel'[k].phase \in {"idle", "over"}
          /\ interrupted' = (interrupted \/ \E r \in Requests : Revising(r))
      BY <2>10 DEF Crash, thread, Answered, Revising
    <3>2. \A r \in Requests : ~Revising(r)'
      BY <3>1 DEF Revising
    <3>3. \A k \in Cancels : Tallied(k)'
      BY <3>1 DEF Tallied
    <3>4. \A r \in Requests : /\ phase'[r] \notin Open \union {"supersede"}
                              /\ phase'[r] \in Unsaved => phase[r] \in Unsaved
      BY <3>1 DEF Open, Unsaved
    <3>5. Thread(P)'
      BY <2>0, <3>1, <3>2, <3>3, <3>4, ThreadStays
    <3> QED
      BY <3>5
  <2> QED
    BY <2>1, <2>2, <2>3, <2>4, <2>5, <2>6, <2>7, <2>8, <2>9, <2>10 DEF Next, Asking, Running, Cancelling
<1> QED
  BY <1>1, <1>2

ThreadOK == TypeInv /\ Control /\ Records /\ ThreadInv

LEMMA ThreadInvariant == Spec => []ThreadOK
<1>1. Init => ThreadOK
  BY InitTyped, InitControlled, InitRecorded, InitThread DEF ThreadOK
<1>2. ThreadOK /\ [Next]_vars => ThreadOK'
  BY NextTyped, NextControlled, NextRecorded, NextThread DEF ThreadOK, TypeInv
<1> QED
  BY <1>1, <1>2, PTL DEF Spec

\* For every number of requests, cancels, switches and faults, as long as requests
\* do not overlap: an answer is shown exactly where its question is, no message is
\* shown in two of its versions, and none is lost but by an edit that was cut off.
THEOREM ThreadStaysWhole == Spec => []ThreadWhole
<1>1. ThreadOK => ThreadWhole
  <2> SUFFICES ASSUME ThreadOK, client = "patient"
               PROVE  /\ TurnsWhole /\ OneVersion /\ NothingStranded
    BY DEF ThreadOK, TypeInv, ThreadWhole, TurnsWhole, OneVersion, NothingStranded
  <2>1. PICK P \in Follows : Thread(P)
    BY DEF ThreadOK, ThreadInv
  <2>2. TypeInv /\ Times /\ IsFiniteSet(Messages)
    BY MessagesFinite DEF ThreadOK, Records, TypeInv, TypeOK
  <2>3. \A g : IsFiniteSet(Version(g)) /\ IsFiniteSet(Version(g) \intersect Active)
    BY <2>2, FS_Subset DEF Version, Kept
  <2>4. TurnsWhole
    <3>1. \A r \in Requests :
             A(r) \in Kept => U(r) \in Kept /\ row[U(r)].superseded = row[A(r)].superseded
      BY <2>1 DEF Thread, Shape, Turns
    <3> QED
      BY <3>1 DEF TurnsWhole, U, A
  <2>5. OneVersion
    <3> SUFFICES ASSUME NEW g \in Requests, NEW m \in Version(g) \intersect Active,
                        NEW n \in Version(g) \intersect Active
                 PROVE  m = n
      BY <2>3, Counts DEF OneVersion
    <3>1. \A x \in Version(g) : \E q \in Requests : x = U(q)
      BY <2>2, Naming, RequestNumbers, KeptRows DEF TypeInv, TypeOK, Grouped, Version
    <3>2. PICK q \in Requests, r \in Requests : m = U(q) /\ n = U(r)
      BY <3>1
    <3> QED
      BY <2>1, <3>2 DEF Thread, Shape, Versions, Version, Active
  <2>6. NothingStranded
    <3> SUFFICES ASSUME ~interrupted, \A r \in Requests : phase[r] # "insert", NEW m \in Kept \ Active
                 PROVE  \E n \in Batch(m) : n[1] = "user" /\ Cardinality(Version(row[n].group)) > 1
      BY DEF NothingStranded
    <3>1. PICK q \in Requests :
             U(q) \in Kept /\ row[U(q)].superseded = row[m].superseded /\ Forked(q)
      BY <2>1 DEF Thread, Found, Revising
    <3>2. PICK x \in Requests : x # q /\ U(x) \in Kept /\ row[U(x)].group = row[U(q)].group
      BY <3>1 DEF Forked
    <3>3. U(x) # U(q) /\ U(x) \in Version(row[U(q)].group) /\ U(q) \in Version(row[U(q)].group)
      BY <3>1, <3>2, Naming DEF Version
    <3>4. Cardinality(Version(row[U(q)].group)) > 1
      BY <2>3, <3>3, Counts
    <3> QED
      BY <3>1, <3>4, Naming DEF Batch
  <2> QED
    BY <2>4, <2>5, <2>6
<1> QED
  BY <1>1, ThreadInvariant, PTL

\* A cancel that finds the chat empty but for the turn it has read finds no other
\* version in it either.
LEMMA NothingElse ==
    ASSUME ThreadOK, client = "patient", ~interrupted, NEW k \in Cancels, cancel[k].phase = "drop"
    PROVE  \A m \in Kept : m \in Active /\ (m[1] = "assistant" => ~row[m].text)
<1>1. PICK P \in Follows : Thread(P)
  BY DEF ThreadOK, ThreadInv
<1>2. Tallied(k) /\ Found
  BY <1>1 DEF Thread
<1>3. \A r \in Requests : ~Revising(r)
  BY DEF ThreadOK, Control, CancelsWait, Busy, Revising
<1>4. Kept = Active
  <2> SUFFICES ASSUME Kept # Active PROVE FALSE
    OBVIOUS
  <2>1. PICK n \in Requests : U(n) \in Active /\ Forked(n)
    BY <1>2, <1>3 DEF Found
  <2> QED
    BY <1>2, <2>1 DEF Tallied, Active
<1>5. ASSUME NEW m \in Kept, m[1] = "assistant" PROVE ~row[m].text
  <2>1. PICK q \in Requests : m = A(q)
    BY <1>5, Naming DEF Kept
  <2> QED
    BY <1>2, <1>4, <2>1 DEF Tallied
<1> QED
  BY <1>4, <1>5

\* A cancel removes a turn that was not answered, and nothing else, in whichever of
\* its statements the messages go.
THEOREM CancelTakesOnlyEmptyTurn == Spec => CancelTakesEmptyTurn
<1> DEFINE Step == client = "patient" /\ ~interrupted =>
                      \A m \in Kept : (row'[m] = Null /\ chat' # "deleted") =>
                          /\ m \in Active
                          /\ m[1] = "assistant" => ~row[m].text
<1>1. ThreadOK /\ [Next]_vars => [Step]_vars
  <2> SUFFICES ASSUME ThreadOK, [Next]_vars, client = "patient", ~interrupted,
                      NEW m \in Kept, row'[m] = Null, chat' # "deleted"
               PROVE  m \in Active /\ (m[1] = "assistant" => ~row[m].text)
    OBVIOUS
  <2>1. TypeInv /\ TypeOK /\ Records /\ m \in Messages /\ row[m] # Null
    BY DEF ThreadOK, TypeInv, Kept
  <2>2. CASE row' = row
    BY <2>1, <2>2
  <2>3. ASSUME NEW x \in Messages, NEW g, Saved(x, g) PROVE FALSE
    BY <2>1, <2>3 DEF Saved
  <2>4. ASSUME NEW S, NEW T, Marked(S, T) PROVE FALSE
    BY <2>1, <2>4 DEF Marked
  <2>5. ASSUME NEW k \in Cancels, DeleteTurn(k) PROVE m \in Active /\ (m[1] = "assistant" => ~row[m].text)
    <3>1. cancel[k].phase = "count"
      BY <2>5 DEF DeleteTurn
    <3>2. row' = row \/ Deleted(cancel[k].doomed)
      BY <2>1, <2>5, DeleteTurnDeletes
    <3>3. row' = row \/ m \in cancel[k].doomed
      BY <2>1, <3>2 DEF Deleted
    <3>4. Tallied(k)
      BY DEF ThreadOK, ThreadInv, Thread
    <3>5. m[1] = "assistant" => \E q \in Requests : m = A(q)
      BY <2>1, Naming
    <3> QED
      BY <2>2, <3>1, <3>3, <3>4, <3>5 DEF Tallied
  <2>6. ASSUME NEW k \in Cancels, DropChat(k) PROVE m \in Active /\ (m[1] = "assistant" => ~row[m].text)
    BY <2>6, NothingElse DEF DropChat
  <2>7. ASSUME NEW r \in Requests, Asking(r) \/ Running(r)
        PROVE  m \in Active /\ (m[1] = "assistant" => ~row[m].text)
    <3>1. \/ row' = row
          \/ \E x \in Messages : \E g : Saved(x, g)
          \/ \E S, T : Marked(S, T)
      <4>1. CASE CreateChat(r)
        BY <2>1, <4>1, CreateChatSaves, Naming
      <4>2. CASE Insert(r)
        BY <2>1, <4>2, InsertSaves, Naming
      <4>3. CASE Finish(r)
        BY <2>1, <4>3, FinishSaves, Naming
      <4>4. CASE SupersedeMessagesFrom(r)
        BY <2>1, <4>4, SupersedeMarks
      <4>5. CASE \/ Send(r) \/ \E q \in Requests : Edit(r, q)
                 \/ Load(r) \/ DisposeAgent(r) \/ Register(r) \/ RequestFails(r) \/ EndRun(r) \/ Leave(r)
        BY <4>5 DEF Send, Edit, Load, DisposeAgent, Register, RequestFails, EndRun, Leave, thread
      <4> QED
        BY <2>7, <4>1, <4>2, <4>3, <4>4, <4>5 DEF Asking, Running
    <3> QED
      BY <2>2, <2>3, <2>4, <3>1
  <2>8. ASSUME NEW k \in Cancels, Cancel(k) \/ Waited(k) \/ ReadTurn(k) PROVE row' = row
    BY <2>8 DEF Cancel, Waited, ReadTurn, thread
  <2>9. ASSUME NEW x \in Messages, SwitchMessageVersion(x) PROVE FALSE
    BY <2>1, <2>4, <2>9, SwitchMarks
  <2>10. CASE Stop \/ Crash \/ UNCHANGED vars
    BY <2>2, <2>10 DEF Stop, Crash, vars, thread
  <2>11. CASE DeleteChat
    BY <2>11 DEF DeleteChat
  <2> QED
    BY <2>2, <2>5, <2>6, <2>7, <2>8, <2>9, <2>10, <2>11 DEF Next, Cancelling
<1>2. Spec => [][Step]_vars
  BY <1>1, ThreadInvariant, PTL DEF Spec
<1> QED
  BY <1>2 DEF CancelTakesEmptyTurn

=============================================================================
