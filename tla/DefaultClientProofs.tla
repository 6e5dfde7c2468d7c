-------------------------- MODULE DefaultClientProofs ---------------------------
(* What holds of the default client for any number of tasks, crashes and     *)
(* cancellations.                                                            *)
EXTENDS DefaultClient, SequenceTheorems, TLAPS

USE TasksAssumption

States == {"starting", "live", "dead", "closed"}
Helm == [sub : Nat, connected : BOOLEAN]
Sub == [state : States, by : {"default", "call"}]

\* A subprocess that _get_default_client has started is running.
DefaultRuns(s) ==
    /\ s \in DOMAIN subs
    /\ subs[s].by = "default"
    /\ subs[s].state \in Running

\* One task at a time is inside the lock.
Mutex == \A c, d \in lock : c = d

SubsKnown == \A h \in DOMAIN helms : helms[h].sub \in 0 .. Len(subs)

\* A task knows a client that exists; while it connects the default client there is
\* one; while it is inside close() of a client, what the default client was started
\* with has ended, or is not that client's.
Tidy(c) ==
    /\ task[c].helm \in 0 .. Len(helms)
    /\ task[c].pc \in Using => task[c].helm # None
    /\ task[c].pc = "entering" => default # None
    /\ task[c].pc \in {"replacing", "ending"} => \A s \in DOMAIN subs : ~DefaultRuns(s)
    /\ task[c].pc = "closing" =>
           \A s \in DOMAIN subs : DefaultRuns(s) => helms[task[c].helm].sub # s

IInv ==
    /\ TypeOK
    /\ LockHeldInside
    /\ Mutex
    /\ SubsKnown
    /\ DefaultIsClosable
    /\ \A c \in Tasks : Tidy(c)

LEMMA Types ==
    ASSUME TypeOK
    PROVE  /\ helms \in Seq(Helm) /\ subs \in Seq(Sub)
           /\ DOMAIN helms = 1 .. Len(helms) /\ Len(helms) \in Nat
           /\ DOMAIN subs = 1 .. Len(subs) /\ Len(subs) \in Nat
           /\ \A h \in DOMAIN helms : helms[h] \in Helm
           /\ \A s \in DOMAIN subs : subs[s] \in Sub
<1>1. Running \cup {"dead", "closed"} = States
  BY DEF Running, States
<1>2. helms \in Seq(Helm) /\ subs \in Seq(Sub)
  BY <1>1 DEF TypeOK, Helm, Sub
<1> QED
  BY <1>2, LenProperties, ElementOfSeq

LEMMA Initially == Init => IInv
<1> SUFFICES ASSUME Init PROVE IInv
  OBVIOUS
<1>1. ASSUME NEW c \in Tasks
      PROVE  /\ task[c] \in [pc : Places, kind : Kinds, helm : Nat, sub : Nat, attempts : Nat]
             /\ task[c].pc = "idle" /\ task[c].helm = None
  <2>1. PICK k \in Kinds : task[c] = Local("idle", k)
    BY DEF Init
  <2> QED
    BY <2>1 DEF Local, None, Places
<1>2. TypeOK
  BY <1>1 DEF Init, TypeOK, None
<1>3. LockHeldInside /\ Mutex /\ SubsKnown /\ DefaultIsClosable
  BY <1>1 DEF Init, LockHeldInside, Mutex, SubsKnown, DefaultIsClosable, Locked
<1>4. ASSUME NEW c \in Tasks PROVE Tidy(c)
  BY <1>1 DEF Init, Tidy, None, Using
<1> QED
  BY <1>2, <1>3, <1>4 DEF IInv

\* A change of the state of one subprocess.
SubsWith(i, x) == [subs EXCEPT ![i].state = x]

LEMMA SubsChange ==
    ASSUME TypeOK, NEW i, NEW x, i \in DOMAIN subs => x \in States,
           NEW q, q = SubsWith(i, x)
    PROVE  /\ q \in Seq(Sub) /\ Len(q) = Len(subs) /\ DOMAIN q = DOMAIN subs
           /\ \A s \in DOMAIN subs :
                  /\ q[s].by = subs[s].by
                  /\ q[s].state = IF s = i THEN x ELSE subs[s].state
<1>1. \A s \in DOMAIN subs : q[s] = IF s = i THEN [subs[s] EXCEPT !.state = x] ELSE subs[s]
  BY DEF SubsWith
<1>2. \A s \in DOMAIN subs : /\ q[s] \in Sub
                             /\ q[s].by = subs[s].by
                             /\ q[s].state = IF s = i THEN x ELSE subs[s].state
  BY <1>1, Types DEF Sub
<1>3. q \in [1 .. Len(subs) -> Sub]
  BY <1>2, Types DEF SubsWith
<1>4. q \in Seq(Sub) /\ Len(q) = Len(subs)
  BY <1>3, Types
<1> QED
  BY <1>2, <1>4

\* A change of one client.
HelmsWith(i, x) == [helms EXCEPT ![i] = x]

LEMMA HelmsChange ==
    ASSUME TypeOK, NEW i, NEW x, i \in DOMAIN helms => x \in Helm,
           NEW q, q = HelmsWith(i, x)
    PROVE  /\ q \in Seq(Helm) /\ Len(q) = Len(helms) /\ DOMAIN q = DOMAIN helms
           /\ \A h \in DOMAIN helms : q[h] = IF h = i THEN x ELSE helms[h]
<1>1. \A h \in DOMAIN helms : q[h] = IF h = i THEN x ELSE helms[h]
  BY DEF HelmsWith
<1>2. q \in [1 .. Len(helms) -> Helm]
  BY <1>1, Types DEF HelmsWith
<1>3. q \in Seq(Helm) /\ Len(q) = Len(helms)
  BY <1>2, Types
<1> QED
  BY <1>1, <1>3

HelmsConnected(i, b) == [helms EXCEPT ![i].connected = b]

LEMMA ConnectedChange ==
    ASSUME TypeOK, NEW i, NEW b \in BOOLEAN,
           NEW q, q = HelmsConnected(i, b)
    PROVE  /\ q \in Seq(Helm) /\ Len(q) = Len(helms) /\ DOMAIN q = DOMAIN helms
           /\ \A h \in DOMAIN helms : q[h].sub = helms[h].sub
<1>1. i \in DOMAIN helms => [helms[i] EXCEPT !.connected = b] \in Helm
                            /\ [helms[i] EXCEPT !.connected = b].sub = helms[i].sub
  BY Types DEF Helm
<1>2. q = HelmsWith(i, [helms[i] EXCEPT !.connected = b])
  BY DEF HelmsConnected, HelmsWith
<1> DEFINE x == [helms[i] EXCEPT !.connected = b]
<1>3. q = HelmsWith(i, x) /\ (i \in DOMAIN helms => x \in Helm /\ x.sub = helms[i].sub)
  BY <1>1, <1>2
<1> HIDE DEF x
<1>4. /\ q \in Seq(Helm) /\ Len(q) = Len(helms) /\ DOMAIN q = DOMAIN helms
      /\ \A h \in DOMAIN helms : q[h] = IF h = i THEN x ELSE helms[h]
  BY <1>3, HelmsChange
<1> QED
  BY <1>3, <1>4

LEMMA ClearedChange ==
    ASSUME TypeOK, NEW i
    PROVE  /\ Cleared(i) \in Seq(Helm) /\ Len(Cleared(i)) = Len(helms)
           /\ DOMAIN Cleared(i) = DOMAIN helms
           /\ \A h \in DOMAIN helms : Cleared(i)[h].sub = IF h = i THEN None ELSE helms[h].sub
<1> DEFINE x == [sub |-> None, connected |-> FALSE]
<1>1. x \in Helm /\ x.sub = None /\ Cleared(i) = HelmsWith(i, x)
  BY DEF Helm, None, Cleared, HelmsWith
<1> HIDE DEF x
<1>2. /\ Cleared(i) \in Seq(Helm) /\ Len(Cleared(i)) = Len(helms)
      /\ DOMAIN Cleared(i) = DOMAIN helms
      /\ \A h \in DOMAIN helms : Cleared(i)[h] = IF h = i THEN x ELSE helms[h]
  BY <1>1, HelmsChange
<1> QED
  BY <1>1, <1>2

-------------------------------------------------------------------------------
(* Steps that start no subprocess for the default client                    *)

Task == [pc : Places, kind : Kinds, helm : Nat, sub : Nat, attempts : Nat]

\* A subprocess of the default client that is running after the step was running
\* before it, and belongs to the same client.
Steady ==
    \A s \in DOMAIN subs' :
        DefaultRuns(s)' =>
            /\ DefaultRuns(s)
            /\ \A h \in DOMAIN helms : helms'[h].sub = s <=> helms[h].sub = s

\* What becomes of the lock when the locals of c become l.
LockFollows(c, l) ==
    \/ l.pc \in Locked /\ lock \subseteq {c} /\ lock' = {c}
    \/ l.pc \notin Locked /\ lock' = lock \ {c}

LEMMA LockStays ==
    ASSUME IInv, NEW c \in Tasks, NEW l \in Task, task' = [task EXCEPT ![c] = l],
           LockFollows(c, l)
    PROVE  LockHeldInside' /\ Mutex' /\ lock' \subseteq Tasks
<1>1. \A d \in Tasks : task'[d] = IF d = c THEN l ELSE task[d]
  BY DEF IInv, TypeOK
<1>2. CASE l.pc \in Locked /\ lock \subseteq {c} /\ lock' = {c}
  <2>1. \A d \in Tasks : d # c => task[d].pc \notin Locked
    BY <1>2 DEF IInv, LockHeldInside
  <2> QED
    BY <1>1, <1>2, <2>1 DEF LockHeldInside, Mutex
<1>3. CASE l.pc \notin Locked /\ lock' = lock \ {c}
  BY <1>1, <1>3 DEF IInv, LockHeldInside, Mutex, TypeOK
<1> QED
  BY <1>2, <1>3 DEF LockFollows

\* What a step owes the invariant if nothing new runs for the default client.
LEMMA SteadyOwed ==
    ASSUME IInv, task' \in [Tasks -> Task], Steady,
           LockHeldInside', Mutex', lock' \subseteq Tasks,
           helms' \in Seq(Helm), Len(helms') = Len(helms), SubsKnown',
           subs' \in Seq(Sub), faults' \in Nat,
           \/ default' = default
           \/ /\ default' = None
              /\ \A s \in DOMAIN subs' : ~DefaultRuns(s)'
              /\ \A d \in Tasks : task'[d].pc # "entering",
           \A d \in Tasks : task'[d] = task[d] \/ Tidy(d)'
    PROVE  IInv'
<1>1. TypeOK'
  <2>1. Running \cup {"dead", "closed"} = States
    BY DEF Running, States
  <2>2. default' \in 0 .. Len(helms')
    BY DEF IInv, TypeOK, None
  <2> QED
    BY <2>1, <2>2 DEF TypeOK, Task, Helm, Sub
<1>2. DefaultIsClosable'
  <2> SUFFICES ASSUME NEW s \in DOMAIN subs', DefaultRuns(s)'
               PROVE  default' # None /\ helms'[default'].sub = s
    BY DEF DefaultIsClosable, DefaultRuns
  <2>1. DefaultRuns(s) /\ default' = default
    BY DEF Steady
  <2>2. default # None /\ helms[default].sub = s
    BY <2>1 DEF IInv, DefaultIsClosable, DefaultRuns
  <2>3. default \in DOMAIN helms
    BY <2>2, Types DEF IInv, TypeOK, None
  <2> QED
    BY <2>1, <2>2, <2>3 DEF Steady
<1>3. ASSUME NEW d \in Tasks, task'[d] = task[d] PROVE Tidy(d)'
  <2>1. Tidy(d)
    BY DEF IInv
  <2>2. ASSUME task[d].pc = "closing", NEW s \in DOMAIN subs', DefaultRuns(s)'
        PROVE  helms'[task[d].helm].sub # s
    <3>1. DefaultRuns(s) /\ s \in DOMAIN subs
      BY <2>2 DEF Steady, DefaultRuns
    <3>2. helms[task[d].helm].sub # s
      BY <2>1, <2>2, <3>1 DEF Tidy
    <3>3. task[d].helm \in DOMAIN helms
      BY <2>1, <2>2, Types DEF Tidy, Using, None, IInv
    <3> QED
      BY <2>2, <3>2, <3>3 DEF Steady
  <2>3. ASSUME task[d].pc \in {"replacing", "ending"}, NEW s \in DOMAIN subs'
        PROVE  ~DefaultRuns(s)'
    BY <2>1, <2>3 DEF Tidy, Steady, DefaultRuns
  <2>4. task[d].pc = "entering" => default' # None
    BY <1>3, <2>1 DEF Tidy
  <2> QED
    BY <1>3, <2>1, <2>2, <2>3, <2>4 DEF Tidy
<1> QED
  BY <1>1, <1>2, <1>3 DEF IInv

\* The same for a step of one task.
LEMMA TaskOwed ==
    ASSUME IInv, NEW c \in Tasks, NEW l \in Task, task' = [task EXCEPT ![c] = l],
           LockFollows(c, l), Steady,
           helms' \in Seq(Helm), Len(helms') = Len(helms), SubsKnown',
           subs' \in Seq(Sub), faults' \in Nat,
           \/ default' = default
           \/ /\ default' = None /\ l.pc # "entering"
              /\ lock \subseteq {c}
              /\ \A s \in DOMAIN subs' : ~DefaultRuns(s)',
           Tidy(c)'
    PROVE  IInv'
<1>1. task' \in [Tasks -> Task] /\ \A d \in Tasks : task'[d] = IF d = c THEN l ELSE task[d]
  BY DEF IInv, TypeOK, Task
<1>2. LockHeldInside' /\ Mutex' /\ lock' \subseteq Tasks
  BY LockStays
<1>3. lock \subseteq {c} => \A d \in Tasks : d # c => task[d].pc # "entering"
  BY DEF IInv, LockHeldInside, Locked
<1>4. \A d \in Tasks : task'[d] = task[d] \/ Tidy(d)'
  BY <1>1
<1> QED
  BY <1>1, <1>2, <1>3, <1>4, SteadyOwed

\* A step that leaves the default client and the clients' subprocesses as they are,
\* apart from a subprocess that starts, ends or is closed.
LEMMA CallOwed ==
    ASSUME IInv, NEW c \in Tasks, NEW l \in Task, task' = [task EXCEPT ![c] = l],
           LockFollows(c, l), UNCHANGED default,
           l.pc \notin {"replacing", "ending", "closing", "entering"},
           l.helm \in 0 .. Len(helms), l.pc \in Using => l.helm # None,
           helms' \in Seq(Helm), Len(helms') = Len(helms),
           \A h \in DOMAIN helms : helms'[h].sub = helms[h].sub,
           subs' \in Seq(Sub), Len(subs') = Len(subs),
           \A s \in DOMAIN subs :
               /\ subs'[s].by = subs[s].by
               /\ subs'[s].state \in Running => subs[s].state \in Running,
           faults' \in Nat
    PROVE  IInv'
<1>1. DOMAIN subs' = DOMAIN subs /\ DOMAIN helms' = DOMAIN helms
  BY Types, LenProperties DEF IInv
<1>2. Steady
  BY <1>1 DEF Steady, DefaultRuns
<1>3. SubsKnown'
  BY <1>1 DEF IInv, SubsKnown
<1>4. Tidy(c)'
  <2>1. task'[c] = l
    BY DEF IInv, TypeOK
  <2> QED
    BY <2>1 DEF Tidy
<1> QED
  BY <1>2, <1>3, <1>4, TaskOwed

-------------------------------------------------------------------------------
(* A call with a client of its own                                          *)

\* Where a turn of call_tool may lead.
LEMMA Moves ==
    ASSUME IInv, NEW c \in Tasks,
           \/ End(c) \/ NextTurn(c) \/ Goto(c, "backoff") \/ Goto(c, "locking")
           \/ \E h \in Helm : RawCall(c, h)
    PROVE  \E l \in Task :
               /\ task' = [task EXCEPT ![c] = l]
               /\ l.pc \in {"done", "backoff", "locking", "calling"}
               /\ l.helm = task[c].helm \/ (l.pc = "done" /\ l.helm = None)
<1> USE DEF Task, Places, Using
<1>1. task[c] \in Task
  BY DEF IInv, TypeOK
<1>2. CASE End(c)
  <2>1. Local("done", task[c].kind) \in Task
    BY <1>1 DEF Local, None
  <2>2. task' = [task EXCEPT ![c] = Local("done", task[c].kind)]
    BY <1>2 DEF End
  <2> QED
    BY <2>1, <2>2 DEF Local
<1>3. ASSUME NEW place \in {"backoff", "locking"}, Goto(c, place)
      PROVE  /\ task' = [task EXCEPT ![c] = [task[c] EXCEPT !.pc = place]]
             /\ [task[c] EXCEPT !.pc = place] \in Task
  BY <1>1, <1>3 DEF Goto
<1>4. CASE Goto(c, "backoff") \/ Goto(c, "locking")
  BY <1>1, <1>3, <1>4
<1>5. CASE NextTurn(c) /\ ~End(c)
  <2> DEFINE l == [task[c] EXCEPT !.attempts = @ + 1, !.sub = None, !.pc = "backoff"]
  <2>1. task[c].attempts + 1 \in Nat /\ None \in Nat /\ "backoff" \in Places
    BY <1>1 DEF None
  <2>2. l \in Task /\ l.pc = "backoff" /\ l.helm = task[c].helm
    BY <1>1, <2>1
  <2>3. task' = [task EXCEPT ![c] = l]
    BY <1>5 DEF NextTurn
  <2> QED
    BY <2>2, <2>3
<1>6. ASSUME NEW h \in Helm, RawCall(c, h), ~End(c)
      PROVE  \E l \in Task : /\ task' = [task EXCEPT ![c] = l]
                             /\ l.pc = "calling" /\ l.helm = task[c].helm
  <2> DEFINE l == [task[c] EXCEPT !.pc = "calling", !.sub = h.sub]
  <2>1. l \in Task /\ l.pc = "calling" /\ l.helm = task[c].helm
    BY <1>1 DEF Helm
  <2>2. task' = [task EXCEPT ![c] = l]
    BY <1>6 DEF RawCall
  <2> QED
    BY <2>1, <2>2
<1> QED
  BY <1>2, <1>4, <1>5, <1>6

\* A call that uses its client and does not hold the lock: such a move keeps the
\* invariant, whatever the step does to the state of a subprocess or of the client.
LEMMA MoveKeeps ==
    ASSUME IInv, NEW c \in Tasks, task[c].pc \in Using \cup {"idle", "locking"},
           NEW l \in Task, task' = [task EXCEPT ![c] = l],
           l.pc \in {"done", "backoff", "locking", "calling"},
           l.helm = task[c].helm \/ (l.pc = "done" /\ l.helm = None),
           l.pc \in Using => task[c].pc \in Using,
           UNCHANGED <<default, lock>>,
           helms' \in Seq(Helm), Len(helms') = Len(helms),
           \A h \in DOMAIN helms : helms'[h].sub = helms[h].sub,
           subs' \in Seq(Sub), Len(subs') = Len(subs),
           \A s \in DOMAIN subs :
               /\ subs'[s].by = subs[s].by
               /\ subs'[s].state \in Running => subs[s].state \in Running,
           faults' \in Nat
    PROVE  IInv'
<1>1. c \notin lock
  BY DEF IInv, LockHeldInside, Locked, Using
<1>2. LockFollows(c, l)
  BY <1>1 DEF LockFollows, Locked
<1>3. l.helm \in 0 .. Len(helms) /\ (l.pc \in Using => l.helm # None)
  <2>1. Tidy(c) /\ Len(helms) \in Nat
    BY Types DEF IInv
  <2> QED
    BY <2>1 DEF Tidy, Using, None
<1> QED
  BY <1>2, <1>3, CallOwed

LEMMA ClientHelm ==
    ASSUME IInv, NEW c \in Tasks, task[c].pc \in Using
    PROVE  task[c].helm \in DOMAIN helms /\ helms[task[c].helm] \in Helm
BY Types DEF IInv, Tidy, None

LEMMA SameSeqs ==
    ASSUME IInv
    PROVE  /\ helms \in Seq(Helm) /\ subs \in Seq(Sub)
           /\ faults \in Nat
BY Types DEF IInv, TypeOK

LEMMA CallKeeps ==
    ASSUME IInv, NEW c \in Tasks,
           Start(c) \/ RequireRaises(c) \/ FirstTurn(c) \/ Return(c)
    PROVE  IInv'
<1>1. UNCHANGED <<default, lock, helms, subs, faults>>
  BY DEF Start, RequireRaises, FirstTurn, Return
<1>2. CASE Start(c)
  <2>1. PICK l \in Task : /\ task' = [task EXCEPT ![c] = l]
                          /\ l.pc \in {"done", "backoff", "locking", "calling"}
                          /\ l.helm = task[c].helm \/ (l.pc = "done" /\ l.helm = None)
    BY <1>2, Moves DEF Start
  <2>2. l.pc = "locking"
    BY <1>2, <2>1 DEF Start, Goto, IInv, TypeOK
  <2> QED
    BY <1>1, <1>2, <2>1, <2>2, MoveKeeps, SameSeqs DEF Start, At, Using
<1>3. CASE RequireRaises(c) \/ FirstTurn(c) \/ Return(c)
  <2>1. task[c].pc \in Using
    BY <1>3 DEF RequireRaises, FirstTurn, Return, At, Using
  <2>2. PICK l \in Task : /\ task' = [task EXCEPT ![c] = l]
                          /\ l.pc \in {"done", "backoff", "locking", "calling"}
                          /\ l.helm = task[c].helm \/ (l.pc = "done" /\ l.helm = None)
    BY <1>3, <2>1, Moves, ClientHelm DEF RequireRaises, FirstTurn, Return
  <2> QED
    BY <1>1, <2>1, <2>2, MoveKeeps, SameSeqs
<1> QED
  BY <1>2, <1>3

LEMMA EnterRaisesIs ==
    ASSUME IInv, NEW i, EnterRaises(i)
    PROVE  /\ subs' \in Seq(Sub) /\ Len(subs') = Len(subs) /\ faults' \in Nat
           /\ \A s \in DOMAIN subs :
                  /\ subs'[s].by = subs[s].by
                  /\ subs'[s].state \in Running => subs[s].state \in Running
<1>1. TypeOK /\ faults \in Nat
  BY DEF IInv, TypeOK
<1>2. CASE Fault /\ subs' = [subs EXCEPT ![i].state = "dead"]
  <2>1. subs' = SubsWith(i, "dead") /\ "dead" \in States
    BY <1>2 DEF SubsWith, States
  <2>2. faults' \in Nat
    BY <1>1, <1>2 DEF Fault
  <2> QED
    BY <1>1, <2>1, <2>2, SubsChange DEF Running
<1>3. CASE UNCHANGED <<subs, faults>>
  BY <1>1, <1>3, Types
<1> QED
  BY <1>2, <1>3 DEF EnterRaises

LEMMA EnteredIs ==
    ASSUME IInv, NEW i, Entered(i)
    PROVE  /\ subs' \in Seq(Sub) /\ Len(subs') = Len(subs)
           /\ \A s \in DOMAIN subs :
                  /\ subs'[s].by = subs[s].by
                  /\ subs'[s].state \in Running => subs[s].state \in Running
<1> DEFINE x == IF subs[i].state = "starting" THEN "live" ELSE subs[i].state
<1>1. i \in DOMAIN subs => x \in States
  BY Types DEF IInv, Sub, States
<1>2. subs' = SubsWith(i, x)
  BY DEF Entered, SubsWith
<1>3. x \in Running => subs[i].state \in Running
  BY DEF Running
<1> HIDE DEF x
<1> QED
  BY <1>1, <1>2, <1>3, SubsChange DEF IInv

\* The steps that only say whether a client is connected.
LEMMA ConnectKeeps ==
    ASSUME IInv, NEW c \in Tasks,
           Disconnect(c) \/ ReconnectEntered(c) \/ ReconnectFails(c)
    PROVE  IInv'
<1>1. task[c].pc \in Using
  BY DEF Disconnect, ReconnectEntered, ReconnectFails, At, Using
<1>2. PICK b \in BOOLEAN : helms' = HelmsConnected(task[c].helm, b)
  BY DEF Disconnect, ReconnectEntered, ReconnectFails, HelmsConnected
<1>3. /\ helms' \in Seq(Helm) /\ Len(helms') = Len(helms)
      /\ \A h \in DOMAIN helms : helms'[h].sub = helms[h].sub
  BY <1>2, ConnectedChange DEF IInv
<1>4. PICK l \in Task : /\ task' = [task EXCEPT ![c] = l]
                        /\ l.pc \in {"done", "backoff", "locking", "calling"}
                        /\ l.helm = task[c].helm \/ (l.pc = "done" /\ l.helm = None)
  BY <1>1, Moves, ClientHelm DEF Disconnect, ReconnectEntered, ReconnectFails
<1>5. /\ subs' \in Seq(Sub) /\ Len(subs') = Len(subs) /\ faults' \in Nat
      /\ \A s \in DOMAIN subs :
             /\ subs'[s].by = subs[s].by
             /\ subs'[s].state \in Running => subs[s].state \in Running
  <2>1. CASE Disconnect(c)
    BY <2>1, SameSeqs DEF Disconnect
  <2>2. CASE ReconnectEntered(c)
    BY <2>2, SameSeqs, EnteredIs DEF ReconnectEntered
  <2>3. CASE ReconnectFails(c)
    BY <2>3, EnterRaisesIs DEF ReconnectFails
  <2> QED
    BY <2>1, <2>2, <2>3
<1>6. UNCHANGED <<default, lock>>
  BY DEF Disconnect, ReconnectEntered, ReconnectFails
<1> QED
  BY <1>1, <1>3, <1>4, <1>5, <1>6, MoveKeeps

\* After close() has begun nothing of this client's runs.
LEMMA CloseKeeps ==
    ASSUME IInv, NEW c \in Tasks, ReconnectClose(c)
    PROVE  IInv'
<1> DEFINE h == task[c].helm
           i == helms[h].sub
           l == [task[c] EXCEPT !.pc = "closing"]
<1>1. task[c] \in Task /\ task[c].pc = "backoff" /\ task[c].pc \in Using
  BY DEF ReconnectClose, At, IInv, TypeOK, Task, Using
<1>2. l \in Task /\ l.pc = "closing" /\ l.helm = h
  BY <1>1 DEF Task, Places, Using
<1>3. task' = [task EXCEPT ![c] = l]
  BY <1>1 DEF ReconnectClose, Goto
<1>4. subs' = SubsWith(i, "closed") /\ "closed" \in States
      /\ UNCHANGED <<default, lock, helms, faults>>
  BY DEF ReconnectClose, Exit, SubsWith, States
<1>5. /\ subs' \in Seq(Sub) /\ Len(subs') = Len(subs) /\ DOMAIN subs' = DOMAIN subs
      /\ \A s \in DOMAIN subs :
             /\ subs'[s].by = subs[s].by
             /\ subs'[s].state = IF s = i THEN "closed" ELSE subs[s].state
  BY <1>4, SubsChange DEF IInv
<1>6. \A s \in DOMAIN subs' : DefaultRuns(s)' => DefaultRuns(s) /\ s # i
  BY <1>5 DEF DefaultRuns, Running
<1>7. Steady
  BY <1>4, <1>6 DEF Steady
<1>8. c \notin lock
  BY <1>1 DEF IInv, LockHeldInside, Locked
<1>9. LockFollows(c, l)
  BY <1>2, <1>4, <1>8 DEF LockFollows, Locked
<1>10. task'[c] = l
  BY <1>3 DEF IInv, TypeOK
<1>11. Tidy(c)
  BY DEF IInv
<1>12. Tidy(c)'
  BY <1>1, <1>2, <1>4, <1>6, <1>10, <1>11 DEF Tidy, Using
<1>13. SubsKnown'
  BY <1>4, <1>5 DEF IInv, SubsKnown
<1> HIDE DEF l, i, h
<1> QED
  BY <1>2, <1>3, <1>4, <1>5, <1>7, <1>9, <1>12, <1>13, SameSeqs, TaskOwed

\* A client that has been closed, or was empty, has none of the default client's
\* subprocesses.
LEMMA Emptied ==
    ASSUME IInv, NEW c \in Tasks,
           task[c].pc = "closing" \/ (task[c].pc \in Using /\ helms[task[c].helm].sub = None)
    PROVE  \A s \in DOMAIN subs : DefaultRuns(s) => helms[task[c].helm].sub # s
BY Types DEF IInv, Tidy, None

LEMMA CreateKeeps ==
    ASSUME IInv, NEW c \in Tasks, ReconnectCreate(c)
    PROVE  IInv'
<1> DEFINE h == task[c].helm
<1>1. /\ task[c].pc \in {"closing", "backoff"} /\ task[c].pc \in Using /\ task[c] \in Task
      /\ task[c].pc = "closing" \/ helms[h].sub = None
  BY DEF ReconnectCreate, At, IInv, TypeOK, Task, Using
<1>2. /\ \A s \in DOMAIN subs : DefaultRuns(s) => helms[h].sub # s
      /\ h \in DOMAIN helms
  BY <1>1, Emptied, ClientHelm
<1>3. c \notin lock /\ UNCHANGED <<default, lock>>
  BY <1>1 DEF IInv, LockHeldInside, Locked, ReconnectCreate
<1>4. Tidy(c)
  BY DEF IInv
<1>5. CASE Fault /\ helms' = Cleared(h) /\ NextTurn(c) /\ UNCHANGED subs
  <2>1. /\ helms' \in Seq(Helm) /\ Len(helms') = Len(helms) /\ DOMAIN helms' = DOMAIN helms
        /\ \A k \in DOMAIN helms : helms'[k].sub = IF k = h THEN None ELSE helms[k].sub
    BY <1>5, ClearedChange DEF IInv
  <2>2. PICK l \in Task : /\ task' = [task EXCEPT ![c] = l]
                          /\ l.pc \in {"done", "backoff", "locking", "calling"}
                          /\ l.helm = task[c].helm \/ (l.pc = "done" /\ l.helm = None)
    BY <1>5, Moves
  <2>3. LockFollows(c, l)
    BY <1>3, <2>2 DEF LockFollows, Locked
  <2>4. \A s \in DOMAIN subs : s # None
    BY Types DEF IInv, None
  <2>5. Steady
    BY <1>2, <1>5, <2>1, <2>4 DEF Steady, DefaultRuns
  <2>6. SubsKnown'
    BY <1>5, <2>1, Types DEF IInv, SubsKnown, None
  <2>7. Tidy(c)'
    <3>1. task'[c] = l
      BY <2>2 DEF IInv, TypeOK
    <3>2. None \in 0 .. Len(helms)
      BY Types DEF IInv, None
    <3> QED
      BY <1>1, <1>4, <2>1, <2>2, <3>1, <3>2 DEF Tidy, Using
  <2>8. faults' \in Nat
    BY <1>5, SameSeqs DEF Fault
  <2> QED
    BY <1>3, <1>5, <2>1, <2>2, <2>3, <2>5, <2>6, <2>7, <2>8, SameSeqs, TaskOwed
<1>6. CASE ~(Fault /\ helms' = Cleared(h) /\ NextTurn(c) /\ UNCHANGED subs)
  <2> DEFINE n == [state |-> "starting", by |-> "call"]
             b == helms[h].connected /\ At(c, "backoff")
             x == [sub |-> Len(subs) + 1, connected |-> b]
             l == [task[c] EXCEPT !.pc = "connecting", !.sub = Len(subs) + 1]
  <2>1. /\ subs' = Append(subs, n)
        /\ helms' = HelmsWith(h, x)
        /\ task' = [task EXCEPT ![c] = l]
        /\ UNCHANGED faults
    BY <1>1, <1>6 DEF ReconnectCreate, Cleared, HelmsWith
  <2>2. Len(subs) \in Nat /\ n \in Sub /\ x \in Helm /\ l \in Task
        /\ l.pc = "connecting" /\ l.helm = h
    <3>1. Len(subs) \in Nat
      BY Types DEF IInv
    <3>2. b \in BOOLEAN
      BY <1>2, Types DEF IInv, Helm
    <3> HIDE DEF b
    <3>3. n \in Sub
      BY DEF Sub, States
    <3>4. x \in Helm
      BY <3>1, <3>2 DEF Helm
    <3>5. l \in Task /\ l.pc = "connecting" /\ l.helm = h
      <4>1. "connecting" \in Places /\ Len(subs) + 1 \in Nat
        BY <3>1 DEF Places, Using
      <4>2. task[c] \in Task
        BY <1>1
      <4> QED
        BY <4>1, <4>2 DEF Task
    <3> QED
      BY <3>1, <3>3, <3>4, <3>5
  <2>3. /\ subs' \in Seq(Sub) /\ Len(subs') = Len(subs) + 1
        /\ DOMAIN subs' = 1 .. Len(subs) + 1
        /\ \A s \in 1 .. Len(subs) : subs'[s] = subs[s]
        /\ subs'[Len(subs) + 1] = n
    BY <2>1, <2>2, SameSeqs, AppendProperties, LenProperties
  <2>4. x.sub = Len(subs) + 1 /\ n.by = "call"
    OBVIOUS
  <2> HIDE DEF x, n, b
  <2>5. /\ helms' \in Seq(Helm) /\ Len(helms') = Len(helms) /\ DOMAIN helms' = DOMAIN helms
        /\ \A k \in DOMAIN helms : helms'[k] = IF k = h THEN x ELSE helms[k]
    BY <2>1, <2>2, HelmsChange DEF IInv
  <2>6. Steady
    <3> SUFFICES ASSUME NEW s \in DOMAIN subs', DefaultRuns(s)'
                 PROVE  /\ DefaultRuns(s)
                        /\ \A k \in DOMAIN helms : helms'[k].sub = s <=> helms[k].sub = s
      BY DEF Steady
    <3>1. s \in 1 .. Len(subs)
      BY <2>2, <2>3, <2>4 DEF DefaultRuns
    <3>2. DefaultRuns(s) /\ s \in DOMAIN subs
      BY <2>3, <3>1, Types DEF DefaultRuns, IInv
    <3>3. helms[h].sub # s /\ x.sub # s
      BY <1>2, <2>2, <2>4, <3>1, <3>2
    <3> QED
      BY <2>5, <3>2, <3>3
  <2>7. SubsKnown'
    BY <2>2, <2>3, <2>4, <2>5 DEF IInv, SubsKnown
  <2>8. task'[c] = l
    BY <2>1 DEF IInv, TypeOK
  <2>9. Tidy(c)'
    BY <1>1, <1>4, <2>2, <2>5, <2>8 DEF Tidy, Using
  <2>10. LockFollows(c, l)
    BY <1>3, <2>2 DEF LockFollows, Locked
  <2> HIDE DEF l
  <2> QED
    BY <1>3, <2>1, <2>2, <2>3, <2>5, <2>6, <2>7, <2>9, <2>10, SameSeqs, TaskOwed
<1> QED
  BY <1>5, <1>6

-------------------------------------------------------------------------------
(* The default client                                                       *)

\* A task with the lock, and one that takes it, are alone.
LEMMA Alone ==
    ASSUME IInv, NEW c \in Tasks,
           task[c].pc \in Locked \/ (task[c].pc = "locking" /\ lock = {})
    PROVE  /\ lock \subseteq {c} /\ lock \ {c} = {}
           /\ \A d \in Tasks : d # c => task[d].pc \notin Locked
<1>1. CASE task[c].pc \in Locked
  <2>1. c \in lock
    BY <1>1 DEF IInv, LockHeldInside
  <2>2. \A d \in lock : d = c
    BY <2>1 DEF IInv, Mutex
  <2> QED
    BY <2>1, <2>2 DEF IInv, LockHeldInside
<1>2. CASE task[c].pc = "locking" /\ lock = {}
  BY <1>2 DEF IInv, LockHeldInside
<1> QED
  BY <1>1, <1>2

\* The end of a function of the module, whatever the task held.
LEMMA Ends ==
    ASSUME IInv, NEW c \in Tasks, End(c)
    PROVE  \E l \in Task : /\ task' = [task EXCEPT ![c] = l]
                           /\ l.pc = "done" /\ l.helm = None
<1>1. task[c] \in Task
  BY DEF IInv, TypeOK, Task
<1>2. Local("done", task[c].kind) \in Task
  BY <1>1 DEF Local, None, Task, Places
<1>3. task' = [task EXCEPT ![c] = Local("done", task[c].kind)]
  BY DEF End
<1> QED
  BY <1>2, <1>3 DEF Local

\* What has ended has nothing left to be tidy about.
LEMMA EndedIsTidy ==
    ASSUME IInv, NEW c \in Tasks, NEW l \in Task, task' = [task EXCEPT ![c] = l],
           l.pc = "done", l.helm = None, Len(helms') \in Nat
    PROVE  Tidy(c)'
<1>1. task'[c] = l
  BY DEF IInv, TypeOK
<1> QED
  BY <1>1 DEF Tidy, Using, None

LEMMA ObtainKeeps ==
    ASSUME IInv, NEW c \in Tasks,
           task[c].pc = "entering" \/ (task[c].pc = "locking" /\ lock = {}),
           default # None, Obtain(c, default), UNCHANGED default,
           helms' \in Seq(Helm), Len(helms') = Len(helms),
           \A h \in DOMAIN helms : helms'[h].sub = helms[h].sub,
           subs' \in Seq(Sub), Len(subs') = Len(subs),
           \A s \in DOMAIN subs :
               /\ subs'[s].by = subs[s].by
               /\ subs'[s].state \in Running => subs[s].state \in Running,
           faults' \in Nat
    PROVE  IInv'
<1> DEFINE l == [task[c] EXCEPT !.pc = "queued", !.helm = default]
<1>1. task[c] \in Task /\ default \in 0 .. Len(helms) /\ Len(helms) \in Nat
  BY Types DEF IInv, TypeOK, Task
<1>2. l \in Task /\ l.pc = "queued" /\ l.helm = default
  <2>1. "queued" \in Places /\ default \in Nat
    BY <1>1 DEF Places, Using
  <2> QED
    BY <1>1, <2>1 DEF Task
<1>3. task' = [task EXCEPT ![c] = l] /\ lock' = {}
  BY <1>1 DEF Obtain
<1>4. LockFollows(c, l)
  BY <1>2, <1>3, Alone DEF LockFollows, Locked
<1> HIDE DEF l
<1> QED
  BY <1>1, <1>2, <1>3, <1>4, CallOwed

\* close() of the default client: from here on nothing runs that was started for it.
LEMMA ExitKeeps ==
    ASSUME IInv, NEW c \in Tasks, task[c].pc = "locking", lock = {},
           NEW place \in {"replacing", "ending"}, Goto(c, place), lock' = {c},
           Exit(helms[default].sub), UNCHANGED <<default, helms, faults>>
    PROVE  IInv'
<1> DEFINE i == helms[default].sub
           l == [task[c] EXCEPT !.pc = place]
<1>1. task[c] \in Task
  BY DEF IInv, TypeOK, Task
<1>2. l \in Task /\ l.pc = place /\ l.helm = task[c].helm
  BY <1>1 DEF Task, Places, Locked
<1>3. task' = [task EXCEPT ![c] = l]
  BY <1>1 DEF Goto
<1>4. subs' = SubsWith(i, "closed") /\ "closed" \in States
  BY DEF Exit, SubsWith, States
<1>5. /\ subs' \in Seq(Sub) /\ Len(subs') = Len(subs) /\ DOMAIN subs' = DOMAIN subs
      /\ \A s \in DOMAIN subs :
             /\ subs'[s].by = subs[s].by
             /\ subs'[s].state = IF s = i THEN "closed" ELSE subs[s].state
  BY <1>4, SubsChange DEF IInv
<1>6. \A s \in DOMAIN subs' : ~DefaultRuns(s)'
  <2> SUFFICES ASSUME NEW s \in DOMAIN subs', DefaultRuns(s)' PROVE FALSE
    OBVIOUS
  <2>1. DefaultRuns(s) /\ s # i
    BY <1>5 DEF DefaultRuns, Running
  <2> QED
    BY <2>1 DEF IInv, DefaultIsClosable, DefaultRuns
<1>7. Steady
  BY <1>6 DEF Steady
<1>8. LockFollows(c, l)
  BY <1>2 DEF LockFollows, Locked
<1>9. task'[c] = l
  BY <1>3 DEF IInv, TypeOK
<1>10. Tidy(c)
  BY DEF IInv
<1>11. Tidy(c)'
  BY <1>2, <1>6, <1>9, <1>10 DEF Tidy, Using
<1>12. SubsKnown'
  BY <1>5 DEF IInv, SubsKnown
<1> HIDE DEF l, i
<1> QED
  BY <1>2, <1>3, <1>5, <1>7, <1>8, <1>11, <1>12, SameSeqs, TaskOwed

\* A new default client, when nothing runs that was started for an old one.
LEMMA MakeKeeps ==
    ASSUME IInv, NEW c \in Tasks,
           task[c].pc = "replacing" \/ (task[c].pc = "locking" /\ lock = {}),
           \A s \in DOMAIN subs : ~DefaultRuns(s),
           NEW old \in Seq(Helm), Len(old) = Len(helms),
           \A h \in DOMAIN helms : old[h].sub \in {helms[h].sub, None},
           MakeDefault(c, old)
    PROVE  IInv'
<1> DEFINE H == Len(helms)
           S == Len(subs)
<1>1. H \in Nat /\ S \in Nat /\ DOMAIN helms = 1 .. H /\ DOMAIN subs = 1 .. S
  BY Types DEF IInv
<1>2. PICK x \in Helm : /\ helms' = Append(old, x)
                        /\ \/ /\ x.sub = S + 1
                              /\ subs' = Append(subs, [state |-> "starting", by |-> "default"])
                              /\ lock' = {c} /\ Goto(c, "entering") /\ UNCHANGED faults
                           \/ /\ x.sub = None
                              /\ lock' = {} /\ Fault /\ End(c) /\ UNCHANGED subs
  <2>1. /\ [sub |-> S + 1, connected |-> FALSE] \in Helm
        /\ [sub |-> None, connected |-> FALSE] \in Helm
    BY <1>1 DEF Helm, None
  <2> QED
    BY <2>1 DEF MakeDefault
<1>3. /\ helms' \in Seq(Helm) /\ Len(helms') = H + 1 /\ DOMAIN helms' = 1 .. H + 1
      /\ helms'[H + 1] = x
      /\ \A h \in 1 .. H : helms'[h] = old[h]
  BY <1>2, <1>1, AppendProperties, LenProperties
<1>4. /\ subs' \in Seq(Sub) /\ Len(subs') \in {S, S + 1} /\ x.sub \in 0 .. Len(subs')
      /\ DOMAIN subs' = 1 .. Len(subs')
      /\ \A s \in DOMAIN subs' : DefaultRuns(s)' => s = S + 1 /\ x.sub = s
  <2>1. CASE subs' = Append(subs, [state |-> "starting", by |-> "default"]) /\ x.sub = S + 1
    <3>1. [state |-> "starting", by |-> "default"] \in Sub
      BY DEF Sub, States
    <3>2. /\ subs' \in Seq(Sub) /\ Len(subs') = S + 1 /\ DOMAIN subs' = 1 .. S + 1
          /\ \A s \in 1 .. S : subs'[s] = subs[s]
      BY <1>1, <2>1, <3>1, SameSeqs, AppendProperties, LenProperties
    <3>3. \A s \in DOMAIN subs' : DefaultRuns(s)' => s = S + 1
      BY <1>1, <3>2 DEF DefaultRuns
    <3> QED
      BY <1>1, <2>1, <3>2, <3>3
  <2>2. CASE UNCHANGED subs /\ x.sub = None
    BY <1>1, <2>2, SameSeqs DEF None, DefaultRuns
  <2> QED
    BY <1>2, <2>1, <2>2
<1>5. default' = H + 1
  BY DEF MakeDefault
<1>6. \E l \in Task : /\ task' = [task EXCEPT ![c] = l]
                      /\ LockFollows(c, l)
                      /\ l.pc \in {"entering", "done"} /\ l.helm \in {task[c].helm, None}
                      /\ faults' \in Nat
  <2>1. CASE lock' = {c} /\ Goto(c, "entering") /\ UNCHANGED faults
    <3> DEFINE l == [task[c] EXCEPT !.pc = "entering"]
    <3>1. task[c] \in Task
      BY DEF IInv, TypeOK, Task
    <3>2. l \in Task /\ l.pc = "entering" /\ l.helm = task[c].helm
      BY <3>1 DEF Task, Places, Locked
    <3>3. task' = [task EXCEPT ![c] = l]
      BY <2>1, <3>1 DEF Goto
    <3>4. LockFollows(c, l)
      BY <2>1, <3>2, Alone DEF LockFollows, Locked
    <3>5. faults' \in Nat
      BY <2>1, SameSeqs
    <3> HIDE DEF l
    <3> QED
      BY <3>2, <3>3, <3>4, <3>5
  <2>2. CASE lock' = {} /\ Fault /\ End(c)
    <3>1. PICK l \in Task : /\ task' = [task EXCEPT ![c] = l]
                            /\ l.pc = "done" /\ l.helm = None
      BY <2>2, Ends
    <3>2. LockFollows(c, l)
      BY <2>2, <3>1, Alone DEF LockFollows, Locked
    <3>3. faults' \in Nat
      BY <2>2, SameSeqs DEF Fault
    <3> QED
      BY <3>1, <3>2, <3>3
  <2> QED
    BY <1>2, <2>1, <2>2
<1>7. PICK l \in Task : /\ task' = [task EXCEPT ![c] = l]
                        /\ LockFollows(c, l)
                        /\ l.pc \in {"entering", "done"} /\ l.helm \in {task[c].helm, None}
  BY <1>6
<1>8. task' \in [Tasks -> Task] /\ \A d \in Tasks : task'[d] = IF d = c THEN l ELSE task[d]
  BY <1>7 DEF IInv, TypeOK, Task
<1>9. LockHeldInside' /\ Mutex' /\ lock' \subseteq Tasks
  BY <1>7, LockStays
<1>10. TypeOK'
  <2>1. Running \cup {"dead", "closed"} = States
    BY DEF Running, States
  <2>2. default' \in 0 .. Len(helms')
    BY <1>1, <1>3, <1>5
  <2> QED
    BY <1>3, <1>4, <1>6, <1>8, <1>9, <2>1, <2>2 DEF TypeOK, Task, Helm, Sub
<1>11. SubsKnown'
  <2> SUFFICES ASSUME NEW h \in 1 .. H + 1
               PROVE  helms'[h].sub \in 0 .. Len(subs')
    BY <1>3 DEF SubsKnown
  <2>1. CASE h = H + 1
    BY <1>3, <1>4, <2>1
  <2>2. CASE h # H + 1
    <3>1. h \in 1 .. H
      BY <1>1, <2>2
    <3>2. helms[h].sub \in 0 .. S /\ old[h].sub \in {helms[h].sub, None}
      BY <1>1, <3>1 DEF IInv, SubsKnown
    <3>3. old[h].sub \in 0 .. S
      BY <1>1, <3>2 DEF None
    <3>4. helms'[h].sub \in 0 .. S /\ (Len(subs') = S \/ Len(subs') = S + 1)
      BY <1>3, <1>4, <3>1, <3>3
    <3> QED
      BY <1>1, <3>4
  <2> QED
    BY <2>1, <2>2
<1>12. DefaultIsClosable'
  <2> SUFFICES ASSUME NEW s \in DOMAIN subs', DefaultRuns(s)'
               PROVE  default' # None /\ helms'[default'].sub = s
    BY DEF DefaultIsClosable, DefaultRuns
  <2>1. x.sub = s
    BY <1>4
  <2> QED
    BY <1>1, <1>3, <1>5, <2>1 DEF None
<1>13. ASSUME NEW d \in Tasks PROVE Tidy(d)'
  <2>1. Tidy(d) /\ Tidy(c)
    BY DEF IInv
  <2>2. CASE d = c
    <3>1. task'[d] = l
      BY <1>8, <2>2
    <3>2. l.helm \in 0 .. Len(helms')
      BY <1>1, <1>3, <1>7, <2>1 DEF Tidy, None
    <3>3. default' # None
      BY <1>1, <1>5 DEF None
    <3> QED
      BY <1>7, <3>1, <3>2, <3>3 DEF Tidy, Using
  <2>3. CASE d # c
    <3>1. task'[d] = task[d] /\ task[d].pc \notin Locked
      BY <1>8, <2>3, Alone DEF Locked
    <3>2. task[d].helm \in 0 .. Len(helms')
      BY <1>1, <1>3, <2>1 DEF Tidy
    <3>3. ASSUME task[d].pc = "closing", NEW s \in DOMAIN subs', DefaultRuns(s)'
          PROVE  helms'[task[d].helm].sub # s
      <4>1. task[d].helm \in 1 .. H /\ s = S + 1
        <5>1. task[d].helm \in 0 .. H /\ task[d].helm # 0
          BY <2>1, <3>3 DEF Tidy, Using, None
        <5>2. s = S + 1
          BY <1>4, <3>3
        <5> QED
          BY <1>1, <5>1, <5>2
      <4>2. helms'[task[d].helm].sub \in 0 .. S
        BY <1>1, <1>3, <4>1 DEF IInv, SubsKnown, None
      <4> QED
        BY <1>1, <4>1, <4>2
    <3> QED
      BY <2>1, <3>1, <3>2, <3>3 DEF Tidy, Locked
  <2> QED
    BY <2>2, <2>3
<1> QED
  BY <1>9, <1>10, <1>11, <1>12, <1>13 DEF IInv

LEMMA OldHelms ==
    ASSUME IInv
    PROVE  /\ helms \in Seq(Helm) /\ \A h \in DOMAIN helms : helms[h].sub \in {helms[h].sub, None}
           /\ Cleared(default) \in Seq(Helm) /\ Len(Cleared(default)) = Len(helms)
           /\ \A h \in DOMAIN helms : Cleared(default)[h].sub \in {helms[h].sub, None}
BY Types, ClearedChange DEF IInv

\* If the default client has nothing, nothing runs that was started for it.
LEMMA NothingRuns ==
    ASSUME IInv, default # None => helms[default].sub = None
    PROVE  \A s \in DOMAIN subs : ~DefaultRuns(s)
BY Types DEF IInv, DefaultIsClosable, DefaultRuns, None

LEMMA GetKeeps ==
    ASSUME IInv, NEW c \in Tasks, GetDefault(c)
    PROVE  IInv'
<1>1. task[c].pc = "locking" /\ lock = {}
  BY DEF GetDefault, At
<1>2. CASE default # None /\ Obtain(c, default) /\ UNCHANGED <<default, helms, subs, faults>>
  BY <1>1, <1>2, ObtainKeeps, SameSeqs
<1>3. CASE /\ lock' = {c} /\ Goto(c, "replacing") /\ Exit(helms[default].sub)
           /\ UNCHANGED <<default, helms, faults>>
  BY <1>1, <1>3, ExitKeeps
<1>4. CASE /\ default # None => ~helms[default].connected /\ helms[default].sub = None
           /\ MakeDefault(c, helms)
  BY <1>1, <1>4, NothingRuns, OldHelms, MakeKeeps
<1> QED
  BY <1>2, <1>3, <1>4 DEF GetDefault

LEMMA ReplaceKeeps ==
    ASSUME IInv, NEW c \in Tasks, Replace(c)
    PROVE  IInv'
<1>1. task[c].pc = "replacing" /\ Tidy(c)
  BY DEF Replace, At, IInv
<1>2. \A s \in DOMAIN subs : ~DefaultRuns(s)
  BY <1>1 DEF Tidy
<1> QED
  BY <1>1, <1>2, OldHelms, MakeKeeps DEF Replace

LEMMA ConnectedKeeps ==
    ASSUME IInv, NEW c \in Tasks, DefaultEntered(c) \/ DefaultFails(c)
    PROVE  IInv'
<1>1. task[c].pc = "entering" /\ default # None /\ UNCHANGED default
  BY DEF DefaultEntered, DefaultFails, At, IInv, Tidy
<1>2. CASE DefaultEntered(c)
  <2>1. helms' = HelmsConnected(default, TRUE)
    BY <1>2 DEF DefaultEntered, HelmsConnected
  <2>2. /\ helms' \in Seq(Helm) /\ Len(helms') = Len(helms)
        /\ \A h \in DOMAIN helms : helms'[h].sub = helms[h].sub
    BY <2>1, ConnectedChange DEF IInv
  <2>3. /\ subs' \in Seq(Sub) /\ Len(subs') = Len(subs)
        /\ \A s \in DOMAIN subs :
               /\ subs'[s].by = subs[s].by
               /\ subs'[s].state \in Running => subs[s].state \in Running
    BY <1>2, EnteredIs DEF DefaultEntered
  <2> QED
    BY <1>1, <1>2, <2>2, <2>3, ObtainKeeps, SameSeqs DEF DefaultEntered
<1>3. CASE DefaultFails(c)
  <2>1. PICK l \in Task : /\ task' = [task EXCEPT ![c] = l]
                          /\ l.pc = "done" /\ l.helm = None
    BY <1>3, Ends DEF DefaultFails
  <2>2. LockFollows(c, l)
    BY <1>1, <1>3, <2>1, Alone DEF DefaultFails, LockFollows, Locked
  <2>3. /\ subs' \in Seq(Sub) /\ Len(subs') = Len(subs) /\ faults' \in Nat
        /\ \A s \in DOMAIN subs :
               /\ subs'[s].by = subs[s].by
               /\ subs'[s].state \in Running => subs[s].state \in Running
    BY <1>3, EnterRaisesIs DEF DefaultFails
  <2>4. l.helm \in 0 .. Len(helms) /\ l.pc \notin Using
    BY <2>1, Types DEF IInv, None, Using
  <2> QED
    BY <1>1, <1>3, <2>1, <2>2, <2>3, <2>4, CallOwed, SameSeqs DEF DefaultFails
<1> QED
  BY <1>2, <1>3

\* The default client is gone, and so is what was started for it.
LEMMA GoneKeeps ==
    ASSUME IInv, NEW c \in Tasks,
           task[c].pc \in Locked \/ (task[c].pc = "locking" /\ lock = {}),
           \A s \in DOMAIN subs : ~DefaultRuns(s),
           End(c), lock' = {}, default' = None, UNCHANGED <<subs, faults>>,
           helms' \in Seq(Helm), Len(helms') = Len(helms),
           \A h \in DOMAIN helms : helms'[h].sub \in {helms[h].sub, None}
    PROVE  IInv'
<1>1. PICK l \in Task : /\ task' = [task EXCEPT ![c] = l]
                        /\ l.pc = "done" /\ l.helm = None
  BY Ends
<1>2. LockFollows(c, l) /\ lock \subseteq {c}
  BY <1>1, Alone DEF LockFollows, Locked
<1>3. \A s \in DOMAIN subs' : ~DefaultRuns(s)'
  BY DEF DefaultRuns
<1>4. Steady
  BY <1>3 DEF Steady
<1>5. SubsKnown'
  <2>1. DOMAIN helms' = DOMAIN helms
    BY Types, LenProperties DEF IInv
  <2>2. Len(subs) \in Nat
    BY Types DEF IInv
  <2> QED
    BY <2>1, <2>2 DEF IInv, SubsKnown, None
<1>6. Tidy(c)'
  BY <1>1, EndedIsTidy, LenProperties
<1> QED
  BY <1>1, <1>2, <1>3, <1>4, <1>5, <1>6, SameSeqs, TaskOwed

LEMMA CloseDefaultKeeps ==
    ASSUME IInv, NEW c \in Tasks, CloseDefault(c)
    PROVE  IInv'
<1>1. task[c].pc = "locking" /\ lock = {} /\ UNCHANGED <<helms, faults>>
  BY DEF CloseDefault, At
<1>2. CASE default # None /\ helms[default].sub # None
  BY <1>1, <1>2, ExitKeeps DEF CloseDefault
<1>3. CASE ~(default # None /\ helms[default].sub # None)
  BY <1>1, <1>3, NothingRuns, GoneKeeps, SameSeqs DEF CloseDefault
<1> QED
  BY <1>2, <1>3

LEMMA ClosedKeeps ==
    ASSUME IInv, NEW c \in Tasks, DefaultClosed(c)
    PROVE  IInv'
<1>1. task[c].pc = "ending" /\ Tidy(c)
  BY DEF DefaultClosed, At, IInv
<1>2. \A s \in DOMAIN subs : ~DefaultRuns(s)
  BY <1>1 DEF Tidy
<1> QED
  BY <1>1, <1>2, OldHelms, GoneKeeps DEF DefaultClosed, Locked

\* A cancelled task gives the lock back, and a close() under way its finally clause.
LEMMA CancelKeeps ==
    ASSUME IInv, NEW c \in Tasks, Cancel(c)
    PROVE  IInv'
<1>1. PICK l \in Task : /\ task' = [task EXCEPT ![c] = l]
                        /\ l.pc = "done" /\ l.helm = None
  BY Ends DEF Cancel
<1>2. LockFollows(c, l) /\ UNCHANGED <<default, subs, faults>>
  BY <1>1 DEF Cancel, LockFollows, Locked
<1>3. Tidy(c)
  BY DEF IInv
<1>4. ASSUME NEW h, helms' = Cleared(h),
             \A s \in DOMAIN subs : DefaultRuns(s) => helms[h].sub # s
      PROVE  IInv'
  <2>1. /\ helms' \in Seq(Helm) /\ Len(helms') = Len(helms) /\ DOMAIN helms' = DOMAIN helms
        /\ \A k \in DOMAIN helms : helms'[k].sub = IF k = h THEN None ELSE helms[k].sub
    BY <1>4, ClearedChange DEF IInv
  <2>2. \A s \in DOMAIN subs : s # None
    BY Types DEF IInv, None
  <2>3. Steady
    BY <1>2, <1>4, <2>1, <2>2 DEF Steady, DefaultRuns
  <2>4. SubsKnown'
    BY <1>2, <2>1, Types DEF IInv, SubsKnown, None
  <2>5. Tidy(c)'
    BY <1>1, <2>1, EndedIsTidy, LenProperties
  <2> QED
    BY <1>1, <1>2, <2>1, <2>3, <2>4, <2>5, SameSeqs, TaskOwed
<1>5. CASE task[c].pc \in {"replacing", "ending"}
  BY <1>3, <1>4, <1>5 DEF Cancel, Tidy
<1>6. CASE task[c].pc = "closing"
  BY <1>4, <1>6, Emptied DEF Cancel, At
<1>7. CASE task[c].pc \notin {"replacing", "ending", "closing"}
  <2>1. UNCHANGED helms
    BY <1>7 DEF Cancel, At
  <2>2. l.helm \in 0 .. Len(helms) /\ l.pc \notin Using
    BY <1>1, Types DEF IInv, None, Using
  <2> QED
    BY <1>1, <1>2, <2>1, <2>2, CallOwed, SameSeqs
<1> QED
  BY <1>5, <1>6, <1>7

\* A step of no task.
LEMMA OtherKeeps ==
    ASSUME IInv, Crash \/ UNCHANGED vars
    PROVE  IInv'
<1>1. UNCHANGED <<task, default, lock, helms>>
  BY DEF Crash, vars
<1>2. /\ subs' \in Seq(Sub) /\ Len(subs') = Len(subs) /\ DOMAIN subs' = DOMAIN subs
      /\ faults' \in Nat
      /\ \A s \in DOMAIN subs :
             /\ subs'[s].by = subs[s].by
             /\ subs'[s].state \in Running => subs[s].state \in Running
  <2>1. CASE Crash
    <3>1. PICK s \in DOMAIN subs : subs' = SubsWith(s, "dead")
      BY <2>1 DEF Crash, SubsWith
    <3>2. "dead" \in States
      BY DEF States
    <3>3. faults' \in Nat
      BY <2>1, SameSeqs DEF Crash, Fault
    <3> QED
      BY <3>1, <3>2, <3>3, SubsChange DEF IInv, Running
  <2>2. CASE UNCHANGED vars
    BY <2>2, SameSeqs DEF vars
  <2> QED
    BY <2>1, <2>2
<1>3. Steady
  BY <1>1, <1>2 DEF Steady, DefaultRuns
<1>4. SubsKnown'
  BY <1>1, <1>2 DEF IInv, SubsKnown
<1>5. LockHeldInside' /\ Mutex' /\ lock' \subseteq Tasks /\ task' \in [Tasks -> Task]
  BY <1>1 DEF IInv, LockHeldInside, Mutex, TypeOK, Task
<1> QED
  BY <1>1, <1>2, <1>3, <1>4, <1>5, SameSeqs, SteadyOwed

LEMMA Preserved == IInv /\ [Next]_vars => IInv'
<1> SUFFICES ASSUME IInv, [Next]_vars PROVE IInv'
  OBVIOUS
<1>1. ASSUME NEW c \in Tasks, Progress(c) PROVE IInv'
  BY <1>1, GetKeeps, ReplaceKeeps, ConnectedKeeps, CloseDefaultKeeps, ClosedKeeps, CallKeeps,
     ConnectKeeps, CloseKeeps, CreateKeeps DEF Progress
<1>2. ASSUME NEW c \in Tasks, Start(c) \/ Cancel(c) PROVE IInv'
  BY <1>2, CallKeeps, CancelKeeps
<1> QED
  BY <1>1, <1>2, OtherKeeps DEF Next, Terminated

LEMMA Inductive == Spec => []IInv
BY Initially, Preserved, PTL DEF Spec

-------------------------------------------------------------------------------
\* The module's globals and the locals of any number of tasks keep their types.
THEOREM GlobalsTypeCorrect == Spec => []TypeOK
<1>1. IInv => TypeOK
  BY DEF IInv
<1> QED
  BY <1>1, Inductive, PTL

\* The lock is held by the task inside it and by nobody else, also after a
\* cancellation at any await (tools.py 1042, 1057).
THEOREM LockIsHeldInside == Spec => []LockHeldInside
<1>1. IInv => LockHeldInside
  BY DEF IInv
<1> QED
  BY <1>1, Inductive, PTL

\* What _get_default_client has started runs only while close_default_client would
\* end it, for any number of tasks, crashes and cancellations (tools.py 1039-1060).
THEOREM DefaultCanBeClosed == Spec => []DefaultIsClosable
<1>1. IInv => DefaultIsClosable
  BY DEF IInv
<1> QED
  BY <1>1, Inductive, PTL
===============================================================================
