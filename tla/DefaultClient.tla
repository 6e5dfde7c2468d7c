----------------------------- MODULE DefaultClient -----------------------------
(***************************************************************************)
(* python/src/helm_mcp/tools.py: the module-level default client, which the *)
(* convenience functions share.  A call takes the default HelmClient under   *)
(* _default_lock and then uses it without the lock, while other calls may    *)
(* replace or close it.                                                     *)
(*                                                                         *)
(* Of a HelmClient this module has its connection and the reconnection loop; *)
(* its breaker, tenacity and deadlines, which HelmClient models, only end a  *)
(* call that is under way or leave it there.                                *)
(***************************************************************************)
EXTENDS Naturals, Sequences

CONSTANTS
    Tasks,         \* coroutines; each runs one function of the module, once
    Cancellable,   \* those that the application may cancel
    MaxReconnects, \* DEFAULT_MAX_RECONNECTS
    MaxFaults      \* bound: crashes and failed starts of the subprocess

ASSUME TasksAssumption ==
    /\ Cancellable \subseteq Tasks
    /\ MaxReconnects \in Nat /\ MaxFaults \in Nat

VARIABLES
    task,    \* the locals of each task
    default, \* _default_client, an index into helms, or None
    lock,    \* the tasks that hold _default_lock: one or none
    helms,   \* every HelmClient made: its self._client and self._connected
    subs,    \* every subprocess started, and who started it
    faults   \* history

vars == <<task, default, lock, helms, subs, faults>>

None == 0

\* The functions that only read are replayed, those that change something are
\* not; "close" is close_default_client.
Kinds == {"read", "mutate", "close"}

\* Places with the lock, and places with a client of one's own.
Locked == {"replacing", "entering", "ending"}
Using == {"queued", "calling", "backoff", "closing", "connecting"}
Places == {"idle", "locking", "done"} \cup Locked \cup Using

Running == {"starting", "live"}

TypeOK ==
    /\ task \in [Tasks -> [pc : Places, kind : Kinds, helm : Nat, sub : Nat, attempts : Nat]]
    /\ helms \in Seq([sub : Nat, connected : BOOLEAN])
    /\ subs \in Seq([state : Running \cup {"dead", "closed"}, by : {"default", "call"}])
    /\ default \in 0 .. Len(helms)
    /\ lock \subseteq Tasks
    /\ faults \in Nat

Local(place, kind) ==
    [pc |-> place, kind |-> kind, helm |-> None, sub |-> None, attempts |-> 0]

Init ==
    /\ task \in [Tasks -> {Local("idle", k) : k \in Kinds}]
    /\ default = None
    /\ lock = {}
    /\ helms = <<>>
    /\ subs = <<>>
    /\ faults = 0

At(c, place) == task[c].pc = place
Goto(c, place) == task' = [task EXCEPT ![c].pc = place]

\* The function returns or raises.
End(c) == task' = [task EXCEPT ![c] = Local("done", @.kind)]

Fault == faults < MaxFaults /\ faults' = faults + 1

\* What close() of a HelmClient begins with, and what its finally clause does.
Exit(sub) == subs' = [subs EXCEPT ![sub].state = "closed"]
Cleared(helm) == [helms EXCEPT ![helm] = [sub |-> None, connected |-> FALSE]]

Entered(sub) ==
    subs' = [subs EXCEPT ![sub].state = IF @ = "starting" THEN "live" ELSE @]

\* __aenter__ raises: the subprocess did not start, or it was closed meanwhile.
EnterRaises(sub) ==
    \/ /\ subs[sub].state = "starting"
       /\ Fault
       /\ subs' = [subs EXCEPT ![sub].state = "dead"]
    \/ subs[sub].state = "closed" /\ UNCHANGED <<subs, faults>>

-------------------------------------------------------------------------------
(* _get_default_client and close_default_client                             *)

Start(c) ==
    /\ At(c, "idle")
    /\ Goto(c, "locking")
    /\ UNCHANGED <<default, lock, helms, subs, faults>>

\* HelmClient() becomes the default before it is connected.
MakeDefault(c, old) ==
    /\ default' = Len(helms) + 1
    /\ \/ /\ subs' = Append(subs, [state |-> "starting", by |-> "default"])
          /\ helms' = Append(old, [sub |-> Len(subs) + 1, connected |-> FALSE])
          /\ lock' = {c}
          /\ Goto(c, "entering")
          /\ UNCHANGED faults
       \/ /\ helms' = Append(old, [sub |-> None, connected |-> FALSE])
          /\ lock' = {}
          /\ Fault
          /\ End(c)
          /\ UNCHANGED subs

\* The caller has the client, and the lock is free again.
Obtain(c, helm) ==
    /\ task' = [task EXCEPT ![c].pc = "queued", ![c].helm = helm]
    /\ lock' = {}

\* A mutant: a client that is not connected is not worth closing.
GetDefaultNotClosing(c) ==
    /\ At(c, "locking")
    /\ task[c].kind # "close"
    /\ lock = {}
    /\ \/ /\ default # None
          /\ helms[default].connected
          /\ Obtain(c, default)
          /\ UNCHANGED <<default, helms, subs, faults>>
       \/ /\ default # None => ~helms[default].connected
          /\ MakeDefault(c, helms)

\* `async with _default_lock` up to the next await: the default client is used
\* if it is connected, and otherwise replaced, after it was closed.
GetDefault(c) ==
    /\ At(c, "locking")
    /\ task[c].kind # "close"
    /\ lock = {}
    /\ \/ /\ default # None
          /\ helms[default].connected
          /\ Obtain(c, default)
          /\ UNCHANGED <<default, helms, subs, faults>>
       \/ /\ default # None
          /\ ~helms[default].connected
          /\ helms[default].sub # None
          /\ lock' = {c}
          /\ Goto(c, "replacing")
          /\ Exit(helms[default].sub)
          /\ UNCHANGED <<default, helms, faults>>
       \/ /\ default # None => ~helms[default].connected /\ helms[default].sub = None
          /\ MakeDefault(c, helms)

Replace(c) ==
    /\ At(c, "replacing")
    /\ MakeDefault(c, Cleared(default))

\* connect() sets self._connected and the client is returned.
DefaultEntered(c) ==
    /\ At(c, "entering")
    /\ Entered(helms[default].sub)
    /\ helms' = [helms EXCEPT ![default].connected = TRUE]
    /\ Obtain(c, default)
    /\ UNCHANGED <<default, faults>>

\* It stays the default client, and the next call replaces it.
DefaultFails(c) ==
    /\ At(c, "entering")
    /\ EnterRaises(helms[default].sub)
    /\ lock' = {}
    /\ End(c)
    /\ UNCHANGED <<default, helms>>

CloseDefault(c) ==
    /\ At(c, "locking")
    /\ task[c].kind = "close"
    /\ lock = {}
    /\ IF default # None /\ helms[default].sub # None
       THEN /\ lock' = {c}
            /\ Goto(c, "ending")
            /\ Exit(helms[default].sub)
            /\ UNCHANGED default
       ELSE /\ lock' = {}
            /\ End(c)
            /\ default' = None
            /\ UNCHANGED subs
    /\ UNCHANGED <<helms, faults>>

DefaultClosed(c) ==
    /\ At(c, "ending")
    /\ helms' = Cleared(default)
    /\ default' = None
    /\ lock' = {}
    /\ End(c)
    /\ UNCHANGED <<subs, faults>>

-------------------------------------------------------------------------------
(* A wrapper method of HelmClient: call_tool                                *)

\* `attempts += 1; continue`.
NextTurn(c) ==
    IF task[c].attempts + 1 > MaxReconnects THEN End(c)
    ELSE task' = [task EXCEPT ![c].attempts = @ + 1, ![c].sub = None, ![c].pc = "backoff"]

\* _raw_call reads self._client.
RawCall(c, helm) ==
    IF helm.sub = None THEN End(c)
    ELSE task' = [task EXCEPT ![c].pc = "calling", ![c].sub = helm.sub]

\* An argument is missing (ValueError).
RequireRaises(c) ==
    /\ At(c, "queued")
    /\ End(c)
    /\ UNCHANGED <<default, lock, helms, subs, faults>>

\* A permit of the bulkhead is there; the client may have changed meanwhile.
FirstTurn(c) ==
    /\ At(c, "queued")
    /\ LET helm == helms[task[c].helm]
       IN  IF helm.connected /\ helm.sub # None THEN RawCall(c, helm) ELSE Goto(c, "backoff")
    /\ UNCHANGED <<default, lock, helms, subs, faults>>

\* A result, an error result, a deadline.
Return(c) ==
    /\ At(c, "calling")
    /\ End(c)
    /\ UNCHANGED <<default, lock, helms, subs, faults>>

\* OSError: whatever subprocess its HelmClient has by now, it is disconnected.
Disconnect(c) ==
    /\ At(c, "calling")
    /\ subs[task[c].sub].state \in {"dead", "closed"}
    /\ helms' = [helms EXCEPT ![task[c].helm].connected = FALSE]
    /\ IF task[c].kind = "mutate" THEN End(c) ELSE NextTurn(c)
    /\ UNCHANGED <<default, lock, subs, faults>>

ReconnectClose(c) ==
    /\ At(c, "backoff")
    /\ LET sub == helms[task[c].helm].sub
       IN  sub # None /\ Exit(sub)
    /\ Goto(c, "closing")
    /\ UNCHANGED <<default, lock, helms, faults>>

\* close() has returned, or had nothing to close; then connect().
ReconnectCreate(c) ==
    LET helm == task[c].helm
    IN  /\ At(c, "closing") \/ (At(c, "backoff") /\ helms[helm].sub = None)
        /\ \/ /\ subs' = Append(subs, [state |-> "starting", by |-> "call"])
              /\ helms' = [Cleared(helm) EXCEPT ![helm].sub = Len(subs) + 1,
                                               ![helm].connected = helms[helm].connected
                                                                   /\ At(c, "backoff")]
              /\ task' = [task EXCEPT ![c].pc = "connecting", ![c].sub = Len(subs) + 1]
              /\ UNCHANGED faults
           \/ /\ Fault
              /\ helms' = Cleared(helm)
              /\ NextTurn(c)
              /\ UNCHANGED subs
        /\ UNCHANGED <<default, lock>>

ReconnectEntered(c) ==
    /\ At(c, "connecting")
    /\ Entered(task[c].sub)
    /\ helms' = [helms EXCEPT ![task[c].helm].connected = TRUE]
    /\ RawCall(c, helms[task[c].helm])
    /\ UNCHANGED <<default, lock, faults>>

ReconnectFails(c) ==
    /\ At(c, "connecting")
    /\ EnterRaises(task[c].sub)
    /\ helms' = [helms EXCEPT ![task[c].helm].connected = FALSE]
    /\ NextTurn(c)
    /\ UNCHANGED <<default, lock>>

-------------------------------------------------------------------------------

\* A mutant: the lock is released on the way out of the try block only.
CancelKeepsLock(c) ==
    /\ c \in Cancellable
    /\ task[c].pc \notin {"idle", "done"}
    /\ End(c)
    /\ helms' = IF task[c].pc \in {"replacing", "ending"} THEN Cleared(default)
                ELSE IF At(c, "closing") THEN Cleared(task[c].helm)
                ELSE helms
    /\ UNCHANGED <<default, lock, subs, faults>>

\* CancelledError at an await: the lock is released, and a close() that was
\* under way runs its finally clause.
Cancel(c) ==
    /\ c \in Cancellable
    /\ task[c].pc \notin {"idle", "done"}
    /\ End(c)
    /\ lock' = lock \ {c}
    /\ helms' = IF task[c].pc \in {"replacing", "ending"} THEN Cleared(default)
                ELSE IF At(c, "closing") THEN Cleared(task[c].helm)
                ELSE helms
    /\ UNCHANGED <<default, subs, faults>>

\* The Go subprocess goes away.
Crash ==
    /\ Fault
    /\ \E s \in DOMAIN subs :
           /\ subs[s].state = "live"
           /\ subs' = [subs EXCEPT ![s].state = "dead"]
    /\ UNCHANGED <<task, default, lock, helms>>

Terminated == (\A c \in Tasks : At(c, "done")) /\ UNCHANGED vars

Progress(c) ==
    \/ GetDefault(c) \/ Replace(c) \/ DefaultEntered(c) \/ DefaultFails(c)
    \/ CloseDefault(c) \/ DefaultClosed(c)
    \/ RequireRaises(c) \/ FirstTurn(c) \/ Return(c) \/ Disconnect(c)
    \/ ReconnectClose(c) \/ ReconnectCreate(c) \/ ReconnectEntered(c) \/ ReconnectFails(c)

Next ==
    \/ \E c \in Tasks : Start(c) \/ Progress(c) \/ Cancel(c)
    \/ Crash
    \/ Terminated

Spec == Init /\ [][Next]_vars

\* The event loop runs every ready task, deadlines end a tool call, and a
\* subprocess answers the handshake or dies.
FairSpec == Spec /\ \A c \in Tasks : WF_vars(Progress(c))

-------------------------------------------------------------------------------
(* Properties                                                               *)

\* The lock is held by the task that is inside `async with _default_lock`, and by
\* nobody else, on every way out of it (tools.py 1042, 1057).
LockHeldInside ==
    lock = {c \in Tasks : task[c].pc \in Locked}

\* "Call this during application shutdown for clean cleanup" (tools.py:1054):
\* however calls, crashes and cancellations interleave, a subprocess that
\* _get_default_client has started runs only while it is the default client's,
\* so that close_default_client ends it.
DefaultIsClosable ==
    \A s \in DOMAIN subs :
        subs[s].by = "default" /\ subs[s].state \in Running =>
            default # None /\ helms[default].sub = s

\* Every function of the module returns or raises: nobody waits for ever for the
\* lock, which is held while a subprocess starts (tools.py 1042-1047).
TaskEnds == \A c \in Tasks : At(c, "locking") ~> At(c, "done")
================================================================================
