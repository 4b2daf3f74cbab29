-------------------------------- MODULE Elog --------------------------------
(***************************************************************************)
(* The event log (elog/elog.go): a circular buffer that goroutines fill    *)
(* without a lock.  A writer claims a slot by an atomic increment of the   *)
(* index and then writes the event piece by piece; NewView, Clear, Enable  *)
(* and DisableAfter set the lock bit of the index meanwhile.               *)
(*                                                                         *)
(* The bit is the variable locked; with it set the index is greater than   *)
(* any other.  Events are numbered in the order in which slots are         *)
(* claimed.                                                                *)
(***************************************************************************)
EXTENDS Integers, Sequences, FiniteSets

CONSTANTS
  Writers,      \* goroutines that log events
  Controllers,  \* goroutines that call the other operations
  Cap,          \* 1 << log2Len
  MaxEvents,    \* bound: events logged
  MaxCalls      \* bound: calls of all controllers

ASSUME ElogAssumption ==
  /\ IsFiniteSet(Writers) /\ Cap \in Nat \ {0, 1}
  /\ MaxEvents \in Nat /\ MaxCalls \in Nat

Forever == MaxEvents + Cardinality(Writers) + 1   \* ^lockBit, which index never reaches
Nothing == 0                                      \* what a slot holds before the first event

VARIABLES
  index, locked,  \* Buffer.index
  disableIndex,
  events,         \* Buffer.events: the numbers of the event that wrote the
                  \* header (timestamp and type) and the data of a slot
  nClaimed,       \* events claimed so far
  logged,         \* the events claimed since the index was last reset
  lapped,         \* slots last claimed while the event before was being written
  wpc, wload, wevent,        \* a writer: where, the index it loaded, its event
  cpc, cload, nCalls, view,  \* a controller: call and stage, the index, its view
  quiet           \* the view was begun with no event half written or lapped

logVars == <<index, locked, disableIndex, events, nClaimed, logged, lapped>>
writerVars == <<wpc, wload, wevent>>
ctrlVars == <<cpc, cload, nCalls, view, quiet>>
vars == <<logVars, writerVars, ctrlVars>>

Slot(i) == i % Cap

NoEvent == [slot |-> 0, number |-> Nothing]
NoView == [events |-> <<>>, of |-> <<>>, todo |-> <<>>]
Idle == <<"none", "idle">>

Init ==
  /\ index = 0 /\ locked = FALSE /\ disableIndex = 0
  /\ events = [s \in 0..Cap - 1 |-> [header |-> Nothing, data |-> Nothing]]
  /\ nClaimed = 0 /\ logged = <<>> /\ lapped = {}
  /\ wpc = [w \in Writers |-> "idle"]
  /\ wload = [w \in Writers |-> 0] /\ wevent = [w \in Writers |-> NoEvent]
  /\ cpc = [c \in Controllers |-> Idle]
  /\ cload = [c \in Controllers |-> 0] /\ nCalls = 0
  /\ view = [c \in Controllers |-> NoView]
  /\ quiet = [c \in Controllers |-> FALSE]

-----------------------------------------------------------------------------
(* Writers: Logb, that is Add and Encode *)

\* Enabled reads the index first and disableIndex afterwards
ReadIndex(w) ==
  /\ wpc[w] = "idle"
  /\ nClaimed < MaxEvents
  /\ ~locked                  \* else Enabled is false: the event goes to disabledEvent
  /\ wload' = [wload EXCEPT ![w] = index]
  /\ wpc' = [wpc EXCEPT ![w] = "enabled"]
  /\ UNCHANGED <<logVars, wevent, ctrlVars>>

Enabled(w) ==
  /\ wpc[w] = "enabled"
  /\ wpc' = [wpc EXCEPT ![w] = IF wload[w] < disableIndex THEN "load" ELSE "idle"]
  /\ wload' = [wload EXCEPT ![w] = 0]
  /\ UNCHANGED <<logVars, wevent, ctrlVars>>

Load(w) ==
  /\ wpc[w] = "load"
  /\ ~locked                  \* else it loads again
  /\ wload' = [wload EXCEPT ![w] = index]
  /\ wpc' = [wpc EXCEPT ![w] = "cas"]
  /\ UNCHANGED <<logVars, wevent, ctrlVars>>

\* Seeded bug: the lock bit is not looked at again
Unchanged_NoLock(w) == index = wload[w]

\* The compare of the compare and swap
Unchanged(w) == ~locked /\ index = wload[w]

Writing(w) == wpc[w] \in {"header", "data"}

Claim(w) ==
  /\ wpc[w] = "cas"
  /\ IF Unchanged(w)
     THEN /\ index' = index + 1
          /\ nClaimed' = nClaimed + 1
          /\ logged' = Append(logged, nClaimed + 1)
          /\ wevent' = [wevent EXCEPT ![w] = [slot |-> Slot(index), number |-> nClaimed + 1]]
          /\ lapped' = IF \E v \in Writers : Writing(v) /\ wevent[v].slot = Slot(index)
                       THEN lapped \cup {Slot(index)} ELSE lapped \ {Slot(index)}
          /\ wpc' = [wpc EXCEPT ![w] = "header"]
     ELSE /\ wpc' = [wpc EXCEPT ![w] = "load"]
          /\ UNCHANGED <<index, nClaimed, logged, lapped, wevent>>
  /\ wload' = [wload EXCEPT ![w] = 0]
  /\ UNCHANGED <<locked, disableIndex, events, ctrlVars>>

\* Add: timestamp and type
WriteHeader(w) ==
  /\ wpc[w] = "header"
  /\ events' = [events EXCEPT ![wevent[w].slot].header = wevent[w].number]
  /\ wpc' = [wpc EXCEPT ![w] = "data"]
  /\ UNCHANGED <<index, locked, disableIndex, nClaimed, logged, lapped, wload, wevent, ctrlVars>>

\* Encode, called by Logb
WriteData(w) ==
  /\ wpc[w] = "data"
  /\ events' = [events EXCEPT ![wevent[w].slot].data = wevent[w].number]
  /\ wpc' = [wpc EXCEPT ![w] = "idle"]
  /\ wevent' = [wevent EXCEPT ![w] = NoEvent]
  /\ UNCHANGED <<index, locked, disableIndex, nClaimed, logged, lapped, wload, ctrlVars>>

-----------------------------------------------------------------------------
(* Controllers *)

Calls == {"view", "clear", "enable", "disable", "after"}

Call(c, op) ==
  /\ cpc[c] = Idle
  /\ nCalls < MaxCalls
  /\ nCalls' = nCalls + 1
  /\ cpc' = [cpc EXCEPT ![c] = <<op, "load">>]
  /\ UNCHANGED <<logVars, writerVars, cload, view, quiet>>

\* lockIndex(true): the swap fails if the index has moved since it was loaded
LoadLock(c, op) ==
  /\ cpc[c] = <<op, "load">>
  /\ ~locked
  /\ cload' = [cload EXCEPT ![c] = index]
  /\ cpc' = [cpc EXCEPT ![c] = <<op, "cas">>]
  /\ UNCHANGED <<logVars, writerVars, nCalls, view, quiet>>

TryLock(c, op) ==
  /\ cpc[c] = <<op, "cas">>
  /\ IF ~locked /\ index = cload[c]
     THEN /\ locked' = TRUE
          /\ cpc' = [cpc EXCEPT ![c] = <<op, "locked">>]
     ELSE /\ cpc' = [cpc EXCEPT ![c] = <<op, "load">>]
          /\ UNCHANGED locked
  /\ UNCHANGED <<index, disableIndex, events, nClaimed, logged, lapped, writerVars, cload, nCalls, view, quiet>>

Unlock(c) == /\ locked' = FALSE
             /\ cpc' = [cpc EXCEPT ![c] = Idle]
             /\ cload' = [cload EXCEPT ![c] = 0]

\* Seeded bug: the lock bit stays set
Clear_KeepLock(c) ==
  /\ cpc[c] = <<"clear", "locked">>
  /\ index' = 0 /\ logged' = <<>>
  /\ cpc' = [cpc EXCEPT ![c] = Idle] /\ cload' = [cload EXCEPT ![c] = 0]
  /\ UNCHANGED <<locked, disableIndex, events, nClaimed, lapped, writerVars, nCalls, view, quiet>>

Clear(c) ==
  /\ cpc[c] = <<"clear", "locked">>
  /\ index' = 0 /\ logged' = <<>>
  /\ Unlock(c)
  /\ UNCHANGED <<disableIndex, events, nClaimed, lapped, writerVars, nCalls, view, quiet>>

Enable(c, v) ==
  /\ cpc[c] = <<IF v THEN "enable" ELSE "disable", "locked">>
  /\ index' = 0 /\ logged' = <<>>
  /\ disableIndex' = IF v THEN Forever ELSE 0
  /\ Unlock(c)
  /\ UNCHANGED <<events, nClaimed, lapped, writerVars, nCalls, view, quiet>>

\* n is cut to half of the buffer
DisableAfter(c, n) ==
  /\ cpc[c] = <<"after", "locked">>
  /\ n \in 0..Cap \div 2
  /\ disableIndex' = index + n
  /\ Unlock(c)
  /\ UNCHANGED <<index, events, nClaimed, logged, lapped, writerVars, nCalls, view, quiet>>

\* Seeded bug: the view begins at the start of the buffer
ViewSlots_FromZero(i) == [k \in 1..(IF i > Cap THEN Cap ELSE i) |-> k - 1]

\* The slots that NewView copies when the index is i
ViewSlots(i) == IF i >= Cap THEN [k \in 1..Cap |-> Slot(i + k - 1)]
                ELSE [k \in 1..i |-> k - 1]

Last(s, n) == SubSeq(s, IF Len(s) > n THEN Len(s) - n + 1 ELSE 1, Len(s))

\* NewView copies the slots while writers may be writing into them
BeginView(c) ==
  /\ cpc[c] = <<"view", "locked">>
  /\ view' = [view EXCEPT ![c] = [events |-> <<>>, of |-> Last(logged, Cap),
                                  todo |-> ViewSlots(cload[c])]]
  /\ quiet' = [quiet EXCEPT ![c] = lapped = {} /\ \A w \in Writers : ~Writing(w)]
  /\ cpc' = [cpc EXCEPT ![c] = <<"view", "copy">>]
  /\ UNCHANGED <<logVars, writerVars, cload, nCalls>>

CopySlot(c) ==
  /\ cpc[c] = <<"view", "copy">>
  /\ view[c].todo # <<>>
  /\ view' = [view EXCEPT ![c].events = Append(@, events[Head(view[c].todo)]),
                          ![c].todo = Tail(@)]
  /\ UNCHANGED <<logVars, writerVars, cpc, cload, nCalls, quiet>>

EndView(c) ==
  /\ cpc[c] = <<"view", "copy">>
  /\ view[c].todo = <<>>
  /\ Unlock(c)
  /\ view' = [view EXCEPT ![c] = NoView]
  /\ quiet' = [quiet EXCEPT ![c] = FALSE]
  /\ UNCHANGED <<index, disableIndex, events, nClaimed, logged, lapped, writerVars, nCalls>>

-----------------------------------------------------------------------------

Writer(w) == \/ ReadIndex(w) \/ Enabled(w) \/ Load(w) \/ Claim(w)
             \/ WriteHeader(w) \/ WriteData(w)

InCall(c) == \/ \E op \in Calls : LoadLock(c, op) \/ TryLock(c, op)
             \/ Clear(c)
             \/ \E v \in BOOLEAN : Enable(c, v)
             \/ \E n \in 0..Cap \div 2 : DisableAfter(c, n)
             \/ BeginView(c) \/ CopySlot(c) \/ EndView(c)

Next == \/ \E w \in Writers : Writer(w)
        \/ \E c \in Controllers : InCall(c) \/ \E op \in Calls : Call(c, op)

\* Goroutines run; nobody has to call anything
Fairness == /\ \A w \in Writers : WF_vars(Writer(w))
            /\ \A c \in Controllers : WF_vars(InCall(c))

Spec == Init /\ [][Next]_vars
FairSpec == Spec /\ Fairness

-----------------------------------------------------------------------------
(* Properties *)

Written == [header : Nat, data : Nat]
Stages == (Calls \X {"load", "cas", "locked"}) \cup {Idle, <<"view", "copy">>}

TypeOK ==
  /\ index \in Nat /\ locked \in BOOLEAN /\ disableIndex \in Nat
  /\ events \in [0..Cap - 1 -> Written]
  /\ nClaimed \in Nat /\ logged \in Seq(Nat) /\ lapped \subseteq 0..Cap - 1
  /\ wpc \in [Writers -> {"idle", "enabled", "load", "cas", "header", "data"}]
  /\ wload \in [Writers -> Nat]
  /\ wevent \in [Writers -> [slot : 0..Cap - 1, number : Nat]]
  /\ cpc \in [Controllers -> Stages]
  /\ cload \in [Controllers -> Nat] /\ nCalls \in Nat
  /\ view \in [Controllers -> [events : Seq(Written), of : Seq(Nat), todo : Seq(0..Cap - 1)]]
  /\ quiet \in [Controllers -> BOOLEAN]

Critical(c) == cpc[c][2] \in {"locked", "copy"}

\* The lock bit excludes: one controller at a time holds it, the bit is set while
\* it does, and the index that it read stays the index until it lets go, however
\* writers raced with it.
LockExcludes ==
  /\ \A c, d \in Controllers : Critical(c) /\ Critical(d) => c = d
  /\ locked <=> \E c \in Controllers : Critical(c)
  /\ \A c \in Controllers : Critical(c) => cload[c] = index

\* A view that was begun while no writer was between claiming a slot and the end
\* of Encode, and none had been overtaken by a whole lap of the buffer, has the
\* last events logged, whole and in order, although writers went on trying to
\* log while it was copied, and whatever Clear and Enable threw away before.
QuietViewExact ==
  \A c \in Controllers :
    quiet[c] /\ view[c].todo = <<>> =>
      view[c].events = [k \in DOMAIN view[c].of |-> [header |-> view[c].of[k], data |-> view[c].of[k]]]

\* "Disable logging after specified number of events have been logged"
\* (elog.go:135) is kept up to one event for each writer that had already passed
\* the test of Enabled.
DisableStops ==
  index + Cardinality({w \in Writers : wpc[w] \in {"load", "cas"}}) <= disableIndex + Cardinality(Writers)

\* The lock bit in the index excludes, and logging ends after the number of events asked
\* for, but for those under way (elog.go).
ElogSafe == TypeOK /\ LockExcludes /\ DisableStops

\* Every call returns: no goroutine spins for ever on the lock bit or on a lost
\* compare and swap once the others stop logging.
CallsReturn ==
  /\ \A c \in Controllers : []<>(cpc[c] = Idle)
  /\ \A w \in Writers : []<>(wpc[w] = "idle")

=============================================================================
