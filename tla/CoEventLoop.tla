---------------------------- MODULE CoEventLoop -----------------------------
(***************************************************************************)
(* One thread of coroutines that wait (src/src/coroutine/co_routine.cpp):  *)
(* co_eventloop in the main coroutine, with the epoll instance, the time   *)
(* wheel and the active list it serves, and the waits of the coroutines,   *)
(* co_cond_timedwait and co_poll_inner, which link timer items into these  *)
(* lists and switch away.                                                  *)
(*                                                                         *)
(* A coroutine waits for one thing at a time, so its stTimeoutItem_t, and  *)
(* its stCoCondItem_t, are named by the coroutine.  The links are          *)
(* sequences.  What the coroutines do between waits is any program; the    *)
(* contents of their stacks are the matter of CoRoutine.                   *)
(***************************************************************************)
EXTENDS TimeWheel, SequencesExt

CONSTANTS
  Co,            (* the coroutines                                       *)
  Main,          (* the main coroutine, which runs co_eventloop          *)
  NULL,          (* no registration for a descriptor                     *)
  Fd,            (* file descriptors                                     *)
  CondTimeouts,  (* the ms of condition waits; 0 waits for ever          *)
  PollTimeouts,  (* the timeouts of polls                                *)
  MaxNow,        (* bound: no wait ends later, and the clock stops there *)
  ClockBacks,    (* bound: how often the clock is set back               *)
  LongCondWaits, (* may a condition wait exceed the span of the wheel?   *)
  SharedFds      (* may two coroutines poll a descriptor at a time?      *)

ASSUME LoopAssumption ==
  /\ Main \notin Co /\ NULL \notin Co /\ IsFiniteSet(Co)
  /\ CondTimeouts \subseteq Nat /\ PollTimeouts \subseteq Nat \ {0}
  /\ MaxNow \in Nat \ {0} /\ ClockBacks \in Nat
  /\ LongCondWaits \in BOOLEAN /\ SharedFds \in BOOLEAN

VARIABLES
  now,           (* the clock, gettimeofday                              *)
  backs,         (* how often it was set back                            *)
  ullStart,      (* the time wheel: see TimeWheel                        *)
  llStartIdx,
  pItems,        (* per slot: its timers, in order                       *)
  active,        (* pstActiveList                                        *)
  cond,          (* the queue of a condition variable                    *)
  wait,          (* per coroutine: none, cond or poll                    *)
  expire,        (* per waiting coroutine: ullExpireTime, 0 if none      *)
  bTimeout,      (* those whose item was taken out of the wheel          *)
  fds,           (* per polling coroutine: its descriptors               *)
  raised,        (* those whose poll saw an event (iAllEventDetach)      *)
  epollItem,     (* per descriptor: whose poll is registered in epoll    *)
  ready,         (* the descriptors with an event                        *)
  phase,         (* of co_eventloop: wait, process, or user (in pfn)     *)
  loopNow,       (* the clock as the round read it                       *)
  pCallStack     (* Main and the coroutines that resumed one another     *)

timeVars == <<now, backs>>
wheelVars == <<ullStart, llStartIdx, pItems>>
waitVars == <<wait, expire, fds>>
ioVars == <<raised, epollItem, ready>>
loopVars == <<phase, loopNow>>
vars == <<timeVars, wheelVars, active, cond, waitVars, bTimeout, ioVars,
          loopVars, pCallStack>>

Slots == 0..iItemSize - 1

\* A list without the items of C, as SelectSeq would give it, which the proof
\* system does not define.
Without(s, C) ==
  LET rest[n \in 0..Len(s)] ==
        IF n = 0 THEN <<>>
        ELSE IF s[n] \in C THEN rest[n - 1] ELSE Append(rest[n - 1], s[n])
  IN  rest[Len(s)]

Curr == pCallStack[Len(pCallStack)]
OnCallStack(c) == c \in ToSet(pCallStack)

\* The code that runs is the program's: a coroutine, or pfn of co_eventloop.
UserCode == Curr # Main \/ phase = "user"

----------------------------------------------------------------------------
\* The program has made its coroutines and is about to call co_eventloop.
Init ==
  /\ now = 1 /\ backs = 0
  /\ ullStart = now /\ llStartIdx = 0
  /\ pItems = [s \in Slots |-> <<>>]
  /\ active = <<>> /\ cond = <<>>
  /\ wait = [c \in Co |-> "none"]
  /\ expire = [c \in Co |-> 0]
  /\ bTimeout = {}
  /\ fds = [c \in Co |-> {}]
  /\ raised = {}
  /\ epollItem = [f \in Fd |-> NULL]
  /\ ready = {}
  /\ phase = "user" /\ loopNow = 0
  /\ pCallStack = <<Main>>

\* The environment: time passes, somebody sets the clock back, events come
\* and go on the descriptors.
Tick ==
  /\ now < MaxNow
  /\ now' = now + 1
  /\ UNCHANGED <<backs, wheelVars, active, cond, waitVars, bTimeout, ioVars,
                 loopVars, pCallStack>>

SetBack ==
  /\ backs < ClockBacks /\ now > 1
  /\ now' = now - 1 /\ backs' = backs + 1
  /\ UNCHANGED <<wheelVars, active, cond, waitVars, bTimeout, ioVars,
                 loopVars, pCallStack>>

FdEvent(f) ==
  /\ ready' = SymDiff(ready, {f})
  /\ UNCHANGED <<timeVars, wheelVars, active, cond, waitVars, bTimeout,
                 raised, epollItem, loopVars, pCallStack>>

----------------------------------------------------------------------------
\* Mutant: the item stays in the wheel.
OutOfWheelNot(c) == pItems

\* RemoveFromLink of a timer item, whichever link holds it.
OutOfWheel(c) == [s \in Slots |-> Without(pItems[s], {c})]

SetStart(allNow) ==
  /\ ullStart' = StartAt(ullStart, allNow)
  /\ llStartIdx' = IdxAt(ullStart, llStartIdx)

\* AddTimeout and its two outcomes.
Refused(expiry, allNow) == AddFails(StartAt(ullStart, allNow), expiry, allNow)

AddTimeout(c, expiry, allNow) ==
  /\ SetStart(allNow)
  /\ pItems' = [pItems EXCEPT ![AddSlot(ullStart', llStartIdx', expiry)] =
                                Append(@, c)]

\* co_yield_env: control goes back to the resumer.
co_yield_env == pCallStack' = Front(pCallStack)

\* The bounds on what programs wait for.
MayWait(ms) == now + ms <= MaxNow

MayCondWait(ms) ==
  MayWait(ms) /\ (LongCondWaits \/ now + ms - ullStart < iItemSize)

MayPoll(c, F, ms) ==
  MayWait(ms) /\ (SharedFds \/ \A d \in Co \ {c} : F \cap fds[d] = {})

\* co_cond_timedwait up to its yield; an error of AddTimeout is returned.
CondWait(c, ms) ==
  /\ c = Curr /\ MayCondWait(ms)
  /\ IF ms > 0 /\ Refused(now + ms, now)
     THEN /\ SetStart(now)
          /\ UNCHANGED <<pItems, cond, wait, expire, pCallStack>>
     ELSE /\ IF ms > 0
             THEN /\ AddTimeout(c, now + ms, now)
                  /\ expire' = [expire EXCEPT ![c] = now + ms]
             ELSE UNCHANGED <<wheelVars, expire>>
          /\ cond' = Append(cond, c)
          /\ wait' = [wait EXCEPT ![c] = "cond"]
          /\ co_yield_env
  /\ UNCHANGED <<timeVars, active, bTimeout, fds, ioVars, loopVars>>

\* The epoll registrations once co_poll_inner has added those of c: EEXIST,
\* and any other error, leaves what is registered.
Added(c, F) ==
  [f \in Fd |-> IF f \in F /\ epollItem[f] = NULL THEN c ELSE epollItem[f]]

\* Mutant: the registrations are left in epoll.
DeletedNone(F) == epollItem

\* The clean-up deletes the registration of each descriptor, whosever it is.
Deleted(F) == [f \in Fd |-> IF f \in F THEN NULL ELSE epollItem[f]]

\* co_poll_inner up to its yield; on an error it cleans up and returns -1.
Poll(c, F, ms) ==
  /\ c = Curr /\ MayPoll(c, F, ms)
  /\ IF Refused(now + ms, now)
     THEN /\ SetStart(now)
          /\ epollItem' = Deleted(F)
          /\ UNCHANGED <<pItems, wait, expire, fds, pCallStack>>
     ELSE /\ AddTimeout(c, now + ms, now)
          /\ epollItem' = Added(c, F)
          /\ wait' = [wait EXCEPT ![c] = "poll"]
          /\ expire' = [expire EXCEPT ![c] = now + ms]
          /\ fds' = [fds EXCEPT ![c] = F]
          /\ co_yield_env
  /\ UNCHANGED <<timeVars, active, cond, bTimeout, raised, ready, loopVars>>

\* co_yield by a coroutine that then waits for nothing but a co_resume.
Yield(c) ==
  /\ c = Curr
  /\ co_yield_env
  /\ UNCHANGED <<timeVars, wheelVars, active, cond, waitVars, bTimeout,
                 ioVars, loopVars>>

\* c is switched in and runs the rest of the function it waited in: the rest
\* of co_cond_timedwait leaves the timer item where it is, the rest of
\* co_poll_inner takes it out of its link.  rest is the active list then.
Awake(c, rest) ==
  LET polled == wait[c] = "poll"
  IN  /\ pCallStack' = Append(pCallStack, c)
      /\ cond' = IF wait[c] = "cond" THEN Without(cond, {c}) ELSE cond
      /\ pItems' = IF polled THEN OutOfWheel(c) ELSE pItems
      /\ active' = IF polled THEN Without(rest, {c}) ELSE rest
      /\ epollItem' = IF polled THEN Deleted(fds[c]) ELSE epollItem
      /\ wait' = [wait EXCEPT ![c] = "none"]
      /\ expire' = [expire EXCEPT ![c] = 0]
      /\ fds' = [fds EXCEPT ![c] = {}]
      /\ bTimeout' = bTimeout \ {c}
      /\ raised' = raised \ {c}

\* co_resume by the program.  The timer item of a condition wait would stay
\* in its link after it is freed: callers may not resume out of one.
Resume(c) ==
  /\ UserCode
  /\ ~OnCallStack(c) /\ wait[c] # "cond"
  /\ Awake(c, active)
  /\ UNCHANGED <<timeVars, ullStart, llStartIdx, ready, loopVars>>

\* Mutant: AddTail without the RemoveFromLink before it: an item with a link
\* stays in it.
SignalledInPlace(n) ==
  LET popped == SubSeq(cond, 1, n)
  IN  /\ cond' = SubSeq(cond, n + 1, Len(cond))
      /\ active' = active \o SelectSeq(popped, LAMBDA c : expire[c] = 0)
      /\ UNCHANGED pItems

\* Mutant: those that are signalled go first.
SignalledFirst(n) ==
  LET popped == SubSeq(cond, 1, n)
      out(s) == Without(s, ToSet(popped))
  IN  /\ cond' = SubSeq(cond, n + 1, Len(cond))
      /\ pItems' = [s \in Slots |-> out(pItems[s])]
      /\ active' = popped \o out(active)

\* co_cond_signal and co_cond_broadcast: the first n in the queue go from
\* where their timer items are to the end of the active list.
Signalled(n) ==
  LET popped == SubSeq(cond, 1, n)
      out(s) == Without(s, ToSet(popped))
  IN  /\ cond' = SubSeq(cond, n + 1, Len(cond))
      /\ pItems' = [s \in Slots |-> out(pItems[s])]
      /\ active' = out(active) \o popped

Signal ==
  /\ UserCode /\ cond # <<>>
  /\ Signalled(1)
  /\ UNCHANGED <<timeVars, ullStart, llStartIdx, waitVars, bTimeout, ioVars,
                 loopVars, pCallStack>>

Broadcast ==
  /\ UserCode /\ cond # <<>>
  /\ Signalled(Len(cond))
  /\ UNCHANGED <<timeVars, ullStart, llStartIdx, waitVars, bTimeout, ioVars,
                 loopVars, pCallStack>>

----------------------------------------------------------------------------
\* The polls OnPollPreparePfn is called for: those with an event that is
\* registered.
Registered == { epollItem[f] : f \in ready } \ {NULL}

\* The slots TakeAllTimeout joins, one after the other.
TakenFrom(items, idx, cnt) ==
  FlattenSeq([i \in 1..cnt |-> items[SlotAhead(idx, i - 1)]])

\* A round that begins with the wheel at start, in slot idx: the preparation
\* of the events, TakeAllTimeout and the marking of what it took.
Round(order, start, idx) ==
  LET prepared == active \o order
      items == [s \in Slots |-> Without(pItems[s], ToSet(order))]
      cnt == TakeCount(start, now)
      timeout == TakenFrom(items, idx, cnt)
      emptied == { SlotAhead(idx, i) : i \in 0..cnt - 1 }
  IN  /\ raised' = raised \cup ToSet(order)
      /\ IF TakeFails(start, now)
         THEN /\ SetStart(now)
              /\ pItems' = items
              /\ active' = prepared
              /\ UNCHANGED bTimeout
         ELSE /\ ullStart' = now
              /\ llStartIdx' = idx + cnt - 1
              /\ pItems' = [s \in Slots |->
                              IF s \in emptied THEN <<>> ELSE items[s]]
              /\ active' = prepared \o timeout
              /\ bTimeout' = bTimeout \cup ToSet(timeout)

\* The top of the round: epoll_wait gives the events in any order.
LoopPoll ==
  /\ Curr = Main /\ phase = "wait"
  /\ phase' = "process" /\ loopNow' = now
  /\ \E order \in SetToSeqs(Registered \ raised) :
       Round(order, StartAt(ullStart, now), IdxAt(ullStart, llStartIdx))
  /\ UNCHANGED <<timeVars, cond, waitVars, epollItem, ready, pCallStack>>

\* Mutant: off by one.
EarlyByMore == Head(active) \in bTimeout /\ loopNow + 1 < expire[Head(active)]

\* The head of the active list was taken too early.
Early == Head(active) \in bTimeout /\ loopNow < expire[Head(active)]

\* Mutant: a timer that was taken early is not put back.
LoopPutBackNot ==
  /\ Curr = Main /\ phase = "process" /\ active # <<>>
  /\ Early /\ ~Refused(expire[Head(active)], loopNow)
  /\ active' = Tail(active)
  /\ bTimeout' = bTimeout \ {Head(active)}
  /\ UNCHANGED <<timeVars, wheelVars, cond, waitVars, ioVars, loopVars,
                 pCallStack>>

\* A timer that was taken early goes back into the wheel.
LoopPutBack ==
  /\ Curr = Main /\ phase = "process" /\ active # <<>>
  /\ Early /\ ~Refused(expire[Head(active)], loopNow)
  /\ AddTimeout(Head(active), expire[Head(active)], loopNow)
  /\ active' = Tail(active)
  /\ bTimeout' = bTimeout \ {Head(active)}
  /\ UNCHANGED <<timeVars, cond, waitVars, ioVars, loopVars, pCallStack>>

\* pfnProcess of the head: OnPollProcessEvent or OnSignalProcessEvent.
LoopResume ==
  /\ Curr = Main /\ phase = "process" /\ active # <<>>
  /\ Early => Refused(expire[Head(active)], loopNow)
  /\ IF Early THEN SetStart(loopNow) ELSE UNCHANGED <<ullStart, llStartIdx>>
  /\ Awake(Head(active), Tail(active))
  /\ UNCHANGED <<timeVars, ready, loopVars>>

\* The active list is empty: pfn is called, and the next round begins when
\* it returns.
LoopCall ==
  /\ Curr = Main /\ phase = "process" /\ active = <<>>
  /\ phase' = "user"
  /\ UNCHANGED <<timeVars, wheelVars, active, cond, waitVars, bTimeout,
                 ioVars, loopNow, pCallStack>>

LoopAgain ==
  /\ Curr = Main /\ phase = "user"
  /\ phase' = "wait"
  /\ UNCHANGED <<timeVars, wheelVars, active, cond, waitVars, bTimeout,
                 ioVars, loopNow, pCallStack>>

----------------------------------------------------------------------------
\* What a coroutine does to give control back.
Block(c) ==
  \/ Yield(c)
  \/ \E ms \in CondTimeouts : CondWait(c, ms)
  \/ \E F \in SUBSET Fd, ms \in PollTimeouts : Poll(c, F, ms)

Loop == LoopPoll \/ LoopPutBack \/ LoopResume \/ LoopCall

Next ==
  \/ Tick \/ SetBack \/ \E f \in Fd : FdEvent(f)
  \/ Signal \/ Broadcast
  \/ \E c \in Co : Resume(c) \/ Block(c)
  \/ Loop \/ LoopAgain

\* Time passes; the loop's own code runs on; pfn returns; and a coroutine
\* that runs again and again gives control back, again and again.
Fairness ==
  /\ WF_vars(Tick)
  /\ WF_vars(Loop)
  /\ SF_vars(LoopAgain)
  /\ \A c \in Co : SF_vars(Block(c) /\ pCallStack' # pCallStack)

Spec == Init /\ [][Next]_vars /\ Fairness
----------------------------------------------------------------------------
InWheel(c) == \E s \in Slots : c \in ToSet(pItems[s])
InActive(c) == c \in ToSet(active)
InCond(c) == c \in ToSet(cond)

\* c was popped from the condition's queue by a signal.
WasSignalled(c) == wait[c] = "cond" /\ ~InCond(c)

\* The type of every variable.
TypeOK ==
  /\ now \in 1..MaxNow /\ backs \in 0..ClockBacks
  /\ ullStart \in 1..MaxNow /\ llStartIdx \in Nat
  /\ pItems \in [Slots -> Seq(Co)]
  /\ active \in Seq(Co) /\ cond \in Seq(Co)
  /\ wait \in [Co -> {"none", "cond", "poll"}]
  /\ expire \in [Co -> 0..MaxNow]
  /\ bTimeout \subseteq Co /\ raised \subseteq Co
  /\ fds \in [Co -> SUBSET Fd]
  /\ epollItem \in [Fd -> Co \cup {NULL}] /\ ready \subseteq Fd
  /\ phase \in {"wait", "process", "user"} /\ loopNow \in 0..MaxNow
  /\ pCallStack \in Seq(Co \cup {Main})

\* Main is at the bottom of the call stack, and no coroutine is on it twice
\* or while it waits.
StackInv ==
  /\ pCallStack # <<>> /\ pCallStack[1] = Main /\ IsInjective(pCallStack)
  /\ \A c \in Co : wait[c] # "none" => c \notin ToSet(pCallStack)

\* A coroutine that runs, or that only a co_resume continues, is in no link
\* and in no registration: the loop never resumes it behind its back.
OnlyWaitersLinked ==
  \A c \in Co : wait[c] = "none" =>
    /\ ~InWheel(c) /\ ~InActive(c) /\ ~InCond(c)
    /\ c \notin bTimeout \cup raised
    /\ expire[c] = 0

\* A timer item is in one link at most, and a wait that has a timeout or was
\* taken for an event is in one.
LinkInv ==
  /\ IsInjective(active) /\ IsInjective(cond)
  /\ \A s \in Slots : IsInjective(pItems[s])
  /\ \A s, t \in Slots : s # t => ToSet(pItems[s]) \cap ToSet(pItems[t]) = {}
  /\ \A c \in Co :
       /\ ~(InWheel(c) /\ InActive(c))
       /\ InWheel(c) \/ c \in bTimeout => expire[c] # 0
       /\ expire[c] # 0 /\ wait[c] # "none" => InWheel(c) \/ InActive(c)
       /\ wait[c] = "poll" => expire[c] # 0
       /\ InCond(c) => wait[c] = "cond"
       /\ c \in bTimeout \cup raised => InActive(c)

\* Who is in the active list has a reason to be there; timers are there only
\* in the round that took them, whose time is that of the wheel.
RoundInv ==
  /\ \A c \in Co : InActive(c) => WasSignalled(c) \/ c \in raised \cup bTimeout
  /\ bTimeout # {} => phase = "process" /\ loopNow = ullStart
  /\ bTimeout \cap raised = {}

\* What epoll points to is the poll of a waiter, and each poll has its own
\* descriptors unless they are shared.
EpollInv ==
  /\ \A c \in Co : wait[c] # "poll" => fds[c] = {}
  /\ \A f \in Fd : epollItem[f] # NULL => f \in fds[epollItem[f]]
  /\ ~SharedFds => \A c \in Co : \A f \in fds[c] : epollItem[f] = c

\* A condition wait within the span of the wheel lies in the slot of its
\* expiry, and no round takes it early.
SlotInv ==
  ~LongCondWaits => \A c \in Co : wait[c] = "cond" =>
    /\ \A s \in Slots : c \in ToSet(pItems[s]) =>
         /\ expire[c] - ullStart \in Slots
         /\ s = SlotAhead(llStartIdx, expire[c] - ullStart)
    /\ c \in bTimeout => expire[c] <= loopNow

\* co_cond_signal: "takes one waiter out of the queue to wake it".  A waiter
\* that was taken out is in the active list until it runs.
NoSignalLost == \A c \in Co : WasSignalled(c) => InActive(c)

\* The inductive invariant, under ShortGap.
LoopInv ==
  /\ TypeOK /\ StackInv /\ OnlyWaitersLinked /\ LinkInv
  /\ RoundInv /\ EpollInv /\ SlotInv
  /\ ~LongCondWaits => NoSignalLost

\* An int holds the time from the start of the wheel to now.
ShortGap == now - ullStart + 1 < IntSpan \div 2

\* The loop resumes a waiter only because it was signalled, because its poll
\* saw an event, or because its time is up: no wait ends early, and none is
\* ended by what was meant for an earlier wait.
WokenForAReason ==
  [][\A c \in Co :
       /\ pCallStack = <<Main>> /\ phase = "process"
       /\ wait[c] # "none" /\ wait'[c] = "none"
       => WasSignalled(c) \/ c \in raised \/ expire[c] \in 1..loopNow]_vars

\* co_poll_inner, before its yield: "when the event comes, the callback is
\* called".  A round puts every poll with a ready descriptor into the active
\* list.
EventReachesPoll ==
  [][\A c \in Co :
       /\ phase = "wait" /\ phase' = "process"
       /\ fds[c] \cap ready # {}
       => c \in ToSet(active')]_vars

\* A waiter that was signalled runs, even when the coroutines that run keep
\* on signalling each other: the active list is served in order.
SignalledRuns == \A c \in Co : WasSignalled(c) ~> wait[c] = "none"

\* A wait whose time is up ends, if the loop gets to its next round again and
\* again: coroutines that keep on signalling each other can prevent that.
DueRuns ==
  []<>(phase = "wait") =>
    \A c \in Co : (expire[c] # 0 /\ expire[c] <= now) ~> wait[c] = "none"
=============================================================================
