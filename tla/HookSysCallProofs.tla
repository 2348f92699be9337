------------------------- MODULE HookSysCallProofs --------------------------
(***************************************************************************)
(* Theorems about HookSysCall, for every set of coroutines, descriptors    *)
(* and timeouts.                                                           *)
(*                                                                         *)
(* The table alone is not inductive: that nobody else is about to make or  *)
(* close a descriptor when its entry changes takes CallInv, and that the   *)
(* flag was set for each descriptor with an entry takes FlagInv.  What     *)
(* calls return rests on what they counted and found on the way, ReportInv.*)
(***************************************************************************)
EXTENDS HookSysCall, SequenceTheorems, TLAPS

USE HookAssumption

\* What a step of c does to the calls of others.
Alone(c) == \A d \in Co \ {c} : call'[d] = call[d]

\* A step of c leaves what its call is about.
SameCall(c) ==
  /\ call'[c].op = call[c].op /\ call'[c].fd = call[c].fd
  /\ call'[c].flag = call[c].flag

\* A call that waits, or has waited, goes on, and the others do not notice.
GoesOn(c) ==
  /\ Alone(c) /\ SameCall(c)
  /\ UNCHANGED <<hooked, opened, nonblock, origin>>
  /\ \/ /\ call[c].at \in {"poll", "try"}
        /\ call'[c].at \in {"poll", "try", "done"}
     \/ call[c].at = "record" /\ call'[c].at = "done"

\* The table has entries for the same descriptors as before.
SameEntries == \A f \in Fd : entry'[f] # NULL <=> entry[f] # NULL

\* The record of a coroutine that is in no call.
LEMMA NoCallType ==
  /\ NoCall \in Calls /\ NoCall.op = "none" /\ NoCall.at = "idle"
  /\ NoCall.fd = NULL /\ NoCall.flag = FALSE /\ NoCall.polls = 0
  /\ NoCall.sent = <<>> /\ NoCall.wrotelen = 0
BY DEF NoCall, Calls, Ops, Places

\* The record of a call that begins.
LEMMA BeginType ==
  ASSUME NEW c, NEW op \in Ops, NEW place \in Places, NEW f \in Fd
  PROVE  /\ Begin(c, op, place, f) \in Calls
         /\ Begin(c, op, place, f).op = op
         /\ Begin(c, op, place, f).at = place
         /\ Begin(c, op, place, f).fd = f
         /\ Begin(c, op, place, f).sent = <<>>
         /\ Begin(c, op, place, f).wrotelen = 0
         /\ Begin(c, op, place, f).polls = 0
BY NoCallType DEF Begin, Calls

\* A call's record with another flag.
LEMMA FlagType ==
  ASSUME NEW r \in Calls, NEW flag \in BOOLEAN
  PROVE  LET q == [r EXCEPT !.flag = flag]
         IN  /\ q \in Calls /\ q.flag = flag
             /\ q.op = r.op /\ q.at = r.at /\ q.fd = r.fd
BY DEF Calls

\* A new record for c.
LEMMA NewCall ==
  ASSUME TypeOK, NEW c \in Co, NEW r \in Calls,
         call' = [call EXCEPT ![c] = r]
  PROVE  call' \in [Co -> Calls] /\ call'[c] = r /\ Alone(c)
BY DEF TypeOK, Alone

\* A new place for c.
LEMMA NewPlace ==
  ASSUME TypeOK, NEW c \in Co, NEW place \in Places, Goto(c, place)
  PROVE  /\ call' \in [Co -> Calls] /\ Alone(c) /\ SameCall(c)
         /\ call'[c].at = place
<1>1. call[c] \in Calls
  BY DEF TypeOK
<1>2. [call[c] EXCEPT !.at = place] \in Calls
  BY <1>1 DEF Calls
<1> QED  BY <1>2 DEF TypeOK, Alone, SameCall, Goto, Calls

\* A result for c.
LEMMA NewResult ==
  ASSUME TypeOK, NEW c \in Co, NEW ret \in -1..MaxBytes, Return(c, ret)
  PROVE  /\ call' \in [Co -> Calls] /\ Alone(c) /\ SameCall(c)
         /\ call'[c].at = "done"
<1>1. call[c] \in Calls
  BY DEF TypeOK
<1>2. [call[c] EXCEPT !.at = "done", !.ret = ret] \in Calls
  BY <1>1 DEF Calls, Places
<1> QED  BY <1>2 DEF TypeOK, Alone, SameCall, Return, Calls

----------------------------------------------------------------------------
\* The table and the calls start empty.
LEMMA InitHookInv == Init => HookInv
BY NoCallType
DEF Init, HookInv, TypeOK, CallInv, CallOK, TableInv, FlagInv, Opening, Idle

\* The steps of a call that waits or has waited: it goes on about the same
\* descriptor.
LEMMA GoOnStep ==
  ASSUME HookInv, TypeOK', SameEntries, NEW c \in Co, GoesOn(c)
  PROVE  HookInv'
<1> USE DEF HookInv, GoesOn, Alone, SameCall, SameEntries
<1>1. CallInv'
  BY DEF TypeOK, CallInv, CallOK, Opening, Idle
<1>2. TableInv'
  BY DEF TypeOK, TableInv
<1>3. FlagInv'
  BY DEF TypeOK, FlagInv, Opening
<1> QED  BY <1>1, <1>2, <1>3

\* A call on f begins that neither makes nor closes it.
LEMMA UseStep ==
  ASSUME HookInv, TypeOK', NEW c \in Co, NEW f \in Fd, MayUse(c, f), Alone(c),
         UNCHANGED <<hooked, entry, opened, nonblock, origin>>,
         call'[c].fd = f,
         \/ /\ ~MixedHooks
            /\ call'[c].op = "fcntl" /\ call'[c].at = "setfl"
         \/ /\ call'[c].op \in {"read", "write", "sendto", "connect"}
            /\ call'[c].at \in {"poll", "try", "done"}
            /\ Waits(c, f)
  PROVE  HookInv'
<1> USE DEF HookInv, Alone
<1>1. CallInv'
  BY DEF TypeOK, CallInv, CallOK, MayUse, Waits, Opening, Idle
<1>2. TableInv'
  BY DEF TypeOK, TableInv, CallInv, CallOK, MayUse, Idle
<1>3. FlagInv'
  BY DEF TypeOK, FlagInv, CallInv, CallOK, TableInv, MayUse, Fits, Opening, Idle
<1> QED  BY <1>1, <1>2, <1>3

\* A new descriptor of the hooks has no entry until alloc_by_fd.
LEMMA MakeStep ==
  ASSUME HookInv, NEW c \in Co, NEW f \in Fd, NEW flag \in BOOLEAN,
         NEW b \in BOOLEAN, Idle(c), NewFd(f, b, "hook"),
         NEW op \in {"socket", "accept"}, flag \/ c \in hooked,
         call' = [call EXCEPT ![c] = [Begin(c, op, "alloc", f)
                                        EXCEPT !.flag = flag]],
         UNCHANGED <<hooked, entry>>
  PROVE  HookInv'
<1> USE DEF HookInv
<1> DEFINE r == [Begin(c, op, "alloc", f) EXCEPT !.flag = flag]
<1>1. r \in Calls /\ r.op = op /\ r.at = "alloc" /\ r.fd = f /\ r.flag = flag
  <2>1. op \in Ops /\ "alloc" \in Places
    BY DEF Ops, Places
  <2> QED  BY <2>1, BeginType, FlagType
<1>2. call' = [call EXCEPT ![c] = r]
  OBVIOUS
<1> HIDE DEF r
<1>3. call' \in [Co -> Calls] /\ call'[c] = r /\ Alone(c)
  BY <1>1, <1>2, NewCall
<1>4. TypeOK'
  BY <1>3 DEF TypeOK, NewFd
<1>5. /\ f \notin opened /\ opened \subseteq Fd
      /\ opened' = opened \cup {f}
      /\ origin'[f] = "hook" /\ \A g \in Fd \ {f} : origin'[g] = origin[g]
  BY DEF NewFd, TypeOK
<1>6. \A d \in Co \ {c} : call'[d] = call[d] /\ call[d].fd \in Fd \cup {NULL}
  BY <1>3 DEF Alone, TypeOK, Calls
<1>7. CallInv'
  <2>1. \A d \in Co \ {c} : call[d].fd = f => call[d].op = "close"
                                             /\ call[d].at = "done"
    BY <1>5 DEF CallInv, CallOK, Idle
  <2>2. /\ call'[c].op \in {"socket", "accept"} /\ call'[c].at = "alloc"
        /\ call'[c].fd = f
    BY <1>1, <1>3
  <2>3. CallOK(c)'
    BY <1>5, <1>6, <2>1, <2>2 DEF CallOK, Opening, Idle
  <2>4. ASSUME NEW e \in Co \ {c}  PROVE CallOK(e)'
    <3>1. CallOK(e) /\ call'[e] = call[e] /\ entry' = entry
      BY <1>6 DEF CallInv
    <3>2. call[e].fd = f => call[e].op = "close" /\ call[e].at = "done"
      BY <2>1
    <3>3. call[e].at = "sysclose" => call[e].fd # f
      BY <3>2
    <3> QED
      BY <1>5, <1>6, <2>2, <3>1, <3>2, <3>3 DEF CallOK, Opening, Idle
  <2> QED  BY <2>3, <2>4 DEF CallInv
<1>8. TableInv'
  <2>1. entry[f] = NULL /\ entry' = entry
    BY <1>5 DEF TableInv
  <2>2. call'[c].fd = f /\ call[c].fd = NULL /\ call'[c].at = "alloc"
    BY <1>1, <1>3 DEF CallInv, CallOK, Idle
  <2>3. \A g \in Fd \ {f} :
          (\E d \in Co : /\ call'[d].fd = g
                         /\ call'[d].at \in {"alloc", "sysclose"})
          <=> (\E d \in Co : /\ call[d].fd = g
                             /\ call[d].at \in {"alloc", "sysclose"})
    BY <1>6, <2>2
  <2> QED  BY <1>5, <2>1, <2>2, <2>3 DEF TableInv
<1>9. FlagInv'
  BY <1>1, <1>3, <1>4
  DEF TypeOK, CallInv, CallOK, TableInv, FlagInv, Opening, Idle, NewFd, Alone
<1> QED  BY <1>4, <1>7, <1>8, <1>9

\* alloc_by_fd makes the entry of a descriptor that only its maker uses.
LEMMA AllocStep ==
  ASSUME HookInv, NEW c \in Co, Alloc(c)
  PROVE  HookInv'
<1> USE DEF HookInv
<1> DEFINE f == call[c].fd
<1>1. /\ call[c].at = "alloc" /\ Goto(c, "setfl")
      /\ entry' = [entry EXCEPT ![f] = NewEntry]
      /\ UNCHANGED <<hooked, opened, nonblock, readable, room, conn, origin>>
  BY DEF Alloc, kernelVars
<1>2. "setfl" \in Places /\ NewEntry \in Entry /\ NewEntry # NULL
  <2>1. "setfl" \in Places /\ NewEntry \in Entry
    BY DEF Places, Entry, NewEntry
  <2> QED  BY <2>1
<1>3. /\ call' \in [Co -> Calls] /\ Alone(c) /\ SameCall(c)
      /\ call'[c].at = "setfl"
  BY <1>1, <1>2, NewPlace
<1>4. /\ Opening(c) /\ origin[f] = "hook" /\ f \in opened /\ f \in Fd
      /\ \A d \in Co \ {c} :
           call[d].fd = f => call[d].op = "close" /\ call[d].at # "sysclose"
  BY <1>1 DEF CallInv, CallOK, Opening, TypeOK
<1>5. /\ entry'[f] # NULL /\ entry' \in [Fd -> Entry \cup {NULL}]
      /\ \A g \in Fd \ {f} : entry'[g] = entry[g]
  BY <1>1, <1>2, <1>4 DEF TypeOK
<1> HIDE DEF f
<1>6. TypeOK'
  BY <1>1, <1>3, <1>5 DEF TypeOK
<1>7. CallInv'
  BY <1>1, <1>3, <1>4, <1>5
  DEF TypeOK, CallInv, CallOK, Opening, Idle, Alone, SameCall
<1>8. TableInv'
  BY <1>1, <1>3, <1>4, <1>5
  DEF f, TypeOK, CallInv, CallOK, TableInv, Opening, Alone, SameCall
<1>9. FlagInv'
  BY <1>1, <1>3, <1>4, <1>5
  DEF f, TypeOK, FlagInv, Opening, Alone, SameCall
<1> QED  BY <1>6, <1>7, <1>8, <1>9

\* fcntl in the kernel: with the hook a descriptor of the table stays
\* non-blocking.
LEMMA SetFlStep ==
  ASSUME HookInv, NEW c \in Co, SetFl(c)
  PROVE  HookInv'
<1> USE DEF HookInv
<1> DEFINE f == call[c].fd
<1>1. /\ call[c].at = "setfl" /\ Goto(c, "record")
      /\ nonblock' = IF FlagToSet(c) THEN nonblock \cup {f} ELSE nonblock \ {f}
      /\ UNCHANGED <<hooked, entry, opened, readable, room, conn, origin>>
  BY DEF SetFl
<1>2. "record" \in Places
  BY DEF Places
<1>3. /\ call' \in [Co -> Calls] /\ Alone(c) /\ SameCall(c)
      /\ call'[c].at = "record"
  BY <1>1, <1>2, NewPlace
<1>4. f \in Fd
  BY <1>1 DEF CallInv, CallOK, Idle, TypeOK
<1> HIDE DEF f
<1>5. entry[f] # NULL => f \in nonblock'
  BY <1>1, <1>4 DEF f, FlagInv, TableInv, FlagToSet
<1>6. TypeOK'
  BY <1>1, <1>3, <1>4 DEF TypeOK
<1>7. CallInv'
  BY <1>1, <1>3
  DEF TypeOK, CallInv, CallOK, Opening, Idle, Alone, SameCall
<1>8. TableInv'
  BY <1>1, <1>3 DEF TypeOK, TableInv, Alone, SameCall
<1>9. FlagInv'
  BY <1>1, <1>3, <1>4, <1>5
  DEF f, TypeOK, FlagInv, Opening, Alone, SameCall
<1> QED  BY <1>6, <1>7, <1>8, <1>9

\* Another timeout for an entry.
LEMMA SetSockOptStep ==
  ASSUME HookInv, NEW c \in Co, NEW f \in Fd, NEW t \in Timeouts,
         SetSockOpt(c, f, t)
  PROVE  HookInv'
<1> USE DEF HookInv
<1>1. /\ entry[f] # NULL /\ entry' = [entry EXCEPT ![f].timeout = t]
      /\ UNCHANGED <<hooked, call, opened, nonblock, readable, room, conn,
                     origin>>
  BY DEF SetSockOpt, kernelVars
<1>2. entry[f] \in Entry
  BY <1>1 DEF TypeOK
<1>3. [entry[f] EXCEPT !.timeout = t] \in Entry
  BY <1>2 DEF Entry
<1>4. /\ entry' \in [Fd -> Entry \cup {NULL}] /\ entry'[f] # NULL
      /\ \A g \in Fd \ {f} : entry'[g] = entry[g]
  BY <1>1, <1>3 DEF TypeOK
<1>5. TypeOK'
  BY <1>1, <1>4 DEF TypeOK
<1>6. CallInv'
  BY <1>1, <1>4 DEF TypeOK, CallInv, CallOK, Opening, Idle
<1>7. TableInv'
  BY <1>1, <1>4 DEF TableInv
<1>8. FlagInv'
  BY <1>1, <1>4 DEF FlagInv, Opening
<1> QED  BY <1>5, <1>6, <1>7, <1>8

\* close: nobody else uses the descriptor, and its entry is gone at once.  This
\* is where the rule of Fits is needed.
LEMMA CloseStep ==
  ASSUME HookInv, ~MixedHooks, NEW c \in Co, NEW f \in Fd, Close(c, f)
  PROVE  HookInv'
<1> USE DEF HookInv
<1> DEFINE r == Begin(c, "close", "sysclose", f)
<1>1. /\ Idle(c) /\ f \in opened /\ Fits(c, f) /\ \A d \in Co : call[d].fd # f
      /\ entry' = IF c \in hooked THEN [entry EXCEPT ![f] = NULL] ELSE entry
      /\ call' = [call EXCEPT ![c] = r]
      /\ UNCHANGED <<hooked, opened, nonblock, readable, room, conn, origin>>
  BY DEF Close, MayClose, Freed, kernelVars
<1>2. r \in Calls /\ r.op = "close" /\ r.at = "sysclose" /\ r.fd = f
  <2>1. "close" \in Ops /\ "sysclose" \in Places
    BY DEF Ops, Places
  <2> QED  BY <2>1, BeginType
<1> HIDE DEF r
<1>3. call' \in [Co -> Calls] /\ call'[c] = r /\ Alone(c)
  BY <1>1, <1>2, NewCall
<1>4. /\ entry'[f] = NULL /\ entry' \in [Fd -> Entry \cup {NULL}]
      /\ \A g \in Fd \ {f} : entry'[g] = entry[g]
  BY <1>1 DEF Fits, TableInv, TypeOK
<1>5. TypeOK'
  BY <1>1, <1>3, <1>4 DEF TypeOK
<1>6. CallInv'
  <2>1. CallOK(c)'
    BY <1>1, <1>2, <1>3 DEF CallOK, Opening, Idle, Alone
  <2>2. ASSUME NEW e \in Co \ {c}  PROVE CallOK(e)'
    <3>1. CallOK(e) /\ call'[e] = call[e] /\ call[e].fd # f
      BY <1>1, <1>3 DEF CallInv, Alone
    <3>2. call[e].fd \in opened => call[e].fd \in Fd \ {f}
      BY <3>1 DEF TypeOK
    <3>3. call[e].op \notin {"none", "close"}
          => entry'[call[e].fd] = entry[call[e].fd]
      BY <1>4, <3>1, <3>2 DEF CallOK
    <3> QED
      BY <1>1, <1>2, <1>3, <3>1, <3>3 DEF CallOK, Opening, Idle, Alone
  <2> QED  BY <2>1, <2>2 DEF CallInv
<1>7. TableInv'
  <2>1. call[c].fd = NULL
    BY <1>1 DEF CallInv, CallOK
  <2> QED  BY <1>1, <1>2, <1>3, <1>4, <2>1 DEF TableInv, Alone
<1>8. FlagInv'
  <2>1. call'[c].at = "sysclose" /\ call[c].at = "idle"
    BY <1>1, <1>2, <1>3 DEF Idle
  <2> QED  BY <1>1, <1>3, <1>4, <2>1 DEF FlagInv, Opening, Alone
<1> QED  BY <1>5, <1>6, <1>7, <1>8

\* The number is given up.
LEMMA SysCloseStep ==
  ASSUME HookInv, NEW c \in Co, SysClose(c)
  PROVE  HookInv'
<1> USE DEF HookInv
<1> DEFINE f == call[c].fd
<1>1. /\ call[c].at = "sysclose" /\ Goto(c, "done")
      /\ opened' = opened \ {f} /\ nonblock' = nonblock \ {f}
      /\ readable' = readable \ {f} /\ room' = [room EXCEPT ![f] = MaxBytes]
      /\ conn' = [conn EXCEPT ![f] = "none"]
      /\ origin' = [origin EXCEPT ![f] = "none"]
      /\ UNCHANGED <<hooked, entry>>
  BY DEF SysClose, CloseFd
<1>2. "done" \in Places
  BY DEF Places
<1>3. /\ call' \in [Co -> Calls] /\ Alone(c) /\ SameCall(c)
      /\ call'[c].at = "done"
  BY <1>1, <1>2, NewPlace
<1>4. /\ call[c].op = "close" /\ f \in opened /\ f \in Fd
      /\ \A d \in Co \ {c} : call[d].fd # f
  BY <1>1 DEF CallInv, CallOK, TypeOK
<1>5. entry[f] = NULL
  BY <1>1, <1>4 DEF TableInv
<1>6. call'[c].fd = f /\ call'[c].op = "close"
  BY <1>3, <1>4 DEF SameCall
<1> HIDE DEF f
<1>7. \A g \in Fd \ {f} : origin'[g] = origin[g]
  BY <1>1 DEF TypeOK
<1>8. TypeOK'
  BY <1>1, <1>3, <1>4 DEF TypeOK
<1>9. CallInv'
  <2>1. CallOK(c)'
    BY <1>3, <1>6 DEF CallOK, Opening, Idle
  <2>2. ASSUME NEW e \in Co \ {c}  PROVE CallOK(e)'
    <3>1. CallOK(e) /\ call'[e] = call[e] /\ call[e].fd # f
      BY <1>3, <1>4 DEF CallInv, Alone
    <3>2. call[e].fd \in opened => /\ call[e].fd \in opened'
                                   /\ origin'[call[e].fd] = origin[call[e].fd]
      BY <1>1, <1>7, <3>1 DEF TypeOK
    <3> QED
      BY <1>1, <1>3, <1>6, <3>1, <3>2
      DEF CallOK, Opening, Idle, Alone
  <2> QED  BY <2>1, <2>2 DEF CallInv
<1>10. TableInv'
  BY <1>1, <1>3, <1>4, <1>5, <1>6, <1>7 DEF TableInv, Alone, f
<1>11. FlagInv'
  <2>1. \A d \in Co \ {c} : call[d].at \in {"setfl", "alloc"}
                           => call[d].fd \in Fd \ {f}
    BY <1>4 DEF CallInv, CallOK, Idle, TypeOK
  <2> QED
    BY <1>1, <1>3, <1>4, <1>5, <1>6, <1>7, <2>1
    DEF FlagInv, Opening, Alone
<1> QED  BY <1>8, <1>9, <1>10, <1>11

\* The call returns: nothing rests on it any more.
LEMMA DoneStep ==
  ASSUME HookInv, NEW c \in Co, Done(c)
  PROVE  HookInv'
<1> USE DEF HookInv
<1>1. /\ call[c].at = "done" /\ call' = [call EXCEPT ![c] = NoCall]
      /\ UNCHANGED <<hooked, entry, opened, nonblock, readable, room, conn,
                     origin>>
  BY DEF Done, kernelVars
<1>2. call' \in [Co -> Calls] /\ call'[c] = NoCall /\ Alone(c)
  BY <1>1, NoCallType, NewCall
<1>3. call'[c].op = "none" /\ call'[c].at = "idle" /\ call'[c].fd = NULL
  BY <1>2, NoCallType
<1>4. TypeOK'
  BY <1>1, <1>2 DEF TypeOK
<1>5. CallInv'
  <2>1. CallOK(c)'
    BY <1>3 DEF CallOK, Opening, Idle
  <2>2. ASSUME NEW e \in Co \ {c}  PROVE CallOK(e)'
    <3>1. CallOK(e) /\ call'[e] = call[e]
      BY <1>2 DEF CallInv, Alone
    <3>2. call[e].fd \in opened => call[e].fd # NULL
      BY DEF TypeOK
    <3> QED
      BY <1>1, <1>2, <1>3, <3>1, <3>2 DEF CallOK, Opening, Idle, Alone
  <2> QED  BY <2>1, <2>2 DEF CallInv
<1>6. TableInv'
  BY <1>1, <1>2, <1>3 DEF TableInv, Alone
<1>7. FlagInv'
  BY <1>1, <1>2, <1>3 DEF FlagInv, Opening, Alone
<1> QED  BY <1>4, <1>5, <1>6, <1>7

\* A native descriptor has no entry: its number was free, and so had none.
LEMMA OpenNativeStep ==
  ASSUME HookInv, NEW c \in Co, NEW f \in Fd, OpenNative(c, f)
  PROVE  HookInv'
<1> USE DEF HookInv
<1>1. /\ f \notin opened /\ opened' = opened \cup {f}
      /\ origin' = [origin EXCEPT ![f] = "native"]
      /\ UNCHANGED <<nonblock, readable, room, conn, hooked, entry, call>>
  BY DEF OpenNative, NewFd
<1>2. entry[f] = NULL
  BY <1>1 DEF TableInv
<1>3. origin'[f] = "native" /\ \A g \in Fd \ {f} : origin'[g] = origin[g]
  BY <1>1 DEF TypeOK
<1>4. TypeOK'
  BY <1>1 DEF TypeOK
<1>5. CallInv'
  <2> SUFFICES ASSUME NEW e \in Co  PROVE CallOK(e)'
    BY DEF CallInv
  <2>1. CallOK(e)
    BY DEF CallInv
  <2>2. call[e].fd \in opened => /\ call[e].fd \in opened'
                                 /\ origin'[call[e].fd] = origin[call[e].fd]
    BY <1>1, <1>3 DEF TypeOK
  <2> QED  BY <1>1, <2>1, <2>2 DEF CallOK, Opening, Idle
<1>6. TableInv'
  BY <1>1, <1>2, <1>3 DEF TableInv
<1>7. FlagInv'
  <2>1. \A d \in Co : call[d].at \in {"setfl", "alloc"}
                     => call[d].fd \in Fd \ {f}
    BY <1>1 DEF CallInv, CallOK, Idle, TypeOK
  <2> QED  BY <1>1, <1>2, <1>3, <2>1 DEF FlagInv, Opening
<1> QED  BY <1>4, <1>5, <1>6, <1>7

\* The hook is switched between calls, not in one.
LEMMA SwitchHookStep ==
  ASSUME HookInv, NEW c \in Co, SwitchHook(c)
  PROVE  HookInv'
BY DEF SwitchHook, kernelVars, HookInv, TypeOK, CallInv, CallOK, TableInv,
       FlagInv, Opening, Idle

\* What the kernel does by itself is nothing to the table.
LEMMA KernelStep ==
  ASSUME HookInv, NEW f \in Fd, Kernel(f)
  PROVE  HookInv'
<1> USE DEF HookInv
<1>1. UNCHANGED <<hooked, entry, call, opened, nonblock, origin>>
  BY DEF Kernel, Deliver, Drain, Connected
<1>2. TypeOK'
  <2>1. CASE Deliver(f)
    BY <2>1 DEF Deliver, TypeOK
  <2>2. CASE Drain(f)
    BY <2>2 DEF Drain, TypeOK
  <2>3. CASE \E result \in {"done", "failed"} : Connected(f, result)
    BY <2>3 DEF Connected, TypeOK
  <2> QED  BY <2>1, <2>2, <2>3 DEF Kernel
<1>3. CallInv' /\ TableInv' /\ FlagInv'
  BY <1>1 DEF CallInv, CallOK, TableInv, FlagInv, Opening, Idle
<1> QED  BY <1>2, <1>3

----------------------------------------------------------------------------
\* The steps within a call.

\* The user's flag is recorded in an entry that stays.
LEMMA RecordStep ==
  ASSUME HookInv, NEW c \in Co, Record(c)
  PROVE  HookInv'
<1>1. TypeOK
  BY DEF HookInv
<1>2. call[c].at = "record" /\ Goto(c, "done")
  BY DEF Record
<1>3. /\ call' \in [Co -> Calls] /\ Alone(c) /\ SameCall(c)
      /\ call'[c].at = "done"
  BY <1>1, <1>2, NewPlace DEF Places
<1>4. call[c].flag \in BOOLEAN
  BY <1>1 DEF TypeOK, Calls
<1>5. entry' \in [Fd -> Entry \cup {NULL}] /\ SameEntries
  <2> DEFINE f == call[c].fd
  <2>1. CASE entry[f] = NULL
    BY <1>1, <2>1 DEF Record, TypeOK, SameEntries
  <2>2. CASE entry[f] # NULL
    <3>1. entry' = [entry EXCEPT ![f].user_flag = call[c].flag]
      BY <2>2 DEF Record
    <3>2. f \in Fd
      BY <1>2 DEF HookInv, CallInv, CallOK, Idle, TypeOK
    <3>3. entry[f] \in Entry
      BY <1>1, <2>2, <3>2 DEF TypeOK
    <3>4. [entry[f] EXCEPT !.user_flag = call[c].flag] \in Entry
      BY <1>4, <3>3 DEF Entry
    <3> QED  BY <1>1, <2>2, <3>1, <3>2, <3>4 DEF TypeOK, SameEntries
  <2> QED  BY <2>1, <2>2
<1>6. UNCHANGED <<hooked, opened, nonblock, readable, room, conn, origin>>
  BY DEF Record, kernelVars
<1>7. TypeOK'
  BY <1>1, <1>3, <1>5, <1>6 DEF TypeOK
<1>8. GoesOn(c)
  BY <1>2, <1>3, <1>6 DEF GoesOn
<1> QED  BY <1>5, <1>7, <1>8, GoOnStep

\* poll has come back.
LEMMA PolledStep ==
  ASSUME HookInv, NEW c \in Co, Polled(c)
  PROVE  HookInv'
<1>1. TypeOK /\ call[c] \in Calls
  BY DEF HookInv, TypeOK
<1> DEFINE r == [call[c] EXCEPT !.at = "try", !.polls = 1]
<1>2. call' = [call EXCEPT ![c] = r]
  BY DEF Polled
<1>3. UNCHANGED <<hooked, entry, opened, nonblock, readable, room, conn,
                  origin>>
  BY DEF Polled, kernelVars
<1>4. "try" \in Places /\ 1 \in 0..3
  BY DEF Places
<1>5. /\ r \in Calls /\ r.at = "try" /\ r.op = call[c].op
      /\ r.fd = call[c].fd /\ r.flag = call[c].flag
  BY <1>1, <1>4 DEF Calls
<1> HIDE DEF r
<1>6. /\ call' \in [Co -> Calls] /\ Alone(c) /\ SameCall(c)
      /\ call'[c].at = "try"
  BY <1>1, <1>2, <1>5, NewCall DEF SameCall
<1>7. TypeOK' /\ SameEntries
  BY <1>1, <1>3, <1>6 DEF TypeOK, SameEntries
<1>8. call[c].at = "poll"
  BY DEF Polled
<1>9. GoesOn(c)
  BY <1>3, <1>6, <1>8 DEF GoesOn
<1> QED  BY <1>7, <1>9, GoOnStep

\* The read of the kernel ends the call.
LEMMA TryReadStep ==
  ASSUME HookInv, NEW c \in Co, TryRead(c)
  PROVE  HookInv'
<1>1. TypeOK
  BY DEF HookInv
<1>2. PICK ret \in {1, 0, -1} : Return(c, ret)
  BY DEF TryRead
<1>3. /\ call' \in [Co -> Calls] /\ Alone(c) /\ SameCall(c)
      /\ call'[c].at = "done"
  BY <1>1, <1>2, NewResult
<1>4. /\ call[c].at = "try" /\ readable' \subseteq readable
      /\ UNCHANGED <<hooked, entry, opened, nonblock, room, conn, origin>>
  BY DEF TryRead
<1>5. TypeOK' /\ SameEntries
  BY <1>1, <1>3, <1>4 DEF TypeOK, SameEntries
<1>6. GoesOn(c)
  BY <1>3, <1>4 DEF GoesOn
<1> QED  BY <1>5, <1>6, GoOnStep

\* What Take does to a record of a call.
LEMMA TakeType ==
  ASSUME NEW c \in Co, call[c] \in Calls, NEW k \in Nat,
         call[c].wrotelen + k <= MaxBytes
  PROVE  /\ Take(c, k) \in Calls
         /\ Take(c, k).op = call[c].op /\ Take(c, k).fd = call[c].fd
         /\ Take(c, k).flag = call[c].flag
         /\ Take(c, k).wrotelen = call[c].wrotelen + k
<1> DEFINE r == call[c]
           q == [i \in 1..k |-> r.wrotelen + i]
<1>1. r.wrotelen \in 0..MaxBytes /\ r.sent \in Seq(Nat)
  BY DEF Calls
<1>2. q \in Seq(Nat)
  BY <1>1
<1>3. r.sent \o q \in Seq(Nat)
  BY <1>1, <1>2, ConcatProperties
<1>4. r.wrotelen + k \in 0..MaxBytes
  BY <1>1
<1>5. Take(c, k) = [r EXCEPT !.wrotelen = r.wrotelen + k, !.sent = r.sent \o q]
  BY DEF Take
<1> HIDE DEF q
<1> QED  BY <1>3, <1>4, <1>5 DEF Calls

\* What a write returns: what was taken, or the error if that is nothing.
SaysWhy(c, ret) ==
  \/ ret = call[c].wrotelen
  \/ ret = -1 /\ call[c].wrotelen = 0

\* After an error or a 0 a write polls, or ends with what was taken or with -1.
LEMMA FailedWrite ==
  ASSUME NEW c \in Co, call[c] \in Calls, WriteFailed(c)
  PROVE  \/ Goto(c, "poll")
         \/ \E ret \in -1..MaxBytes :
              Return(c, ret) /\ SaysWhy(c, ret)
<1>1. call[c].wrotelen \in 0..MaxBytes
  BY DEF Calls
<1>2. ASSUME NEW w \in {-1, 0}, Return(c, IF call[c].wrotelen = 0 THEN w ELSE call[c].wrotelen)
      PROVE  \E ret \in -1..MaxBytes :
              Return(c, ret) /\ SaysWhy(c, ret)
  <2> DEFINE ret == IF call[c].wrotelen = 0 THEN w ELSE call[c].wrotelen
  <2>1. ret \in -1..MaxBytes /\ SaysWhy(c, ret)
    BY <1>1 DEF SaysWhy
  <2>2. Return(c, ret)
    BY <1>2
  <2> HIDE DEF ret
  <2> QED  BY <2>1, <2>2
<1> QED  BY <1>2 DEF WriteFailed

\* A write takes a part and goes on, or ends.
LEMMA TryWriteStep ==
  ASSUME HookInv, NEW c \in Co, TryWrite(c)
  PROVE  HookInv'
<1> DEFINE f == call[c].fd
<1>1. TypeOK /\ call[c] \in Calls
  BY DEF HookInv, TypeOK
<1>2. /\ call[c].at = "try"
      /\ UNCHANGED <<hooked, entry, opened, nonblock, readable, conn, origin>>
  BY DEF TryWrite
<1>3. f \in Fd /\ room[f] \in 0..MaxBytes /\ room \in [Fd -> 0..MaxBytes]
  BY <1>1, <1>2 DEF HookInv, CallInv, CallOK, TypeOK
<1>4. /\ call' \in [Co -> Calls] /\ Alone(c) /\ SameCall(c)
      /\ call'[c].at \in {"poll", "done"}
      /\ room' \in [Fd -> 0..MaxBytes]
  <2>1. ASSUME NEW k \in 1..room[f], call[c].wrotelen + k <= call[c].want,
               room' = [room EXCEPT ![f] = @ - k],
               call' = [call EXCEPT ![c] =
                 IF Wrote(c, k).wrotelen < Wrote(c, k).want
                 THEN [Wrote(c, k) EXCEPT !.at = "poll"]
                 ELSE [Wrote(c, k) EXCEPT !.at = "done",
                                          !.ret = Wrote(c, k).wrotelen]]
        PROVE  /\ call' \in [Co -> Calls] /\ Alone(c) /\ SameCall(c)
               /\ call'[c].at \in {"poll", "done"}
               /\ room' \in [Fd -> 0..MaxBytes]
    <3> DEFINE t == Take(c, k)
               r == IF t.wrotelen < t.want THEN [t EXCEPT !.at = "poll"]
                    ELSE [t EXCEPT !.at = "done", !.ret = t.wrotelen]
    <3>1. k \in Nat /\ call[c].wrotelen + k <= MaxBytes
      BY <1>1, <1>3, <2>1 DEF Calls
    <3>2. /\ t \in Calls /\ t.op = call[c].op /\ t.fd = call[c].fd
          /\ t.flag = call[c].flag
      BY <1>1, <3>1, TakeType
    <3>3. call' = [call EXCEPT ![c] = r]
      BY <2>1 DEF Wrote
    <3> HIDE DEF t
    <3>4. {"poll", "done"} \subseteq Places
      BY DEF Places
    <3>5. t.wrotelen \in -1..MaxBytes
      BY <3>2 DEF Calls
    <3>6. /\ r \in Calls /\ r.at \in {"poll", "done"} /\ r.op = call[c].op
          /\ r.fd = call[c].fd /\ r.flag = call[c].flag
      BY <3>2, <3>4, <3>5 DEF Calls
    <3> HIDE DEF r
    <3>7. call' \in [Co -> Calls] /\ call'[c] = r /\ Alone(c)
      BY <1>1, <3>3, <3>6, NewCall
    <3>8. room' \in [Fd -> 0..MaxBytes]
      BY <1>3, <2>1
    <3> QED  BY <3>6, <3>7, <3>8 DEF SameCall
  <2>2. ASSUME WriteFailed(c), UNCHANGED room
        PROVE  /\ call' \in [Co -> Calls] /\ Alone(c) /\ SameCall(c)
               /\ call'[c].at \in {"poll", "done"}
               /\ room' \in [Fd -> 0..MaxBytes]
    <3>1. CASE Goto(c, "poll")
      <4>1. "poll" \in Places
        BY DEF Places
      <4> QED  BY <1>1, <1>3, <2>2, <3>1, <4>1, NewPlace
    <3>2. ASSUME NEW ret \in -1..MaxBytes, Return(c, ret)
          PROVE  /\ call' \in [Co -> Calls] /\ Alone(c) /\ SameCall(c)
                 /\ call'[c].at \in {"poll", "done"}
                 /\ room' \in [Fd -> 0..MaxBytes]
      BY <1>1, <1>3, <2>2, <3>2, NewResult
    <3>3. \/ Goto(c, "poll")
          \/ \E ret \in -1..MaxBytes : Return(c, ret)
      BY <1>1, <2>2, FailedWrite
    <3> QED  BY <3>1, <3>2, <3>3
  <2> QED  BY <2>1, <2>2 DEF TryWrite
<1>5. TypeOK' /\ SameEntries
  BY <1>1, <1>2, <1>4 DEF TypeOK, SameEntries
<1>6. GoesOn(c)
  BY <1>2, <1>4 DEF GoesOn
<1> QED  BY <1>5, <1>6, GoOnStep

\* sendto tries twice.
LEMMA TrySendtoStep ==
  ASSUME HookInv, NEW c \in Co, TrySendto(c)
  PROVE  HookInv'
<1> DEFINE f == call[c].fd
<1>1. TypeOK /\ call[c] \in Calls
  BY DEF HookInv, TypeOK
<1>2. /\ call[c].at = "try"
      /\ UNCHANGED <<hooked, entry, opened, nonblock, readable, conn, origin>>
  BY DEF TrySendto
<1>3. f \in Fd /\ room[f] \in 0..MaxBytes /\ room \in [Fd -> 0..MaxBytes]
  BY <1>1, <1>2 DEF HookInv, CallInv, CallOK, TypeOK
<1>4. /\ call' \in [Co -> Calls] /\ Alone(c) /\ SameCall(c)
      /\ call'[c].at \in {"poll", "done"}
      /\ room' \in [Fd -> 0..MaxBytes]
  <2>1. ASSUME room[f] > 0, room' = [room EXCEPT ![f] = @ - 1],
               call' = [call EXCEPT ![c].sent = Append(@, 1),
                                    ![c].at = "done", ![c].ret = 1]
        PROVE  /\ call' \in [Co -> Calls] /\ Alone(c) /\ SameCall(c)
               /\ call'[c].at \in {"poll", "done"}
               /\ room' \in [Fd -> 0..MaxBytes]
    <3> DEFINE q == call[c]
               more == Append(q.sent, 1)
               r == [q EXCEPT !.sent = more, !.at = "done", !.ret = 1]
    <3>1. q \in Calls
      BY <1>1
    <3>2. more \in Seq(Nat)
      BY <3>1, AppendProperties DEF Calls
    <3>3. call' = [call EXCEPT ![c] = r]
      BY <2>1, <1>1 DEF TypeOK
    <3> HIDE DEF q, more
    <3>4. "done" \in Places /\ 1 \in -1..MaxBytes
      BY DEF Places
    <3>5. /\ r \in Calls /\ r.at = "done" /\ r.op = q.op
          /\ r.fd = q.fd /\ r.flag = q.flag
      BY <3>1, <3>2, <3>4 DEF Calls
    <3> HIDE DEF r
    <3>6. call' \in [Co -> Calls] /\ call'[c] = r /\ Alone(c)
      BY <1>1, <3>3, <3>5, NewCall
    <3>7. room' \in [Fd -> 0..MaxBytes]
      BY <1>3, <2>1
    <3> QED  BY <3>5, <3>6, <3>7 DEF SameCall, q
  <2>2. CASE Goto(c, "poll") /\ UNCHANGED room
    <3>1. "poll" \in Places
      BY DEF Places
    <3> QED  BY <1>1, <1>3, <2>2, <3>1, NewPlace
  <2>3. CASE Return(c, -1) /\ UNCHANGED room
    BY <1>1, <1>3, <2>3, NewResult
  <2> QED  BY <2>1, <2>2, <2>3 DEF TrySendto
<1>5. TypeOK' /\ SameEntries
  BY <1>1, <1>2, <1>4 DEF TypeOK, SameEntries
<1>6. GoesOn(c)
  BY <1>2, <1>4 DEF GoesOn
<1> QED  BY <1>5, <1>6, GoOnStep

\* connect polls again, or ends.
LEMMA PolledConnectStep ==
  ASSUME HookInv, NEW c \in Co, PolledConnect(c)
  PROVE  HookInv'
<1>1. TypeOK /\ call[c] \in Calls
  BY DEF HookInv, TypeOK
<1>2. /\ call[c].at = "poll"
      /\ UNCHANGED <<hooked, entry, opened, nonblock, readable, room, conn,
                     origin>>
  BY DEF PolledConnect, kernelVars
<1>3. /\ call' \in [Co -> Calls] /\ Alone(c) /\ SameCall(c)
      /\ call'[c].at \in {"poll", "done"}
  <2>1. CASE Return(c, ConnectRet(call[c].fd))
    <3>1. ConnectRet(call[c].fd) \in -1..MaxBytes
      BY DEF ConnectRet
    <3> QED  BY <1>1, <2>1, <3>1, NewResult
  <2>2. ASSUME call' = [call EXCEPT ![c] =
                  IF call[c].polls < 2 THEN [call[c] EXCEPT !.polls = @ + 1]
                  ELSE [call[c] EXCEPT !.polls = 3, !.at = "done", !.ret = -1]]
        PROVE  /\ call' \in [Co -> Calls] /\ Alone(c) /\ SameCall(c)
               /\ call'[c].at \in {"poll", "done"}
    <3> DEFINE q == call[c]
               last == [q EXCEPT !.polls = 3, !.at = "done", !.ret = -1]
               r == IF q.polls < 2 THEN [q EXCEPT !.polls = @ + 1] ELSE last
    <3>1. call' = [call EXCEPT ![c] = r]
      BY <2>2
    <3>2. q \in Calls /\ q.at = "poll" /\ "done" \in Places
      BY <1>1, <1>2 DEF Places
    <3> HIDE DEF q
    <3>3. q.polls \in 0..3 /\ -1 \in -1..MaxBytes
      BY <3>2 DEF Calls
    <3>4. /\ r \in Calls /\ r.at \in {"poll", "done"} /\ r.op = q.op
          /\ r.fd = q.fd /\ r.flag = q.flag
      <4>1. CASE q.polls < 2
        <5>1. q.polls + 1 \in 0..3
          BY <3>3, <4>1
        <5> QED  BY <3>2, <4>1, <5>1 DEF Calls
      <4>2. CASE ~(q.polls < 2)
        <5>1. /\ last \in Calls /\ last.at = "done" /\ last.op = q.op
              /\ last.fd = q.fd /\ last.flag = q.flag
          <6>1. 3 \in 0..3
            OBVIOUS
          <6> QED  BY <3>2, <3>3, <6>1 DEF Calls
        <5> QED  BY <4>2, <5>1
      <4> QED  BY <4>1, <4>2
    <3> HIDE DEF r
    <3>5. call' \in [Co -> Calls] /\ call'[c] = r /\ Alone(c)
      BY <1>1, <3>1, <3>4, NewCall
    <3> QED  BY <3>4, <3>5 DEF SameCall, q
  <2> QED  BY <2>1, <2>2 DEF PolledConnect
<1>4. TypeOK' /\ SameEntries
  BY <1>1, <1>2, <1>3 DEF TypeOK, SameEntries
<1>5. GoesOn(c)
  BY <1>2, <1>3 DEF GoesOn
<1> QED  BY <1>4, <1>5, GoOnStep

----------------------------------------------------------------------------
\* The steps that begin a call.

\* With Fits, fcntl on a descriptor with an entry is called with the hook.
LEMMA FcntlStep ==
  ASSUME HookInv, ~MixedHooks, NEW c \in Co, NEW f \in Fd,
         NEW flag \in BOOLEAN, Fcntl(c, f, flag)
  PROVE  HookInv'
<1> DEFINE r == [Begin(c, "fcntl", "setfl", f) EXCEPT !.flag = flag]
<1>1. TypeOK
  BY DEF HookInv
<1>2. r \in Calls /\ r.op = "fcntl" /\ r.at = "setfl" /\ r.fd = f
  <2>1. "fcntl" \in Ops /\ "setfl" \in Places
    BY DEF Ops, Places
  <2> QED  BY <2>1, BeginType, FlagType
<1>3. call' = [call EXCEPT ![c] = r] /\ MayUse(c, f)
  BY DEF Fcntl
<1> HIDE DEF r
<1>4. call' \in [Co -> Calls] /\ call'[c] = r /\ Alone(c)
  BY <1>1, <1>2, <1>3, NewCall
<1>5. UNCHANGED <<hooked, entry, opened, nonblock, readable, room, conn,
                  origin>>
  BY DEF Fcntl, kernelVars
<1>6. TypeOK'
  BY <1>1, <1>4, <1>5 DEF TypeOK
<1>7. call'[c].fd = f /\ call'[c].op = "fcntl" /\ call'[c].at = "setfl"
  BY <1>2, <1>4
<1> QED  BY <1>3, <1>4, <1>5, <1>6, <1>7, UseStep

\* read, write and sendto begin on a descriptor with an entry.
LEMMA StartStep ==
  ASSUME HookInv, NEW c \in Co, NEW f \in Fd, NEW want \in 0..MaxBytes,
         NEW op \in {"read", "write", "sendto"}, NEW place \in {"poll", "try"},
         Start(c, op, place, f, want)
  PROVE  HookInv'
<1> DEFINE b == Begin(c, op, place, f)
           r == [b EXCEPT !.want = want]
<1>1. TypeOK
  BY DEF HookInv
<1>2. r \in Calls /\ r.op = op /\ r.at = place /\ r.fd = f
  <2>1. op \in Ops /\ place \in Places
    BY DEF Ops, Places
  <2>2. b \in Calls /\ b.op = op /\ b.at = place /\ b.fd = f
    BY <2>1, BeginType
  <2> HIDE DEF b
  <2> QED  BY <2>2 DEF Calls
<1>3. call' = [call EXCEPT ![c] = r] /\ MayUse(c, f) /\ Waits(c, f)
  BY DEF Start
<1> HIDE DEF r
<1>4. call' \in [Co -> Calls] /\ call'[c] = r /\ Alone(c)
  BY <1>1, <1>2, <1>3, NewCall
<1>5. UNCHANGED <<hooked, entry, opened, nonblock, readable, room, conn,
                  origin>>
  BY DEF Start, kernelVars
<1>6. TypeOK'
  BY <1>1, <1>4, <1>5 DEF TypeOK
<1>7. /\ call'[c].fd = f
      /\ call'[c].op \in {"read", "write", "sendto", "connect"}
      /\ call'[c].at \in {"poll", "try", "done"}
  BY <1>2, <1>4
<1> QED  BY <1>3, <1>4, <1>5, <1>6, <1>7, UseStep

\* connect begins, and may end at once.
LEMMA ConnectStep ==
  ASSUME HookInv, NEW c \in Co, NEW f \in Fd, Connect(c, f)
  PROVE  HookInv'
<1>1. TypeOK
  BY DEF HookInv
<1>2. /\ {"connect"} \subseteq Ops /\ {"poll", "done"} \subseteq Places
      /\ {0, -1} \subseteq -1..MaxBytes
  BY DEF Ops, Places
<1>3. PICK r \in Calls : /\ call' = [call EXCEPT ![c] = r]
                         /\ r.op = "connect" /\ r.at \in {"poll", "done"}
                         /\ r.fd = f
  <2>1. CASE call' = [call EXCEPT ![c] = Begin(c, "connect", "poll", f)]
    <3> DEFINE b == Begin(c, "connect", "poll", f)
    <3>1. b \in Calls /\ b.op = "connect" /\ b.at = "poll" /\ b.fd = f
      BY <1>2, BeginType
    <3> HIDE DEF b
    <3> QED  BY <2>1, <3>1 DEF b
  <2>2. ASSUME NEW ret \in {0, -1},
               call' = [call EXCEPT ![c] =
                          [Begin(c, "connect", "done", f) EXCEPT !.ret = ret]]
        PROVE  \E r \in Calls : /\ call' = [call EXCEPT ![c] = r]
                                /\ r.op = "connect"
                                /\ r.at \in {"poll", "done"} /\ r.fd = f
    <3> DEFINE b == Begin(c, "connect", "done", f)
               q == [b EXCEPT !.ret = ret]
    <3>1. b \in Calls /\ b.op = "connect" /\ b.at = "done" /\ b.fd = f
      BY <1>2, BeginType
    <3>2. call' = [call EXCEPT ![c] = q]
      BY <2>2
    <3> HIDE DEF b
    <3>3. q \in Calls /\ q.op = "connect" /\ q.at = "done" /\ q.fd = f
      BY <1>2, <3>1 DEF Calls
    <3> QED  BY <3>2, <3>3
  <2> QED  BY <2>1, <2>2 DEF Connect
<1>4. call' = [call EXCEPT ![c] = r]
  BY <1>3
<1>5. call' \in [Co -> Calls] /\ call'[c] = r /\ Alone(c)
  BY <1>1, <1>3, <1>4, NewCall
<1>6. /\ UNCHANGED <<hooked, entry, opened, nonblock, readable, room, origin>>
      /\ conn' \in [Fd -> {"none", "pending", "done", "failed"}]
  BY <1>1 DEF Connect, TypeOK
<1>7. TypeOK'
  BY <1>1, <1>5, <1>6 DEF TypeOK
<1>8. /\ call'[c].fd = f
      /\ call'[c].op \in {"read", "write", "sendto", "connect"}
      /\ call'[c].at \in {"poll", "try", "done"}
  BY <1>3, <1>5
<1>9. MayUse(c, f) /\ Waits(c, f)
  BY DEF Connect
<1> QED  BY <1>5, <1>6, <1>7, <1>8, <1>9, UseStep

----------------------------------------------------------------------------
\* Every step keeps the invariant.
LEMMA NextHookInv ==
  ASSUME HookInv, ~MixedHooks, [Next]_hookVars
  PROVE  HookInv'
<1>1. ASSUME NEW c \in Co, Step(c)  PROVE HookInv'
  BY <1>1, AllocStep, SetFlStep, RecordStep, SysCloseStep, PolledStep,
     TryReadStep, TryWriteStep, TrySendtoStep, PolledConnectStep, DoneStep
  DEF Step
<1>2. ASSUME NEW c \in Co, NEW f \in Fd, Call(c, f)  PROVE HookInv'
  <2>1. ASSUME NEW flag \in BOOLEAN, Socket(c, f, flag)  PROVE HookInv'
    BY <2>1, MakeStep DEF Socket
  <2>2. ASSUME NEW flag \in BOOLEAN, Fcntl(c, f, flag)  PROVE HookInv'
    BY <2>2, FcntlStep
  <2>3. CASE OpenNative(c, f)
    BY <2>3, OpenNativeStep
  <2>4. CASE Accept(c, f)
    BY <2>4, MakeStep DEF Accept
  <2>5. CASE Close(c, f)
    BY <2>5, CloseStep
  <2>6. ASSUME NEW t \in Timeouts, SetSockOpt(c, f, t)  PROVE HookInv'
    BY <2>6, SetSockOptStep
  <2>7. CASE Read(c, f) \/ Sendto(c, f)
    BY <2>7, StartStep DEF Read, Sendto
  <2>8. ASSUME NEW n \in 1..MaxBytes, Write(c, f, n)  PROVE HookInv'
    <3>1. n \in 0..MaxBytes
      OBVIOUS
    <3> QED  BY <2>8, <3>1, StartStep DEF Write
  <2>9. CASE Connect(c, f)
    BY <2>9, ConnectStep
  <2> QED
    BY <1>2, <2>1, <2>2, <2>3, <2>4, <2>5, <2>6, <2>7, <2>8, <2>9 DEF Call
<1>3. CASE UNCHANGED hookVars
  BY <1>3
  DEF hookVars, kernelVars, HookInv, TypeOK, CallInv, CallOK, TableInv,
      FlagInv, Opening, Idle
<1> QED  BY <1>1, <1>2, <1>3, SwitchHookStep, KernelStep DEF Next

\* In every reachable state the table has an entry for exactly those open
\* descriptors that socket or co_accept made, and is ready before their program
\* gets them, whatever the threads do meanwhile; if descriptors with an entry
\* are used with the hooks on.
THEOREM Invariance ==
  ASSUME ~MixedHooks
  PROVE  Spec => []HookInv
<1>1. Init => HookInv
  BY InitHookInv
<1>2. HookInv /\ [Next]_hookVars => HookInv'
  BY NextHookInv
<1> QED  BY <1>1, <1>2, PTL DEF Spec

\* No hooked read, write or sendto meets a descriptor that would block its
\* thread: fcntl, close and open by other threads never get in between.
THEOREM NoThreadBlocks ==
  ASSUME ~MixedHooks
  PROVE  Spec => []ThreadsRun
<1>1. HookInv => ThreadsRun
  <2> SUFFICES ASSUME HookInv, NEW c \in Co, call[c].at = "try"
               PROVE  call[c].fd \in nonblock
    BY DEF ThreadsRun
  <2> USE DEF HookInv
  <2> DEFINE f == call[c].fd
  <2>1. entry[f] # NULL /\ f \in Fd /\ ~Opening(c) /\ call[c].op # "close"
    BY DEF CallInv, CallOK, Opening, Idle, TypeOK
  <2>2. ~ \E d \in Co : call[d].fd = f /\ Opening(d)
    BY <2>1 DEF CallInv, CallOK
  <2> QED  BY <2>1, <2>2 DEF FlagInv
<1> QED  BY <1>1, Invariance, PTL
----------------------------------------------------------------------------
\* The first n bytes of a message.
FirstBytes(n) == [i \in 1..n |-> i]

\* What a call has to report, at any of its places: a write sent the bytes it
\* has counted, a sendto is done or sent nothing, and a connect found its
\* connection begun.
ReportOK(r) ==
  /\ r.op \in {"read", "write", "sendto", "connect"}
     => r.at \in {"poll", "try", "done"}
  /\ r.op \notin {"write", "sendto"} => r.sent = <<>>
  /\ r.op = "write" =>
       /\ r.sent = FirstBytes(r.wrotelen)
       /\ r.at = "done" =>
            \/ r.ret = r.wrotelen
            \/ r.ret = -1 /\ r.wrotelen = 0
  /\ r.op = "sendto" =>
       \/ r.sent = <<>> /\ (r.at = "done" => r.ret = -1)
       \/ r.sent = FirstBytes(1) /\ r.at = "done" /\ r.ret = 1
  /\ r.op = "connect" =>
       /\ conn[r.fd] # "none"
       /\ r.at = "done" =>
            \/ r.ret = 0 /\ conn[r.fd] = "done"
            \/ r.ret = -1 /\ (conn[r.fd] = "failed" \/ r.polls = 3)

ReportInv == \A c \in Co : ReportOK(call[c])

\* The outcome of a connection stays.
ConnKept(f) == /\ conn[f] # "none" => conn'[f] # "none"
               /\ conn[f] \in {"done", "failed"} => conn'[f] = conn[f]

\* A step of c that leaves the connections of the others' calls.
LEMMA OneReports ==
  ASSUME ReportInv, NEW c \in Co, Alone(c), ReportOK(call[c])',
         \A d \in Co \ {c} : call[d].op = "connect" => ConnKept(call[d].fd)
  PROVE  ReportInv'
BY DEF ReportInv, ReportOK, Alone, ConnKept

\* What is at each place of two sequences, joined.
LEMMA JoinedAt ==
  ASSUME NEW s \in Seq(Nat), NEW t \in Seq(Nat)
  PROVE  /\ s \o t \in Seq(Nat) /\ Len(s \o t) = Len(s) + Len(t)
         /\ \A i \in 1..Len(s) : (s \o t)[i] = s[i]
         /\ \A i \in Len(s) + 1..Len(s) + Len(t) : (s \o t)[i] = t[i - Len(s)]
OBVIOUS

\* Two sequences, joined.
LEMMA JoinedIs ==
  ASSUME NEW s \in Seq(Nat), NEW t \in Seq(Nat), NEW u \in Seq(Nat),
         Len(u) = Len(s) + Len(t), \A i \in 1..Len(s) : u[i] = s[i],
         \A i \in 1..Len(t) : u[Len(s) + i] = t[i]
  PROVE  s \o t = u
<1> DEFINE v == s \o t
           m == Len(s)
           n == Len(t)
<1>1. /\ v \in Seq(Nat) /\ Len(v) = m + n /\ m \in Nat /\ n \in Nat
      /\ \A i \in 1..m : v[i] = s[i]
      /\ \A i \in 1..n : v[m + i] = t[i]
  <2>1. m \in Nat /\ n \in Nat
    OBVIOUS
  <2>2. /\ v \in Seq(Nat) /\ Len(v) = m + n
        /\ \A i \in 1..m : v[i] = s[i]
        /\ \A i \in m + 1..m + n : v[i] = t[i - m]
    BY JoinedAt
  <2>3. \A i \in 1..n : m + i \in m + 1..m + n /\ (m + i) - m = i
    BY <2>1
  <2> HIDE DEF v, m, n
  <2> QED  BY <2>1, <2>2, <2>3
<1>2. /\ Len(u) = m + n /\ \A i \in 1..m : u[i] = s[i]
      /\ \A i \in 1..n : u[m + i] = t[i]
  OBVIOUS
<1> HIDE DEF v, m, n
<1>3. ASSUME NEW i \in 1..m + n PROVE u[i] = v[i]
  <2>1. CASE i \in 1..m
    BY <1>1, <1>2, <2>1
  <2>2. CASE i \notin 1..m
    <3> DEFINE k == i - m
    <3>1. k \in 1..n /\ i = m + k
      BY <1>1, <2>2
    <3> HIDE DEF k
    <3>2. u[m + k] = v[m + k]
      BY <1>1, <1>2, <3>1
    <3> QED  BY <3>1, <3>2
  <2> QED  BY <2>1, <2>2
<1>4. u = v
  BY <1>1, <1>2, <1>3, SeqEqual
<1> QED  BY <1>4 DEF v

\* The bytes of a message that go after the first n.
LEMMA NextBytes ==
  ASSUME NEW n \in Nat, NEW k \in Nat
  PROVE  FirstBytes(n) \o [i \in 1..k |-> n + i] = FirstBytes(n + k)
<1> DEFINE s == FirstBytes(n)
           t == [i \in 1..k |-> n + i]
           u == FirstBytes(n + k)
<1>1. /\ s \in Seq(Nat) /\ t \in Seq(Nat) /\ u \in Seq(Nat)
      /\ Len(s) = n /\ Len(t) = k /\ Len(u) = n + k
      /\ \A i \in 1..n : s[i] = i
      /\ \A i \in 1..k : t[i] = n + i
      /\ \A i \in 1..n + k : u[i] = i
  BY DEF FirstBytes
<1> HIDE DEF s, t, u
<1>2. /\ \A i \in 1..Len(s) : u[i] = s[i]
      /\ \A i \in 1..Len(t) : u[Len(s) + i] = t[i]
  BY <1>1
<1>3. s \o t = u
  BY <1>1, <1>2, JoinedIs
<1> QED  BY <1>3 DEF s, t, u

\* A new place leaves what a call reports.
LEMMA SamePlaceFields ==
  ASSUME TypeOK, NEW c \in Co, NEW place \in Places, Goto(c, place)
  PROVE  /\ call'[c].sent = call[c].sent /\ call'[c].ret = call[c].ret
         /\ call'[c].wrotelen = call[c].wrotelen
         /\ call'[c].polls = call[c].polls
<1>1. call[c] \in Calls
  BY DEF TypeOK
<1> QED  BY <1>1 DEF TypeOK, Goto, Calls

\* So does a result, but for the result.
LEMMA ResultFields ==
  ASSUME TypeOK, NEW c \in Co, NEW ret, Return(c, ret)
  PROVE  /\ call'[c].sent = call[c].sent /\ call'[c].ret = ret
         /\ call'[c].wrotelen = call[c].wrotelen
         /\ call'[c].polls = call[c].polls
<1>1. call[c] \in Calls
  BY DEF TypeOK
<1> QED  BY <1>1 DEF TypeOK, Return, Calls

\* The steps of calls that have nothing to report.
LEMMA QuietStep ==
  ASSUME HookInv, ReportInv, NEW c \in Co,
         Alloc(c) \/ SetFl(c) \/ Record(c) \/ SysClose(c) \/ Done(c)
           \/ TryRead(c)
  PROVE  ReportInv'
<1>1. TypeOK /\ call[c] \in Calls /\ ReportOK(call[c]) /\ CallOK(c)
  BY DEF HookInv, TypeOK, ReportInv, CallInv
<1>2. CASE Alloc(c) \/ SetFl(c) \/ Record(c) \/ SysClose(c)
  <2>1. PICK place \in Places : Goto(c, place)
    <3>1. {"setfl", "record", "done"} \subseteq Places
      BY DEF Places
    <3> QED  BY <1>2, <3>1 DEF Alloc, SetFl, Record, SysClose
  <2>2. Alone(c) /\ SameCall(c)
    BY <1>1, <2>1, NewPlace
  <2>3. call'[c].sent = call[c].sent
    BY <1>1, <2>1, SamePlaceFields
  <2>4. call[c].op \notin {"read", "write", "sendto", "connect"}
    BY <1>1, <1>2 DEF Alloc, SetFl, Record, SysClose, ReportOK
  <2>5. ReportOK(call[c])'
    BY <1>1, <2>2, <2>3, <2>4 DEF ReportOK, SameCall
  <2>6. \A d \in Co \ {c} : ConnKept(call[d].fd)
    <3>1. CASE Alloc(c) \/ SetFl(c) \/ Record(c)
      BY <3>1 DEF Alloc, SetFl, Record, kernelVars, ConnKept
    <3>2. CASE SysClose(c)
      <4>1. \A d \in Co \ {c} : call[d].fd # call[c].fd
        BY <1>1, <3>2 DEF SysClose, CallOK
      <4>2. conn' = [conn EXCEPT ![call[c].fd] = "none"]
        BY <3>2 DEF SysClose, CloseFd
      <4> QED  BY <1>1, <4>1, <4>2 DEF ConnKept, TypeOK
    <3> QED  BY <1>2, <3>1, <3>2
  <2> QED  BY <2>2, <2>5, <2>6, OneReports
<1>3. CASE Done(c)
  <2>1. /\ call' = [call EXCEPT ![c] = NoCall] /\ conn' = conn
    BY <1>3 DEF Done, kernelVars
  <2>2. call'[c] = NoCall /\ Alone(c)
    BY <1>1, <2>1, NewCall, NoCallType
  <2>3. ReportOK(call[c])'
    BY <2>2, NoCallType DEF ReportOK
  <2> QED  BY <2>1, <2>2, <2>3, OneReports DEF ConnKept
<1>4. CASE TryRead(c)
  <2>1. PICK ret \in {1, 0, -1} : Return(c, ret)
    BY <1>4 DEF TryRead
  <2>2. Alone(c) /\ SameCall(c) /\ call'[c].at = "done"
    BY <1>1, <2>1, NewResult
  <2>3. call'[c].sent = call[c].sent
    BY <1>1, <2>1, ResultFields
  <2>4. call[c].op = "read" /\ conn' = conn
    BY <1>4 DEF TryRead
  <2>5. ReportOK(call[c])'
    BY <1>1, <2>2, <2>3, <2>4 DEF ReportOK, SameCall
  <2> QED  BY <2>2, <2>4, <2>5, OneReports DEF ConnKept
<1> QED  BY <1>2, <1>3, <1>4
\* A poll that comes back leaves what was sent.
LEMMA PolledReports ==
  ASSUME HookInv, ReportInv, NEW c \in Co, Polled(c)
  PROVE  ReportInv'
<1>1. TypeOK /\ call[c] \in Calls /\ ReportOK(call[c])
  BY DEF HookInv, TypeOK, ReportInv
<1> DEFINE r == [call[c] EXCEPT !.at = "try", !.polls = 1]
<1>2. call' = [call EXCEPT ![c] = r] /\ conn' = conn
      /\ call[c].op # "connect" /\ call[c].at = "poll"
  BY DEF Polled, kernelVars
<1>3. "try" \in Places /\ 1 \in 0..3
  BY DEF Places
<1>4. /\ r \in Calls /\ r.at = "try" /\ r.op = call[c].op
      /\ r.fd = call[c].fd /\ r.sent = call[c].sent
      /\ r.wrotelen = call[c].wrotelen
  BY <1>1, <1>3 DEF Calls
<1> HIDE DEF r
<1>5. call'[c] = r /\ Alone(c)
  BY <1>1, <1>2, <1>4, NewCall
<1>6. ReportOK(call[c])'
  <2>1. call[c].op = "sendto" => call[c].sent = <<>>
    BY <1>1, <1>2 DEF ReportOK
  <2> QED  BY <1>1, <1>2, <1>4, <1>5, <2>1 DEF ReportOK
<1> QED  BY <1>2, <1>5, <1>6, OneReports DEF ConnKept

\* A write counts what the kernel took, and ends with that.
LEMMA WriteReports ==
  ASSUME HookInv, ReportInv, NEW c \in Co, TryWrite(c)
  PROVE  ReportInv'
<1> DEFINE f == call[c].fd
<1>1. TypeOK /\ call[c] \in Calls /\ ReportOK(call[c])
  BY DEF HookInv, TypeOK, ReportInv
<1>2. call[c].op = "write" /\ call[c].at = "try" /\ conn' = conn
  BY DEF TryWrite
<1>3. f \in Fd /\ room[f] \in 0..MaxBytes
  BY <1>1, <1>2 DEF HookInv, CallInv, CallOK, TypeOK
<1>4. Alone(c) /\ ReportOK(call[c])'
  <2>1. ASSUME NEW k \in 1..room[f], call[c].wrotelen + k <= call[c].want,
               call' = [call EXCEPT ![c] =
                 IF Wrote(c, k).wrotelen < Wrote(c, k).want
                 THEN [Wrote(c, k) EXCEPT !.at = "poll"]
                 ELSE [Wrote(c, k) EXCEPT !.at = "done",
                                          !.ret = Wrote(c, k).wrotelen]]
        PROVE  Alone(c) /\ ReportOK(call[c])'
    <3> DEFINE t == Take(c, k)
               r == IF t.wrotelen < t.want THEN [t EXCEPT !.at = "poll"]
                    ELSE [t EXCEPT !.at = "done", !.ret = t.wrotelen]
               n == call[c].wrotelen
    <3>1. k \in Nat /\ n \in Nat /\ n + k <= MaxBytes /\ k > 0
      BY <1>1, <1>3, <2>1 DEF Calls
    <3>2. t \in Calls /\ t.op = "write" /\ t.wrotelen = n + k
      BY <1>1, <1>2, <3>1, TakeType
    <3>3. t.sent = FirstBytes(n + k)
      <4>1. t.sent = call[c].sent \o [i \in 1..k |-> n + i]
        BY <1>1 DEF Take, Calls
      <4>2. call[c].sent = FirstBytes(n)
        BY <1>1, <1>2 DEF ReportOK
      <4> QED  BY <3>1, <4>1, <4>2, NextBytes
    <3>4. call' = [call EXCEPT ![c] = r]
      BY <2>1 DEF Wrote
    <3> HIDE DEF t, n
    <3>5. {"poll", "done"} \subseteq Places /\ t.wrotelen \in -1..MaxBytes
      BY <3>2 DEF Places, Calls
    <3>6. /\ r \in Calls /\ r.at \in {"poll", "done"} /\ r.op = "write"
          /\ r.wrotelen = t.wrotelen /\ r.sent = t.sent
          /\ r.at = "done" => r.ret = t.wrotelen
      <4>1. CASE t.wrotelen < t.want
        <5>1. r = [t EXCEPT !.at = "poll"]
          BY <4>1
        <5> QED  BY <3>2, <3>5, <5>1 DEF Calls
      <4>2. CASE ~(t.wrotelen < t.want)
        <5>1. r = [t EXCEPT !.at = "done", !.ret = t.wrotelen]
          BY <4>2
        <5> QED  BY <3>2, <3>5, <5>1 DEF Calls
      <4> QED  BY <4>1, <4>2
    <3> HIDE DEF r
    <3>7. call'[c] = r /\ Alone(c)
      BY <1>1, <3>4, <3>6, NewCall
    <3>8. n + k # 0
      BY <3>1
    <3> QED  BY <3>2, <3>3, <3>6, <3>7, <3>8 DEF ReportOK
  <2>2. ASSUME WriteFailed(c)
        PROVE  Alone(c) /\ ReportOK(call[c])'
    <3>1. CASE Goto(c, "poll")
      <4>1. Goto(c, "poll") /\ "poll" \in Places
        BY <3>1 DEF Places
      <4>2. /\ Alone(c) /\ SameCall(c) /\ call'[c].at = "poll"
            /\ call'[c].sent = call[c].sent
            /\ call'[c].wrotelen = call[c].wrotelen
        BY <1>1, <4>1, NewPlace, SamePlaceFields
      <4> QED  BY <1>1, <1>2, <4>2 DEF ReportOK, SameCall
    <3>2. ASSUME NEW ret \in -1..MaxBytes, Return(c, ret), SaysWhy(c, ret)
          PROVE  Alone(c) /\ ReportOK(call[c])'
      <4>1. /\ Alone(c) /\ SameCall(c) /\ call'[c].at = "done"
            /\ call'[c].sent = call[c].sent /\ call'[c].ret = ret
            /\ call'[c].wrotelen = call[c].wrotelen
        BY <1>1, <3>2, NewResult, ResultFields
      <4> QED  BY <1>1, <1>2, <3>2, <4>1 DEF ReportOK, SameCall, SaysWhy
    <3>3. \/ Goto(c, "poll")
          \/ \E ret \in -1..MaxBytes :
               Return(c, ret) /\ SaysWhy(c, ret)
      BY <1>1, <2>2, FailedWrite
    <3> QED  BY <3>1, <3>2, <3>3
  <2> QED  BY <2>1, <2>2 DEF TryWrite
<1> QED  BY <1>2, <1>4, OneReports DEF ConnKept

\* A sendto is taken whole, or fails.
LEMMA SendtoReports ==
  ASSUME HookInv, ReportInv, NEW c \in Co, TrySendto(c)
  PROVE  ReportInv'
<1>1. TypeOK /\ call[c] \in Calls /\ ReportOK(call[c])
  BY DEF HookInv, TypeOK, ReportInv
<1>2. /\ call[c].op = "sendto" /\ call[c].at = "try" /\ conn' = conn
      /\ call[c].sent = <<>>
  BY <1>1 DEF TrySendto, ReportOK
<1>3. Alone(c) /\ ReportOK(call[c])'
  <2>1. ASSUME call' = [call EXCEPT ![c].sent = Append(@, 1),
                                    ![c].at = "done", ![c].ret = 1]
        PROVE  Alone(c) /\ ReportOK(call[c])'
    <3> DEFINE q == call[c]
               more == Append(q.sent, 1)
               r == [q EXCEPT !.sent = more, !.at = "done", !.ret = 1]
    <3>1. q \in Calls /\ q.op = "sendto"
      BY <1>1, <1>2
    <3>2. more \in Seq(Nat)
      BY <3>1, AppendProperties DEF Calls
    <3>3. more = FirstBytes(1)
      <4> DEFINE u == FirstBytes(1)
      <4>1. Len(more) = 1 /\ more[1] = 1
        BY <1>2
      <4>2. u \in Seq(Nat) /\ Len(u) = 1 /\ u[1] = 1
        BY DEF FirstBytes
      <4> HIDE DEF more, u
      <4>3. \A i \in 1..Len(u) : more[i] = u[i]
        BY <4>1, <4>2
      <4>4. more = u
        BY <3>2, <4>1, <4>2, <4>3, SeqEqual
      <4> QED  BY <4>4 DEF u
    <3>4. call' = [call EXCEPT ![c] = r]
      BY <2>1, <1>1 DEF TypeOK
    <3> HIDE DEF q, more
    <3>5. "done" \in Places /\ 1 \in -1..MaxBytes
      BY DEF Places
    <3>6. /\ r \in Calls /\ r.at = "done" /\ r.op = "sendto"
          /\ r.sent = more /\ r.ret = 1
      BY <3>1, <3>2, <3>5 DEF Calls
    <3> HIDE DEF r
    <3>7. call'[c] = r /\ Alone(c)
      BY <1>1, <3>4, <3>6, NewCall
    <3> QED  BY <3>3, <3>6, <3>7 DEF ReportOK
  <2>2. CASE Goto(c, "poll")
    <3>1. "poll" \in Places
      BY DEF Places
    <3>2. /\ Alone(c) /\ SameCall(c) /\ call'[c].at = "poll"
          /\ call'[c].sent = call[c].sent
      BY <1>1, <2>2, <3>1, NewPlace, SamePlaceFields
    <3> QED  BY <1>2, <3>2 DEF ReportOK, SameCall
  <2>3. CASE Return(c, -1)
    <3>1. /\ Alone(c) /\ SameCall(c) /\ call'[c].at = "done"
          /\ call'[c].sent = call[c].sent /\ call'[c].ret = -1
      BY <1>1, <2>3, NewResult, ResultFields
    <3> QED  BY <1>2, <3>1 DEF ReportOK, SameCall
  <2> QED  BY <2>1, <2>2, <2>3 DEF TrySendto
<1> QED  BY <1>2, <1>3, OneReports DEF ConnKept

\* A connect returns what became of its connection, or gives up.
LEMMA ConnectReports ==
  ASSUME HookInv, ReportInv, NEW c \in Co, PolledConnect(c)
  PROVE  ReportInv'
<1> DEFINE q == call[c]
<1>1. TypeOK /\ q \in Calls /\ ReportOK(q)
  BY DEF HookInv, TypeOK, ReportInv
<1>2. /\ q.op = "connect" /\ q.at = "poll" /\ conn' = conn
      /\ q.fd \in Fd /\ conn[q.fd] # "none" /\ q.sent = <<>>
  BY <1>1 DEF PolledConnect, kernelVars, ReportOK, HookInv, CallInv, CallOK,
              TypeOK
<1>3. Alone(c) /\ ReportOK(call[c])'
  <2>1. CASE conn[q.fd] # "pending" /\ Return(c, ConnectRet(q.fd))
    <3>1. ConnectRet(q.fd) \in -1..MaxBytes
      BY DEF ConnectRet
    <3>2. conn[q.fd] \in {"done", "failed"}
      BY <1>1, <1>2, <2>1 DEF TypeOK
    <3>3. /\ Alone(c) /\ SameCall(c) /\ call'[c].at = "done"
          /\ call'[c].sent = q.sent /\ call'[c].ret = ConnectRet(q.fd)
      BY <1>1, <2>1, <3>1, NewResult, ResultFields
    <3> QED  BY <1>2, <3>2, <3>3 DEF ReportOK, SameCall, ConnectRet
  <2>2. ASSUME call' = [call EXCEPT ![c] =
                  IF q.polls < 2 THEN [q EXCEPT !.polls = @ + 1]
                  ELSE [q EXCEPT !.polls = 3, !.at = "done", !.ret = -1]]
        PROVE  Alone(c) /\ ReportOK(call[c])'
    <3> DEFINE last == [q EXCEPT !.polls = 3, !.at = "done", !.ret = -1]
               more == [q EXCEPT !.polls = q.polls + 1]
               r == IF q.polls < 2 THEN more ELSE last
    <3>1. call' = [call EXCEPT ![c] = r]
      BY <2>2
    <3>2. "done" \in Places /\ q.polls \in 0..3
      BY <1>1 DEF Places, Calls
    <3>3. /\ r \in Calls /\ r.op = q.op /\ r.fd = q.fd /\ r.sent = q.sent
          /\ r.at = "poll" \/ (r.at = "done" /\ r.ret = -1 /\ r.polls = 3)
      <4> HIDE DEF q
      <4>1. CASE q.polls < 2
        <5>1. q.polls + 1 \in 0..3 /\ r = more
          BY <3>2, <4>1
        <5> QED  BY <1>1, <1>2, <5>1 DEF Calls
      <4>2. CASE ~(q.polls < 2)
        <5>1. 3 \in 0..3 /\ -1 \in -1..MaxBytes /\ r = last
          BY <4>2
        <5> QED  BY <1>1, <1>2, <3>2, <5>1 DEF Calls
      <4> QED  BY <4>1, <4>2
    <3> HIDE DEF r
    <3>4. call'[c] = r /\ Alone(c)
      BY <1>1, <3>1, <3>3, NewCall
    <3> QED  BY <1>2, <3>3, <3>4 DEF ReportOK
  <2> QED  BY <1>2, <2>1, <2>2 DEF PolledConnect
<1> QED  BY <1>2, <1>3, OneReports DEF ConnKept
\* A call that begins has nothing to report but the connection it found.
LEMMA BeginReports ==
  ASSUME HookInv, ReportInv, NEW c \in Co, NEW f \in Fd, Call(c, f)
  PROVE  ReportInv'
<1>1. TypeOK
  BY DEF HookInv
<1>2. Ops = {"none", "socket", "accept", "fcntl", "close", "read", "write",
             "sendto", "connect"}
      /\ {"alloc", "setfl", "sysclose", "poll", "try", "done"} \subseteq Places
  BY DEF Ops, Places
<1>3. ASSUME NEW r \in Calls, call' = [call EXCEPT ![c] = r], r.sent = <<>>,
             r.wrotelen = 0, r.op # "connect", conn' = conn,
             r.op \in {"read", "write", "sendto"} => r.at \in {"poll", "try"}
      PROVE  ReportInv'
  <2>1. call'[c] = r /\ Alone(c)
    BY <1>1, <1>3, NewCall
  <2>2. FirstBytes(0) = <<>>
    BY DEF FirstBytes
  <2>3. ReportOK(call[c])'
    BY <1>3, <2>1, <2>2 DEF ReportOK
  <2> QED  BY <1>3, <2>1, <2>3, OneReports DEF ConnKept
<1>4. ASSUME NEW flag \in BOOLEAN, NEW op \in Ops, NEW place \in Places,
             op \notin {"read", "write", "sendto", "connect"}, conn' = conn,
             call' = [call EXCEPT ![c] = [Begin(c, op, place, f)
                                            EXCEPT !.flag = flag]]
      PROVE  ReportInv'
  <2> DEFINE b == Begin(c, op, place, f)
             r == [b EXCEPT !.flag = flag]
  <2>1. b \in Calls /\ b.op = op /\ b.sent = <<>> /\ b.wrotelen = 0
    BY BeginType
  <2>2. call' = [call EXCEPT ![c] = r]
    BY <1>4
  <2> HIDE DEF b
  <2>3. r \in Calls /\ r.op = op /\ r.sent = <<>> /\ r.wrotelen = 0
    BY <2>1 DEF Calls
  <2> HIDE DEF r
  <2> QED  BY <1>3, <1>4, <2>2, <2>3
<1>5. ASSUME NEW op \in {"read", "write", "sendto"}, NEW want \in 0..MaxBytes,
             NEW place \in {"poll", "try"}, Start(c, op, place, f, want)
      PROVE  ReportInv'
  <2> DEFINE b == Begin(c, op, place, f)
             r == [b EXCEPT !.want = want]
  <2>1. b \in Calls /\ b.op = op /\ b.at = place /\ b.sent = <<>>
        /\ b.wrotelen = 0
    <3>1. op \in Ops /\ place \in Places
      BY <1>2
    <3> QED  BY <3>1, BeginType
  <2>2. call' = [call EXCEPT ![c] = r] /\ conn' = conn
    BY <1>5 DEF Start, kernelVars
  <2> HIDE DEF b
  <2>3. r \in Calls /\ r.op = op /\ r.at = place /\ r.sent = <<>>
        /\ r.wrotelen = 0
    BY <2>1 DEF Calls
  <2> HIDE DEF r
  <2> QED  BY <1>3, <2>2, <2>3
<1>6. CASE Connect(c, f)
  <2>0. \A d \in Co : call[d].op = "connect" => call[d].fd \in Fd
    BY <1>1 DEF HookInv, CallInv, CallOK, TypeOK
  <2>1. \A g \in Fd : ConnKept(g)
    <3>1. conn[f] = "none" /\ \A g \in Fd \ {f} : conn'[g] = conn[g]
      BY <1>1, <1>6 DEF Connect, TypeOK
    <3> QED  BY <3>1 DEF ConnKept
  <2>2. PICK r \in Calls :
          /\ call' = [call EXCEPT ![c] = r] /\ r.op = "connect" /\ r.fd = f
          /\ r.sent = <<>>
          /\ \/ r.at = "poll" /\ conn'[f] = "pending"
             \/ r.at = "done" /\ r.ret = 0 /\ conn'[f] = "done"
             \/ r.at = "done" /\ r.ret = -1 /\ conn'[f] = "failed"
    <3>1. CASE /\ conn' = [conn EXCEPT ![f] = "pending"]
               /\ call' = [call EXCEPT ![c] = Begin(c, "connect", "poll", f)]
      <4> DEFINE b == Begin(c, "connect", "poll", f)
      <4>1. b \in Calls /\ b.op = "connect" /\ b.at = "poll" /\ b.fd = f
            /\ b.sent = <<>>
        BY <1>2, BeginType
      <4>2. call' = [call EXCEPT ![c] = b] /\ conn'[f] = "pending"
        BY <1>1, <3>1 DEF TypeOK
      <4> HIDE DEF b
      <4> QED  BY <4>1, <4>2
    <3>2. ASSUME NEW ok \in BOOLEAN,
                 conn' = [conn EXCEPT ![f] = IF ok THEN "done" ELSE "failed"],
                 call' = [call EXCEPT ![c] =
                   [Begin(c, "connect", "done", f)
                      EXCEPT !.ret = IF ok THEN 0 ELSE -1]]
          PROVE  \E r \in Calls :
                   /\ call' = [call EXCEPT ![c] = r] /\ r.op = "connect"
                   /\ r.fd = f /\ r.sent = <<>>
                   /\ \/ r.at = "poll" /\ conn'[f] = "pending"
                      \/ r.at = "done" /\ r.ret = 0 /\ conn'[f] = "done"
                      \/ r.at = "done" /\ r.ret = -1 /\ conn'[f] = "failed"
      <4> DEFINE b == Begin(c, "connect", "done", f)
                 ret == IF ok THEN 0 ELSE -1
                 q == [b EXCEPT !.ret = ret]
      <4>1. b \in Calls /\ b.op = "connect" /\ b.at = "done" /\ b.fd = f
            /\ b.sent = <<>>
        <5>1. f \in Fd /\ "connect" \in Ops /\ "done" \in Places
          BY <1>2 DEF Ops, Places
        <5> QED  BY <5>1, BeginType
      <4>2. call' = [call EXCEPT ![c] = q]
        BY <3>2
      <4>3. ret \in -1..MaxBytes
        OBVIOUS
      <4> HIDE DEF b, ret
      <4>4. q \in Calls /\ q.op = "connect" /\ q.at = "done" /\ q.fd = f
            /\ q.sent = <<>> /\ q.ret = ret
        BY <4>1, <4>3 DEF Calls
      <4>5. conn'[f] = IF ok THEN "done" ELSE "failed"
        BY <1>1, <3>2 DEF TypeOK
      <4> HIDE DEF q
      <4> QED  BY <4>2, <4>4, <4>5 DEF ret
    <3> QED  BY <1>6, <3>1, <3>2 DEF Connect
  <2>3. call'[c] = r /\ Alone(c)
    <3>1. call' = [call EXCEPT ![c] = r]
      BY <2>2
    <3> QED  BY <1>1, <3>1, NewCall
  <2>4. ReportOK(call[c])'
    BY <2>2, <2>3 DEF ReportOK
  <2> QED  BY <2>0, <2>1, <2>3, <2>4, OneReports
<1>7. CASE \E flag \in BOOLEAN : Socket(c, f, flag) \/ Fcntl(c, f, flag)
  BY <1>2, <1>4, <1>7 DEF Socket, Fcntl, NewFd, kernelVars
<1>8. CASE Accept(c, f)
  BY <1>2, <1>4, <1>8 DEF Accept, NewFd
<1>9. CASE OpenNative(c, f) \/ \E t \in Timeouts : SetSockOpt(c, f, t)
  BY <1>9 DEF OpenNative, SetSockOpt, NewFd, kernelVars, ReportInv, ReportOK
<1>10. CASE Close(c, f)
  <2>1. /\ Begin(c, "close", "sysclose", f) \in Calls
        /\ Begin(c, "close", "sysclose", f).op = "close"
        /\ Begin(c, "close", "sysclose", f).sent = <<>>
        /\ Begin(c, "close", "sysclose", f).wrotelen = 0
    BY <1>2, BeginType
  <2> QED  BY <1>3, <1>10, <2>1 DEF Close, kernelVars
<1>11. CASE Read(c, f) \/ Sendto(c, f)
  BY <1>5, <1>11 DEF Read, Sendto
<1>12. CASE \E n \in 1..MaxBytes : Write(c, f, n)
  <2>1. PICK n \in 1..MaxBytes : Write(c, f, n)
    BY <1>12
  <2>2. n \in 0..MaxBytes
    OBVIOUS
  <2> QED  BY <1>5, <2>1, <2>2 DEF Write
<1> QED
  BY <1>6, <1>7, <1>8, <1>9, <1>10, <1>11, <1>12 DEF Call

\* Every step keeps what the calls have to report.
LEMMA NextReportInv ==
  ASSUME HookInv, ReportInv, [Next]_hookVars
  PROVE  ReportInv'
<1>1. ASSUME NEW c \in Co, Step(c) PROVE ReportInv'
  BY <1>1, QuietStep, PolledReports, WriteReports, SendtoReports,
     ConnectReports DEF Step
<1>2. ASSUME NEW c \in Co, SwitchHook(c) PROVE ReportInv'
  BY <1>2 DEF SwitchHook, kernelVars, ReportInv, ReportOK
<1>3. ASSUME NEW f \in Fd, Kernel(f) PROVE ReportInv'
  <2>1. call' = call /\ \A g \in Fd : ConnKept(g)
    BY <1>3 DEF HookInv, TypeOK, Kernel, Deliver, Drain, Connected, ConnKept
  <2>2. \A c \in Co : call[c].op = "connect" => call[c].fd \in Fd
    BY DEF HookInv, TypeOK, CallInv, CallOK
  <2> QED  BY <2>1, <2>2 DEF ReportInv, ReportOK, ConnKept
<1>4. CASE UNCHANGED hookVars
  BY <1>4 DEF hookVars, kernelVars, ReportInv, ReportOK
<1> QED  BY <1>1, <1>2, <1>3, <1>4, BeginReports DEF Next

\* What a hooked call returns is what the kernel did: the bytes of a write from
\* its start and without a gap, a message of sendto once, a connection only
\* when it was made; for any number of coroutines and descriptors, messages
\* of any length, and pieces of any size.
THEOREM CallsReportRightly ==
  ASSUME ~MixedHooks
  PROVE  Spec => []CallsReport
<1>1. Init => ReportInv
  BY NoCallType DEF Init, ReportInv, ReportOK
<1>2. HookInv /\ ReportInv /\ [Next]_hookVars => ReportInv'
  BY NextReportInv
<1>3. HookInv /\ ReportInv => CallsReport
  <2> SUFFICES ASSUME HookInv, ReportInv, NEW c \in Co
               PROVE  Reported(call[c])
    BY DEF CallsReport
  <2> DEFINE r == call[c]
  <2>1. r \in Calls /\ ReportOK(r)
    BY DEF HookInv, TypeOK, ReportInv
  <2> HIDE DEF r
  <2>2. \A n \in Nat : Len(FirstBytes(n)) = n
    BY DEF FirstBytes
  <2>3. r.wrotelen \in Nat /\ <<>> = FirstBytes(0)
    BY <2>1 DEF Calls, FirstBytes
  <2>4. PICK n \in Nat : r.sent = FirstBytes(n)
    BY <2>1, <2>3 DEF ReportOK
  <2>5. Len(r.sent) = n
    BY <2>2, <2>4
  <2>6. r.sent = [i \in 1..Len(r.sent) |-> i]
    BY <2>4, <2>5 DEF FirstBytes
  <2>7. r.sent = <<>> <=> n = 0
    BY <2>2, <2>3, <2>4, <2>5
  <2>8. r.op = "write" => n = r.wrotelen
    BY <2>1, <2>2, <2>3, <2>5 DEF ReportOK
  <2>9. r.op = "sendto" => n \in {0, 1} /\ (n = 1 => r.ret = 1)
                           /\ (n = 0 => (r.at = "done" => r.ret = -1))
    BY <2>1, <2>2, <2>3, <2>5 DEF ReportOK
  <2>10. r.op \in {"write", "sendto"} /\ r.at = "done"
           => \/ r.sent # <<>> /\ r.ret = Len(r.sent)
              \/ r.sent = <<>> /\ r.ret = -1
              \/ r.sent = <<>> /\ r.ret = 0 /\ r.op = "write"
    BY <2>1, <2>5, <2>7, <2>8, <2>9 DEF ReportOK
  <2> QED  BY <2>1, <2>6, <2>10 DEF Reported, ReportOK, r
<1> QED  BY <1>1, <1>2, <1>3, Invariance, PTL DEF Spec
=============================================================================
