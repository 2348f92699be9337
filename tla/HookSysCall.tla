---------------------------- MODULE HookSysCall -----------------------------
(***************************************************************************)
(* The hooked system calls of src/src/coroutine/co_hook_sys_call.cpp.  A   *)
(* table has an entry for each descriptor that socket or co_accept made:   *)
(* the flags and timeouts its user set.  In the kernel such a descriptor   *)
(* is non-blocking, and a call on it that its user expects to block waits  *)
(* in co_poll_inner, so that the thread goes on with other coroutines.     *)
(*                                                                         *)
(* The table is one for all threads.  Every coroutine is taken to be on a  *)
(* thread of its own: calls interleave between any two system calls, which *)
(* includes what coroutines of one thread do to each other while they      *)
(* wait.  The kernel's descriptors are part of the environment.            *)
(***************************************************************************)
EXTENDS Integers, Sequences

CONSTANTS
  Co,          (* the coroutines                                         *)
  Fd,          (* descriptor numbers, all within the table               *)
  NULL,        (* no entry, no descriptor                                *)
  MaxBytes,    (* bound: bytes of a message, and of a send buffer        *)
  Timeouts,    (* what SO_RCVTIMEO and SO_SNDTIMEO are set to            *)
  OneSecond,   (* the timeout of a new entry                             *)
  MixedHooks   (* may a coroutine without hooks use a descriptor that    *)
               (* was made with them?                                    *)

VARIABLES
  hooked,      (* the coroutines with cEnableSysHook set                 *)
  entry,       (* g_rpchook_socket_fd                                    *)
  call,        (* per coroutine: the call it is in                       *)
  opened,      (* kernel: the open descriptors                           *)
  nonblock,    (* kernel: those with O_NONBLOCK                          *)
  readable,    (* kernel: those with something to read                   *)
  room,        (* kernel: per descriptor, the free bytes to send into    *)
  conn,        (* kernel: per descriptor, its connection                 *)
  origin       (* per open descriptor: made by hook or by a native call  *)

kernelVars == <<opened, nonblock, readable, room, conn>>
hookVars == <<hooked, entry, call, kernelVars, origin>>

\* What rpchook_t keeps of the user's settings: is O_NONBLOCK in user_flag,
\* and the timeouts, which are treated alike.
Entry == [user_flag : BOOLEAN, timeout : Timeouts]
NewEntry == [user_flag |-> FALSE, timeout |-> OneSecond]

ASSUME HookAssumption ==
  /\ NULL \notin Fd \cup Entry
  /\ MaxBytes \in Nat \ {0}
  /\ OneSecond \in Timeouts
  /\ MixedHooks \in BOOLEAN

NoCall == [op |-> "none", at |-> "idle", fd |-> NULL, flag |-> FALSE,
           want |-> 0, wrotelen |-> 0, sent |-> <<>>, polls |-> 0, ret |-> 0]

\* The caller's place moves on, and the fields of more are set.
Goto(c, place) == call' = [call EXCEPT ![c].at = place]
Return(c, ret) ==
  call' = [call EXCEPT ![c].at = "done", ![c].ret = ret]

Idle(c) == call[c].at = "idle"
Begin(c, op, place, f) == [NoCall EXCEPT !.op = op, !.at = place, !.fd = f]

\* Programs use a descriptor from the return of the call that opens it to the
\* close, which nobody overtakes; and, unless MixedHooks, with the hooks on if
\* it was made by the hooked socket or by co_accept, which have an entry for it.
Fits(c, f) == MixedHooks \/ c \in hooked \/ origin[f] = "native"
Opening(c) == call[c].op \in {"socket", "accept"}
MayUse(c, f) ==
  /\ Idle(c) /\ f \in opened /\ Fits(c, f)
  /\ \A d \in Co : call[d].fd = f => ~Opening(d) /\ call[d].op # "close"
MayClose(c, f) ==
  /\ Idle(c) /\ f \in opened /\ Fits(c, f)
  /\ \A d \in Co : call[d].fd # f

----------------------------------------------------------------------------
Init ==
  /\ hooked = {}
  /\ entry = [f \in Fd |-> NULL]
  /\ call = [c \in Co |-> NoCall]
  /\ opened = {} /\ nonblock = {} /\ readable = {}
  /\ room = [f \in Fd |-> MaxBytes]
  /\ conn = [f \in Fd |-> "none"]
  /\ origin = [f \in Fd |-> "none"]

\* The kernel's side: data comes, buffers drain, connections are made or not.
Deliver(f) ==
  /\ f \in opened \ readable
  /\ readable' = readable \cup {f}
  /\ UNCHANGED <<hooked, entry, call, opened, nonblock, room, conn, origin>>

Drain(f) ==
  /\ f \in opened /\ room[f] < MaxBytes
  /\ room' = [room EXCEPT ![f] = @ + 1]
  /\ UNCHANGED <<hooked, entry, call, opened, nonblock, readable, conn, origin>>

Connected(f, result) ==
  /\ conn[f] = "pending"
  /\ conn' = [conn EXCEPT ![f] = result]
  /\ UNCHANGED <<hooked, entry, call, opened, nonblock, readable, room, origin>>

\* A new descriptor, blocking unless flag.
NewFd(f, flag, by) ==
  /\ f \notin opened
  /\ opened' = opened \cup {f}
  /\ nonblock' = IF flag THEN nonblock \cup {f} ELSE nonblock
  /\ origin' = [origin EXCEPT ![f] = by]
  /\ UNCHANGED <<readable, room, conn>>

CloseFd(f) ==
  /\ opened' = opened \ {f}
  /\ nonblock' = nonblock \ {f}
  /\ readable' = readable \ {f}
  /\ room' = [room EXCEPT ![f] = MaxBytes]
  /\ conn' = [conn EXCEPT ![f] = "none"]
  /\ origin' = [origin EXCEPT ![f] = "none"]

----------------------------------------------------------------------------
\* co_enable_hook_sys and co_disable_hook_sys.
SwitchHook(c) ==
  /\ Idle(c)
  /\ hooked' = IF c \in hooked THEN hooked \ {c} ELSE hooked \cup {c}
  /\ UNCHANGED <<entry, call, kernelVars, origin>>

\* open, pipe and accept have no hook, nor has socket in a coroutine without.
OpenNative(c, f) ==
  /\ Idle(c)
  /\ NewFd(f, FALSE, "native")
  /\ UNCHANGED <<hooked, entry, call>>

Socket(c, f, flag) ==
  /\ Idle(c) /\ c \in hooked
  /\ NewFd(f, flag, "hook")
  /\ call' = [call EXCEPT ![c] = [Begin(c, "socket", "alloc", f)
                                    EXCEPT !.flag = flag]]
  /\ UNCHANGED <<hooked, entry>>

\* co_accept, after which programs make the descriptor non-blocking
\* themselves, as the comment in src/test/coroutine/example_echosvr.cpp asks.
Accept(c, f) ==
  /\ Idle(c)
  /\ NewFd(f, FALSE, "hook")
  /\ call' = [call EXCEPT ![c] = [Begin(c, "accept", "alloc", f)
                                    EXCEPT !.flag = TRUE]]
  /\ UNCHANGED <<hooked, entry>>

\* alloc_by_fd; what comes next is the F_SETFL of socket or of the program.
Alloc(c) ==
  /\ call[c].at = "alloc"
  /\ entry' = [entry EXCEPT ![call[c].fd] = NewEntry]
  /\ Goto(c, "setfl")
  /\ UNCHANGED <<hooked, kernelVars, origin>>

\* fcntl with F_SETFL: the flag is set in the kernel, and then recorded.
Fcntl(c, f, flag) ==
  /\ MayUse(c, f)
  /\ call' = [call EXCEPT ![c] = [Begin(c, "fcntl", "setfl", f)
                                    EXCEPT !.flag = flag]]
  /\ UNCHANGED <<hooked, entry, kernelVars, origin>>

\* Mutant: the user's flag is passed on.
FlagToSetAsAsked(c) == call[c].flag

\* With the hook, a descriptor of the table is made non-blocking.
FlagToSet(c) ==
  call[c].flag \/ (c \in hooked /\ entry[call[c].fd] # NULL)

SetFl(c) ==
  /\ call[c].at = "setfl"
  /\ nonblock' = IF FlagToSet(c) THEN nonblock \cup {call[c].fd}
                                 ELSE nonblock \ {call[c].fd}
  /\ Goto(c, "record")
  /\ UNCHANGED <<hooked, entry, opened, readable, room, conn, origin>>

Record(c) ==
  /\ call[c].at = "record"
  /\ entry' = IF entry[call[c].fd] = NULL THEN entry
              ELSE [entry EXCEPT ![call[c].fd].user_flag = call[c].flag]
  /\ Goto(c, "done")
  /\ UNCHANGED <<hooked, kernelVars, origin>>

SetSockOpt(c, f, t) ==
  /\ MayUse(c, f) /\ c \in hooked /\ entry[f] # NULL
  /\ entry' = [entry EXCEPT ![f].timeout = t]
  /\ UNCHANGED <<hooked, call, kernelVars, origin>>

\* Mutant: the entry stays.
FreedNot(f) == entry

\* free_by_fd.
Freed(f) == [entry EXCEPT ![f] = NULL]

\* close: with the hook the entry is freed, and then the number is given up.
Close(c, f) ==
  /\ MayClose(c, f)
  /\ entry' = IF c \in hooked THEN Freed(f) ELSE entry
  /\ call' = [call EXCEPT ![c] = Begin(c, "close", "sysclose", f)]
  /\ UNCHANGED <<hooked, kernelVars, origin>>

SysClose(c) ==
  /\ call[c].at = "sysclose"
  /\ CloseFd(call[c].fd)
  /\ Goto(c, "done")
  /\ UNCHANGED <<hooked, entry>>

----------------------------------------------------------------------------
\* Does a call on f wait in poll?  Otherwise it is the native call, which is
\* not followed further.
Waits(c, f) == c \in hooked /\ entry[f] # NULL /\ ~entry[f].user_flag

Start(c, op, place, f, want) ==
  /\ MayUse(c, f) /\ Waits(c, f)
  /\ call' = [call EXCEPT ![c] = [Begin(c, op, place, f) EXCEPT !.want = want]]
  /\ UNCHANGED <<hooked, entry, kernelVars, origin>>

\* read, recv and recvfrom poll first; write and send, and sendto, try first.
Read(c, f) == Start(c, "read", "poll", f, 1)
Write(c, f, n) == Start(c, "write", "try", f, n)
Sendto(c, f) == Start(c, "sendto", "try", f, 1)

\* poll comes back, by an event, a timeout or an error: read and write do not
\* look at which.
Polled(c) ==
  /\ call[c].at = "poll" /\ call[c].op # "connect"
  /\ call' = [call EXCEPT ![c].at = "try", ![c].polls = 1]
  /\ UNCHANGED <<hooked, entry, kernelVars, origin>>

\* The read of the kernel: data, the end, or an error.
TryRead(c) ==
  /\ call[c].op = "read" /\ call[c].at = "try"
  /\ \/ /\ call[c].fd \in readable
        /\ readable' = readable \ {call[c].fd}
        /\ Return(c, 1)
     \/ /\ UNCHANGED readable
        /\ \E ret \in {0, -1} : Return(c, ret)
  /\ UNCHANGED <<hooked, entry, opened, nonblock, room, conn, origin>>

\* The kernel takes the next k bytes of the message.
Take(c, k) ==
  LET r == call[c]
  IN  [r EXCEPT !.wrotelen = @ + k,
                !.sent = @ \o [i \in 1..k |-> r.wrotelen + i]]

\* Mutant: the bytes of a first, partial write are not counted.
WroteNotAtFirst(c, k) ==
  LET r == Take(c, k)
  IN  IF call[c].polls = 0 THEN [r EXCEPT !.wrotelen = 0] ELSE r

\* wrotelen is increased by what was written.
Wrote(c, k) == Take(c, k)

\* Mutant: the loop goes on after an error.
WriteFailedRetry(c) == Goto(c, "poll")

\* Nothing was taken.  An error ends the loop, but not before the first poll;
\* 0, which no socket answers to some bytes, ends the call at once.
WriteFailed(c) ==
  LET wrotelen == call[c].wrotelen
  IN  \E ret \in {-1, 0} :
        IF ret = -1 /\ call[c].polls = 0 THEN Goto(c, "poll")
        ELSE Return(c, IF wrotelen = 0 THEN ret ELSE wrotelen)

TryWrite(c) ==
  LET f == call[c].fd
  IN  /\ call[c].op = "write" /\ call[c].at = "try"
      /\ \/ \E k \in 1..room[f] :
              LET r == Wrote(c, k)
              IN  /\ call[c].wrotelen + k <= call[c].want
                  /\ room' = [room EXCEPT ![f] = @ - k]
                  /\ call' = [call EXCEPT ![c] =
                       IF r.wrotelen < r.want THEN [r EXCEPT !.at = "poll"]
                       ELSE [r EXCEPT !.at = "done", !.ret = r.wrotelen]]
         \/ WriteFailed(c) /\ UNCHANGED room
      /\ UNCHANGED <<hooked, entry, opened, nonblock, readable, conn, origin>>

\* sendto: one more try, after EAGAIN only.
TrySendto(c) ==
  LET f == call[c].fd
  IN  /\ call[c].op = "sendto" /\ call[c].at = "try"
      /\ \/ /\ room[f] > 0
            /\ room' = [room EXCEPT ![f] = @ - 1]
            /\ call' = [call EXCEPT ![c].sent = Append(@, 1),
                                    ![c].at = "done", ![c].ret = 1]
         \/ /\ room[f] = 0 /\ call[c].polls = 0
            /\ Goto(c, "poll") /\ UNCHANGED room
         \/ Return(c, -1) /\ UNCHANGED room
      /\ UNCHANGED <<hooked, entry, opened, nonblock, readable, conn, origin>>

----------------------------------------------------------------------------
\* connect: the kernel's connect, which succeeds, fails or is in progress.
Connect(c, f) ==
  /\ MayUse(c, f) /\ Waits(c, f) /\ conn[f] = "none"
  /\ \/ /\ conn' = [conn EXCEPT ![f] = "pending"]
        /\ call' = [call EXCEPT ![c] = Begin(c, "connect", "poll", f)]
     \/ \E ok \in BOOLEAN :
          /\ conn' = [conn EXCEPT ![f] = IF ok THEN "done" ELSE "failed"]
          /\ call' = [call EXCEPT ![c] =
               [Begin(c, "connect", "done", f)
                  EXCEPT !.ret = IF ok THEN 0 ELSE -1]]
  /\ UNCHANGED <<hooked, entry, opened, nonblock, readable, room, origin>>

\* What SO_ERROR says once the descriptor is writable.
ConnectRet(f) == IF conn[f] = "done" THEN 0 ELSE -1

\* Each of the three polls ends with the event of the outcome, or by a timeout
\* which may be as late as that.
PolledConnect(c) ==
  LET r == call[c]
  IN  /\ r.op = "connect" /\ r.at = "poll"
      /\ \/ conn[r.fd] # "pending" /\ Return(c, ConnectRet(r.fd))
         \/ call' = [call EXCEPT ![c] =
                IF r.polls < 2 THEN [r EXCEPT !.polls = @ + 1]
                ELSE [r EXCEPT !.polls = 3, !.at = "done", !.ret = -1]]
      /\ UNCHANGED <<hooked, entry, kernelVars, origin>>

\* The call returns to the program.
Done(c) ==
  /\ call[c].at = "done"
  /\ call' = [call EXCEPT ![c] = NoCall]
  /\ UNCHANGED <<hooked, entry, kernelVars, origin>>

\* What a call does once it has begun.
Step(c) ==
  \/ Alloc(c) \/ SetFl(c) \/ Record(c) \/ SysClose(c)
  \/ Polled(c) \/ TryRead(c) \/ TryWrite(c) \/ TrySendto(c)
  \/ PolledConnect(c) \/ Done(c)

Call(c, f) ==
  \/ \E flag \in BOOLEAN : Socket(c, f, flag) \/ Fcntl(c, f, flag)
  \/ OpenNative(c, f) \/ Accept(c, f) \/ Close(c, f)
  \/ \E t \in Timeouts : SetSockOpt(c, f, t)
  \/ Read(c, f) \/ Sendto(c, f) \/ Connect(c, f)
  \/ \E n \in 1..MaxBytes : Write(c, f, n)

Kernel(f) ==
  \/ Deliver(f) \/ Drain(f)
  \/ \E result \in {"done", "failed"} : Connected(f, result)

Next ==
  \/ \E c \in Co : Step(c) \/ SwitchHook(c)
  \/ \E c \in Co, f \in Fd : Call(c, f)
  \/ \E f \in Fd : Kernel(f)

\* poll returns (co_poll_inner has a timeout), and no other step waits.
Fairness == \A c \in Co : WF_hookVars(Step(c))

Spec == Init /\ [][Next]_hookVars /\ Fairness

----------------------------------------------------------------------------
Ops == {"none", "socket", "accept", "fcntl", "close", "read", "write",
        "sendto", "connect"}
Places == {"idle", "alloc", "setfl", "record", "sysclose", "poll", "try",
           "done"}
Calls == [op : Ops, at : Places, fd : Fd \cup {NULL}, flag : BOOLEAN,
          want : 0..MaxBytes, wrotelen : 0..MaxBytes, sent : Seq(Nat),
          polls : 0..3, ret : -1..MaxBytes]

\* The type of every variable.
TypeOK ==
  /\ hooked \subseteq Co
  /\ entry \in [Fd -> Entry \cup {NULL}]
  /\ call \in [Co -> Calls]
  /\ opened \subseteq Fd /\ nonblock \subseteq Fd /\ readable \subseteq Fd
  /\ room \in [Fd -> 0..MaxBytes]
  /\ conn \in [Fd -> {"none", "pending", "done", "failed"}]
  /\ origin \in [Fd -> {"none", "hook", "native"}]

\* A call is about an open descriptor, until a close has given it up; who opens
\* or closes a descriptor is alone with it.
CallOK(c) ==
  /\ call[c].op = "none" => Idle(c)
  /\ Idle(c) => call[c].op = "none" /\ call[c].fd = NULL
  /\ call[c].op \notin {"none", "close"} => call[c].fd \in opened
  /\ call[c].at = "sysclose" =>
       /\ call[c].op = "close" /\ call[c].fd \in opened
       /\ \A d \in Co \ {c} : call[d].fd # call[c].fd
  /\ call[c].op = "close" => call[c].at \in {"sysclose", "done"}
  /\ call[c].at = "alloc" => Opening(c)
  /\ Opening(c) =>
       /\ origin[call[c].fd] = "hook"
       /\ \A d \in Co \ {c} :
            call[d].fd = call[c].fd => call[d].op = "close"
  /\ call[c].at \in {"poll", "try"} =>
       /\ call[c].op \in {"read", "write", "sendto", "connect"}
       /\ entry[call[c].fd] # NULL

CallInv == \A c \in Co : CallOK(c)

\* The table is about the descriptors that are open now: a number that is
\* closed and opened again has no entry of its former life, in whatever order
\* threads run, and its new entry is there before its program gets it.
TableInv ==
  \A f \in Fd :
    entry[f] # NULL <=>
      /\ f \in opened /\ origin[f] = "hook"
      /\ ~ \E c \in Co : call[c].fd = f /\ call[c].at \in {"alloc", "sysclose"}

\* A descriptor with an entry is non-blocking in the kernel, once the fcntl of
\* its maker is done, and no other fcntl makes it blocking again.
FlagInv ==
  /\ \A c \in Co :
       call[c].at = "setfl" \/ call[c].at = "alloc"
       => call[c].flag \/ c \in hooked \/ origin[call[c].fd] = "native"
  /\ \A f \in Fd :
       entry[f] # NULL => \/ f \in nonblock
                         \/ \E c \in Co : /\ call[c].fd = f /\ Opening(c)
                                          /\ call[c].at = "setfl"

HookInv == TypeOK /\ CallInv /\ TableInv /\ FlagInv

\* A hooked call that its user expects to block does not block the thread:
\* whenever it tries the kernel, the descriptor is non-blocking.
ThreadsRun ==
  \A c \in Co : call[c].at = "try" => call[c].fd \in nonblock

\* What write, send and sendto return is what the kernel took of the message,
\* from its start and without a gap; an error, or the 0 of the kernel's write,
\* is reported only if that is nothing.  connect returns 0 only for a
\* connection that was made, and gives up after three polls or when it failed.
Reported(r) ==
  /\ r.sent = [i \in 1..Len(r.sent) |-> i]
  /\ r.op \in {"write", "sendto"} /\ r.at = "done"
     => \/ r.sent # <<>> /\ r.ret = Len(r.sent)
        \/ r.sent = <<>> /\ r.ret = -1
        \/ r.sent = <<>> /\ r.ret = 0 /\ r.op = "write"
  /\ r.op = "connect" /\ r.at = "done"
     => \/ r.ret = 0 /\ conn[r.fd] = "done"
        \/ r.ret = -1 /\ (conn[r.fd] = "failed" \/ r.polls = 3)

CallsReport == \A c \in Co : Reported(call[c])

\* Every hooked call returns, however small the pieces are that the kernel
\* takes and however often poll times out.
EveryCallReturns == \A c \in Co : ~Idle(c) ~> Idle(c)

\* The comment in read: a descriptor that the hooks did not make is read by
\* the native read.  What waits in poll was made by socket or co_accept.
OnlyHookedWait ==
  \A c \in Co : call[c].at \in {"poll", "try"} => origin[call[c].fd] = "hook"
=============================================================================
