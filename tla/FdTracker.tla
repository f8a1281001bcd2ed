----------------------------- MODULE FdTracker -----------------------------
(***************************************************************************)
(* The descriptor tables of fd_tracker.h and the hooks of                  *)
(* homvpn_native.cpp that fill, consult and clear them, while the threads  *)
(* of the hooked process call libc concurrently and JNI_OnLoad is still    *)
(* installing the hooks one by one.                                        *)
(*                                                                         *)
(* A hook is split where another thread can get in between: the original   *)
(* libc call is one step, and every access to one of the two tables is     *)
(* another.  A libc entry point whose hook is not installed is just its    *)
(* original.  A read that returns zero bytes or an error, and a read       *)
(* through an entry point that is not hooked yet, change nothing here.     *)
(***************************************************************************)
EXTENDS Naturals, Sequences

CONSTANTS
  Threads,       \* threads of the hooked process
  Fd,            \* descriptor numbers the kernel may hand out
  TableSize,     \* entries of g_fd_table and of g_nl_socket_table
  Paths,         \* path names the process opens
  Has,           \* Has[p]: the needles of classify_path that occur in path p
  OtherOpeners,  \* ways to get a descriptor that no hook covers (dup, creat...)
  OtherClosers,  \* ways to release one that no hook covers (dup2, fdsan...)
  MayFail        \* the hooks whose installation may fail

ASSUME FdAssumption == Fd \subseteq Nat /\ TableSize \in Nat

(* SensitiveFile of fd_tracker.h: NONE and the seven sanitized pseudo-files *)
SensitiveFile == {"NONE", "PROC_MAPS", "PROC_NET_TCP", "PROC_STATUS",
                  "PROC_MOUNTS", "PROC_NET_DEV", "PROC_NET_IF_INET6",
                  "PROC_NET_ROUTE"}

Free       == "free"
RouteSock  == "netlink_route_socket"   \* socket(AF_NETLINK, _, NETLINK_ROUTE)
OtherSock  == "other_socket"
Sockets    == {RouteSock, OtherSock}
Files      == Paths \cup Sockets

ASSUME FileAssumption == Free \notin Paths /\ Paths \cap Sockets = {}

Slots == {f \in Fd : f < TableSize}    \* the descriptors the tables have room for

(* The hooks, in the order JNI_OnLoad installs them *)
HookOrder == << "open", "openat", "fopen", "read", "pread64", "close",
                "getifaddrs", "if_nametoindex", "ioctl",
                "socket", "recvmsg", "recv", "recvfrom" >>

Openers     == {"open", "openat", "fopen"} \cup OtherOpeners
Closers     == {"close"} \cup OtherClosers
FileReaders == {"read", "pread64"}                        \* consult g_fd_table
NlReaders   == {"read", "recvmsg", "recv", "recvfrom"}    \* consult g_nl_socket_table
Readers     == FileReaders \cup NlReaders

AnyOf(p, needles) == needles \cap Has[p] # {}

(* classify_path: the first test that succeeds decides *)
classify_path(p) ==
  IF AnyOf(p, {"/proc/"}) /\ AnyOf(p, {"/maps"}) THEN "PROC_MAPS"
  ELSE IF AnyOf(p, {"/proc/net/tcp", "/proc/self/net/tcp"}) THEN "PROC_NET_TCP"
  ELSE IF AnyOf(p, {"/proc/"}) /\ AnyOf(p, {"/status"}) THEN "PROC_STATUS"
  ELSE IF AnyOf(p, {"/proc/"}) /\ AnyOf(p, {"/mountinfo", "/mounts"}) THEN "PROC_MOUNTS"
  ELSE IF AnyOf(p, {"/proc/net/if_inet6", "/proc/self/net/if_inet6"}) THEN "PROC_NET_IF_INET6"
  ELSE IF AnyOf(p, {"/proc/net/dev", "/proc/self/net/dev"}) THEN "PROC_NET_DEV"
  ELSE IF AnyOf(p, {"/proc/net/route", "/proc/self/net/route"}) THEN "PROC_NET_ROUTE"
  ELSE "NONE"

-----------------------------------------------------------------------------
VARIABLES
  next,               \* index in HookOrder of the hook JNI_OnLoad installs next
  installed,          \* the hooks in place
  file,               \* kernel: what each descriptor refers to, or Free
  hooked,             \* history: the descriptor was handed out through a hook
  bypassed,           \* history: descriptors released past hook_close with an
                      \* entry left in a table
  g_fd_table, g_nl_socket_table,
  pc,                 \* where each thread is in a hook, "idle" outside
  call,               \* the arguments and result of the hook each thread is in
  applied,            \* the sanitizers each thread's read has run on its buffer
  raced               \* history: threads whose read saw its descriptor opening
                      \* or closing

vars == <<next, installed, file, hooked, bypassed, g_fd_table,
          g_nl_socket_table, pc, call, applied, raced>>

kernel == <<next, installed, file, hooked>>
tables == <<bypassed, g_fd_table, g_nl_socket_table>>
reads  == <<applied, raced>>

Steps == {"idle", "track", "track_nl", "untrack", "untrack_nl", "close",
          "lookup", "lookup_nl", "return"}

(* fd: the argument or result; file: what was opened, or what the data read
   came from; via: the entry point *)
Calls == [fd : Fd, file : Files, via : Openers \cup Closers \cup Readers \cup {"socket"}]

NoCall == [via |-> "none"]

NewCall(f, what, via) == [fd |-> f, file |-> what, via |-> via]

(* The sanitizers: one per SensitiveFile, and sanitize_netlink *)
Sanitizers == (SensitiveFile \ {"NONE"}) \cup {"NETLINK"}

Opening(t) == pc[t] \in {"track", "track_nl"}
Closing(t) == pc[t] \in {"untrack", "untrack_nl", "close"}
Reading(t) == pc[t] \in {"lookup", "lookup_nl", "return"}
Busy(t)    == Opening(t) \/ Closing(t)

(* The process has got f from the call that opened it and no thread is closing
   it: a program that uses only descriptors it holds closes only these. *)
Usable(f) == /\ file[f] # Free
             /\ \A t \in Threads : Busy(t) => call[t].fd # f

Init ==
  /\ next = 1
  /\ installed = {}
  /\ file = [f \in Fd |-> Free]
  /\ hooked = [f \in Fd |-> FALSE]
  /\ bypassed = {}
  /\ g_fd_table = [f \in Slots |-> "NONE"]
  /\ g_nl_socket_table = [f \in Slots |-> FALSE]
  /\ pc = [t \in Threads |-> "idle"]
  /\ call = [t \in Threads |-> NoCall]
  /\ applied = [t \in Threads |-> {}]
  /\ raced = {}

-----------------------------------------------------------------------------
(* fd_tracker.h: the tables after a write, and what they answer.  Every
   function checks the range of the descriptor. *)
(* Mutant of track_fd: the range of the descriptor is not checked. *)
track_fd_unchecked(f, type) ==
  IF type = "NONE" THEN g_fd_table
  ELSE [s \in Slots \cup {f} |-> IF s = f THEN type ELSE g_fd_table[s]]

track_fd(f, type) ==
  IF f \in Slots /\ type # "NONE" THEN [g_fd_table EXCEPT ![f] = type] ELSE g_fd_table

untrack_fd(f) == IF f \in Slots THEN [g_fd_table EXCEPT ![f] = "NONE"] ELSE g_fd_table

get_fd_type(f) == IF f \in Slots THEN g_fd_table[f] ELSE "NONE"

track_nl_socket(f) ==
  IF f \in Slots THEN [g_nl_socket_table EXCEPT ![f] = TRUE] ELSE g_nl_socket_table

untrack_nl_socket(f) ==
  IF f \in Slots THEN [g_nl_socket_table EXCEPT ![f] = FALSE] ELSE g_nl_socket_table

is_nl_socket(f) == f \in Slots /\ g_nl_socket_table[f]

(* Mutants of hook_close: the descriptor is closed before it is untracked, and
   the untracking of netlink sockets is forgotten. *)
hook_close_first == [enter |-> "close", close |-> "untrack",
                     untrack |-> "untrack_nl", untrack_nl |-> "idle"]

hook_close_files == [enter |-> "untrack", untrack |-> "close",
                     untrack_nl |-> "close", close |-> "idle"]

(* The statements of hook_close in program order *)
hook_close == [enter |-> "untrack", untrack |-> "untrack_nl",
               untrack_nl |-> "close", close |-> "idle"]

(* Thread t goes on to step s of its hook, or out of it *)
GoTo(t, s) ==
  /\ pc' = [pc EXCEPT ![t] = s]
  /\ call' = IF s = "idle" THEN [call EXCEPT ![t] = NoCall] ELSE call

(* JNI_OnLoad goes on to the next install_hook whether this one succeeds, its
   symbol is not resolved or DobbyHook refuses it: the result is ignored. *)
InstallHook(ok) ==
  /\ next <= Len(HookOrder)
  /\ ok \/ HookOrder[next] \in MayFail
  /\ installed' = IF ok THEN installed \cup {HookOrder[next]} ELSE installed
  /\ next' = next + 1
  /\ UNCHANGED <<file, hooked, tables, pc, call, reads>>

Lowest(f) == file[f] = Free /\ \A g \in Fd : g < f => file[g] # Free

(* orig_open, orig_openat, orig_fopen: the kernel gives the lowest descriptor.
   fopen's hook asks fileno for it. *)
Open(t, via, p) ==
  /\ pc[t] = "idle"
  /\ \E f \in Fd :
       /\ Lowest(f)
       /\ file' = [file EXCEPT ![f] = p]
       /\ hooked' = [hooked EXCEPT ![f] = via \in installed]
       /\ IF via \in installed
          THEN /\ pc' = [pc EXCEPT ![t] = "track"]
               /\ call' = [call EXCEPT ![t] = NewCall(f, p, via)]
          ELSE UNCHANGED <<pc, call>>
  /\ UNCHANGED <<next, installed, tables, reads>>

(* track_fd(fd, classify_path(path)) *)
Track(t) ==
  /\ pc[t] = "track"
  /\ g_fd_table' = track_fd(call[t].fd, classify_path(call[t].file))
  /\ GoTo(t, "idle")
  /\ UNCHANGED <<kernel, bypassed, g_nl_socket_table, reads>>

(* hook_socket around orig_socket; only NETLINK_ROUTE sockets are tracked *)
Socket(t, s) ==
  /\ pc[t] = "idle"
  /\ \E f \in Fd :
       /\ Lowest(f)
       /\ file' = [file EXCEPT ![f] = s]
       /\ hooked' = [hooked EXCEPT ![f] = "socket" \in installed]
       /\ IF "socket" \in installed /\ s = RouteSock
          THEN /\ pc' = [pc EXCEPT ![t] = "track_nl"]
               /\ call' = [call EXCEPT ![t] = NewCall(f, s, "socket")]
          ELSE UNCHANGED <<pc, call>>
  /\ UNCHANGED <<next, installed, tables, reads>>

(* track_nl_socket(fd) *)
TrackNl(t) ==
  /\ pc[t] = "track_nl"
  /\ g_nl_socket_table' = track_nl_socket(call[t].fd)
  /\ GoTo(t, "idle")
  /\ UNCHANGED <<kernel, bypassed, g_fd_table, reads>>

-----------------------------------------------------------------------------
(* The entry left in a table when f is released past hook_close *)
Tracked(f) == get_fd_type(f) # "NONE" \/ is_nl_socket(f)

Release(f) ==
  /\ file' = [file EXCEPT ![f] = Free]
  /\ hooked' = [hooked EXCEPT ![f] = FALSE]

(* The readers of f that are between their original read and their return *)
ReadersOf(f) == {t \in Threads : Reading(t) /\ call[t].fd = f}

(* close: hook_close runs when it is installed, else the kernel's close alone *)
Close(t, via, f) ==
  /\ pc[t] = "idle"
  /\ Usable(f)
  /\ IF via \in installed
     THEN /\ pc' = [pc EXCEPT ![t] = hook_close.enter]
          /\ call' = [call EXCEPT ![t] = NewCall(f, file[f], via)]
          /\ UNCHANGED <<file, hooked, bypassed>>
     ELSE /\ Release(f)
          /\ bypassed' = IF Tracked(f) THEN bypassed \cup {f} ELSE bypassed
          /\ UNCHANGED <<pc, call>>
  /\ raced' = raced \cup ReadersOf(f)
  /\ UNCHANGED <<next, installed, g_fd_table, g_nl_socket_table, applied>>

(* untrack_fd(fd) *)
Untrack(t) ==
  /\ pc[t] = "untrack"
  /\ g_fd_table' = untrack_fd(call[t].fd)
  /\ GoTo(t, hook_close.untrack)
  /\ UNCHANGED <<kernel, bypassed, g_nl_socket_table, reads>>

(* untrack_nl_socket(fd) *)
UntrackNl(t) ==
  /\ pc[t] = "untrack_nl"
  /\ g_nl_socket_table' = untrack_nl_socket(call[t].fd)
  /\ bypassed' = bypassed \ {call[t].fd}
  /\ GoTo(t, hook_close.untrack_nl)
  /\ UNCHANGED <<kernel, g_fd_table, reads>>

(* orig_close(fd) *)
OrigClose(t) ==
  /\ pc[t] = "close"
  /\ Release(call[t].fd)
  /\ GoTo(t, hook_close.close)
  /\ UNCHANGED <<next, installed, tables, reads>>

-----------------------------------------------------------------------------
Readable(via, what) ==
  IF what \in Sockets THEN via \in NlReaders ELSE via \in FileReaders

(* The original read or receive fills the caller's buffer from what the
   descriptor refers to at that moment. *)
OrigRead(t, via, f) ==
  /\ pc[t] = "idle"
  /\ via \in installed
  /\ file[f] # Free
  /\ Readable(via, file[f])
  /\ pc' = [pc EXCEPT ![t] = IF via \in FileReaders THEN "lookup" ELSE "lookup_nl"]
  /\ call' = [call EXCEPT ![t] = NewCall(f, file[f], via)]
  /\ raced' = IF Usable(f) THEN raced ELSE raced \cup {t}
  /\ UNCHANGED <<kernel, tables, applied>>

(* get_fd_type(fd) and the sanitizer it selects *)
Lookup(t) ==
  /\ pc[t] = "lookup"
  /\ applied' = [applied EXCEPT ![t] = {get_fd_type(call[t].fd)} \ {"NONE"}]
  /\ pc' = [pc EXCEPT ![t] = IF call[t].via \in NlReaders THEN "lookup_nl" ELSE "return"]
  /\ UNCHANGED <<kernel, tables, call, raced>>

(* is_nl_socket(fd) and sanitize_netlink; hook_pread64 has no such step *)
LookupNl(t) ==
  /\ pc[t] = "lookup_nl"
  /\ applied' = IF is_nl_socket(call[t].fd)
                THEN [applied EXCEPT ![t] = @ \cup {"NETLINK"}] ELSE applied
  /\ pc' = [pc EXCEPT ![t] = "return"]
  /\ UNCHANGED <<kernel, tables, call, raced>>

ReadReturn(t) ==
  /\ pc[t] = "return"
  /\ GoTo(t, "idle")
  /\ applied' = [applied EXCEPT ![t] = {}]
  /\ raced' = raced \ {t}
  /\ UNCHANGED <<kernel, tables>>

-----------------------------------------------------------------------------
Next ==
  \/ \E ok \in BOOLEAN : InstallHook(ok)
  \/ \E t \in Threads :
       \/ \E via \in Openers, p \in Paths : Open(t, via, p)
       \/ Track(t)
       \/ \E s \in Sockets : Socket(t, s)
       \/ TrackNl(t)
       \/ \E via \in Closers, f \in Fd : Close(t, via, f)
       \/ Untrack(t)
       \/ UntrackNl(t)
       \/ OrigClose(t)
       \/ \E via \in Readers, f \in Fd : OrigRead(t, via, f)
       \/ Lookup(t)
       \/ LookupNl(t)
       \/ ReadReturn(t)

Spec == Init /\ [][Next]_vars

-----------------------------------------------------------------------------
(* The entries the tables should hold for f while no hook is changing them *)
Type(f) == IF file[f] \in Paths /\ hooked[f] THEN classify_path(file[f]) ELSE "NONE"
Nl(f)   == file[f] = RouteSock /\ hooked[f]

(* The sanitizers meant for what was read from a descriptor a hook opened *)
Meant(what) ==
  IF what \in Paths THEN {classify_path(what)} \ {"NONE"}
  ELSE IF what = RouteSock THEN {"NETLINK"} ELSE {}

(* No hook has yet to write, or has begun to clear, the entries of f *)
Settled(f) == \A t \in Threads : Busy(t) /\ call[t].fd = f => pc[t] = "untrack"

(* Every variable has its type; the tables have TableSize entries. *)
TypeOK ==
  /\ next \in 1 .. Len(HookOrder) + 1
  /\ installed \subseteq {HookOrder[i] : i \in 1 .. Len(HookOrder)}
  /\ file \in [Fd -> Files \cup {Free}]
  /\ hooked \in [Fd -> BOOLEAN]
  /\ bypassed \subseteq Fd
  /\ g_fd_table \in [Slots -> SensitiveFile]
  /\ g_nl_socket_table \in [Slots -> BOOLEAN]
  /\ pc \in [Threads -> Steps]
  /\ call \in [Threads -> Calls \cup {NoCall}]
  /\ \A t \in Threads : pc[t] # "idle" => call[t] \in Calls
  /\ applied \in [Threads -> SUBSET Sanitizers]
  /\ raced \subseteq Threads

(* The tables agree with the kernel: once no hook is in the middle of changing
   its entries, a descriptor that was not released past hook_close has exactly
   the entries of what it refers to, and none when it is free. *)
TablesFollowKernel ==
  \A f \in Slots \ bypassed :
    Settled(f) => g_fd_table[f] = Type(f) /\ (g_nl_socket_table[f] <=> Nl(f))

(* A read that no open or close of its descriptor races with *)
Delivered(t) == pc[t] = "return" /\ t \notin raced /\ call[t].fd \in Slots

MeantFor(t) == IF hooked[call[t].fd] THEN Meant(call[t].file) ELSE {}

(* The sanitizers the entry point of t's read can reach *)
Reach(t) == (IF call[t].via \in FileReaders THEN Sanitizers \ {"NETLINK"} ELSE {})
            \cup (IF call[t].via \in NlReaders THEN {"NETLINK"} ELSE {})

(* What a hook opened as a sensitive pseudo-file, or as a route socket, is
   delivered through its own sanitizer, whatever was left behind in the tables
   by descriptors released past hook_close, and at every stage of JNI_OnLoad. *)
SensitiveReadsSanitized ==
  \A t \in Threads : Delivered(t) => MeantFor(t) \cap Reach(t) \subseteq applied[t]

(* No sanitizer runs on data of another kind, unless the descriptor was once
   released past hook_close. *)
OtherReadsUntouched ==
  \A t \in Threads :
    Delivered(t) /\ call[t].fd \notin bypassed => applied[t] \subseteq MeantFor(t)
=============================================================================
