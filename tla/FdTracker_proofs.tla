------------------------- MODULE FdTracker_proofs --------------------------
(***************************************************************************)
(* Theorems about FdTracker for any threads, descriptors and paths: the    *)
(* tables follow the kernel, and a read is delivered through the sanitizer *)
(* of what it read.                                                        *)
(***************************************************************************)
EXTENDS FdTracker, TLAPS

(* At most one thread is opening or closing a descriptor, and it is open. *)
OneOwner ==
  \A t \in Threads : Busy(t) =>
    /\ file[call[t].fd] = call[t].file
    /\ \A u \in Threads : Busy(u) /\ call[u].fd = call[t].fd => u = t

(* What a hook that is opening a descriptor has still to write *)
OpeningInv ==
  \A t \in Threads : Opening(t) =>
    /\ hooked[call[t].fd]
    /\ call[t].file \in (IF pc[t] = "track" THEN Paths ELSE {RouteSock})
    /\ call[t].fd \in Slots \ bypassed =>
         g_fd_table[call[t].fd] = "NONE" /\ ~g_nl_socket_table[call[t].fd]

(* What a hook that is closing a descriptor has already cleared *)
ClosingInv ==
  \A t \in Threads : Closing(t) /\ call[t].fd \in Slots =>
    /\ pc[t] \in {"untrack_nl", "close"} => g_fd_table[call[t].fd] = "NONE"
    /\ pc[t] = "close" => ~g_nl_socket_table[call[t].fd]

(* A settled descriptor has the entries of what it refers to: all of them if
   it was not bypassed, and at any rate those a hook wrote. *)
TableInv ==
  \A f \in Slots : Settled(f) =>
    /\ f \notin bypassed => g_fd_table[f] = Type(f) /\ (g_nl_socket_table[f] <=> Nl(f))
    /\ Type(f) # "NONE" => g_fd_table[f] = Type(f)
    /\ Nl(f) => g_nl_socket_table[f]

TypeFound(t) == call[t].via \in FileReaders /\ pc[t] \in {"lookup_nl", "return"}
NlFound(t)   == call[t].via \in NlReaders /\ pc[t] = "return"

(* A read that nothing races with still has its descriptor, and the sanitizers
   it has run so far are those it should. *)
ReadingInv ==
  \A t \in Threads : Reading(t) /\ t \notin raced =>
    LET f == call[t].fd IN
    /\ call[t].via \in Readers
    /\ Usable(f)
    /\ file[f] = call[t].file
    /\ f \in Slots /\ TypeFound(t) /\ Type(f) # "NONE" => Type(f) \in applied[t]
    /\ f \in Slots /\ NlFound(t) /\ Nl(f) => "NETLINK" \in applied[t]
    /\ f \in Slots \ bypassed => /\ applied[t] \subseteq {Type(f), "NETLINK"} \ {"NONE"}
                                 /\ "NETLINK" \in applied[t] => Nl(f)

(* A thread outside a read has run no sanitizer. *)
AppliedInv ==
  \A t \in Threads : (~Reading(t) \/ pc[t] = "lookup" => applied[t] = {})
                      /\ (t \in raced => Reading(t))

IInv == /\ TypeOK
        /\ OneOwner
        /\ OpeningInv
        /\ ClosingInv
        /\ TableInv
        /\ ReadingInv
        /\ AppliedInv

-----------------------------------------------------------------------------
LEMMA ClassifyType == \A p : classify_path(p) \in SensitiveFile
  BY DEF classify_path, SensitiveFile

LEMMA InstallStep ==
  ASSUME IInv, NEW ok \in BOOLEAN, InstallHook(ok)
  PROVE  IInv'
<1> USE FdAssumption, FileAssumption, ClassifyType DEF IInv
<1>1. TypeOK'
  BY DEF TypeOK, tables, reads, InstallHook
<1>2. OneOwner'
  BY DEF OneOwner, Opening, Closing, Busy, InstallHook
<1>3. OpeningInv'
  BY DEF OpeningInv, Opening, tables, InstallHook
<1>4. ClosingInv'
  BY DEF ClosingInv, Closing, tables, InstallHook
<1>5. TableInv'
  BY DEF TableInv, Settled, Type, Nl, Opening, Closing, Busy, kernel, tables,
     InstallHook
<1>6. ReadingInv'
  BY DEF ReadingInv, Usable, TypeFound, NlFound, Type, Nl, Opening, Closing, Reading,
     Busy, kernel, tables, reads, Sanitizers, InstallHook
<1>7. AppliedInv'
  BY DEF AppliedInv, Reading, reads, InstallHook
<1>8. QED BY <1>1, <1>2, <1>3, <1>4, <1>5, <1>6, <1>7

LEMMA OpenStep ==
  ASSUME IInv, NEW t \in Threads, NEW via \in Openers, NEW p \in Paths, Open(t, via, p)
  PROVE  IInv'
<1> USE FdAssumption, FileAssumption, ClassifyType DEF IInv
<1>1. PICK f \in Fd :
        /\ file[f] = Free
        /\ file' = [file EXCEPT ![f] = p]
        /\ hooked' = [hooked EXCEPT ![f] = via \in installed]
        /\ IF via \in installed
           THEN /\ pc' = [pc EXCEPT ![t] = "track"]
                /\ call' = [call EXCEPT ![t] = NewCall(f, p, via)]
           ELSE UNCHANGED <<pc, call>>
  BY DEF Open, Lowest
<1>2. /\ pc[t] = "idle"
      /\ UNCHANGED <<next, installed, bypassed, g_fd_table, g_nl_socket_table, applied, raced>>
  BY DEF Open, tables, reads
<1>3. p \in Files /\ p # Free /\ Free \notin Files
  BY DEF Files, Sockets, Free, RouteSock, OtherSock
<1>4. \A u \in Threads : Busy(u) => call[u].fd # f
  BY <1>1, <1>3 DEF TypeOK, OneOwner, Busy, Opening, Closing, Calls
<1>5. NewCall(f, p, via) \in Calls
  BY <1>3 DEF NewCall, Calls
<1>6. TypeOK'
  BY <1>1, <1>2, <1>3, <1>5 DEF TypeOK, Steps
<1>7. \A u \in Threads : u # t => /\ pc'[u] = pc[u]
                                  /\ call'[u] = call[u]
  BY <1>1, <1>2 DEF TypeOK
<1>8. Busy(t)' => (via \in installed) /\ pc'[t] = "track" /\ call'[t] = NewCall(f, p, via)
  BY <1>1, <1>2 DEF TypeOK, Busy, Opening, Closing
<1>9. OneOwner'
  BY <1>1, <1>4, <1>6, <1>7, <1>8 DEF TypeOK, OneOwner, NewCall, Opening, Closing, Busy
<1>10. f \in Slots \ bypassed => g_fd_table[f] = "NONE" /\ ~g_nl_socket_table[f]
  BY <1>1, <1>3, <1>4 DEF TableInv, Settled, Type, Nl, Files, Sockets
<1>17. /\ file'[f] = p /\ (hooked'[f] <=> via \in installed)
       /\ \A g \in Fd : g # f => file'[g] = file[g] /\ hooked'[g] = hooked[g]
  BY <1>1 DEF TypeOK
<1>11. OpeningInv'
  <2> SUFFICES ASSUME NEW u \in Threads, Opening(u)'
               PROVE  /\ hooked'[call'[u].fd]
                      /\ call'[u].file \in (IF pc'[u] = "track" THEN Paths ELSE {RouteSock})
                      /\ call'[u].fd \in Slots \ bypassed =>
                           g_fd_table[call'[u].fd] = "NONE" /\ ~g_nl_socket_table[call'[u].fd]
    BY <1>2 DEF OpeningInv
  <2>1. CASE u = t
    BY <2>1, <1>8, <1>10, <1>17 DEF NewCall, Busy, Opening
  <2>2. CASE u # t
    <3>1. Opening(u) /\ call'[u] = call[u] /\ pc'[u] = pc[u]
      BY <2>2, <1>7 DEF Opening
    <3>2. call[u].fd \in Fd /\ call[u].fd # f
      BY <3>1, <1>4 DEF TypeOK, Opening, Busy, Calls
    <3> QED BY <3>1, <3>2, <1>17 DEF OpeningInv
  <2> QED BY <2>1, <2>2
<1>12. ClosingInv'
  BY <1>1, <1>2, <1>7, <1>8 DEF TypeOK, ClosingInv, Opening, Closing, reads
<1>13. TableInv'
  <2> SUFFICES ASSUME NEW g \in Slots, Settled(g)'
               PROVE  /\ g \notin bypassed => /\ g_fd_table[g] = Type(g)'
                                              /\ g_nl_socket_table[g] <=> Nl(g)'
                      /\ Type(g)' # "NONE" => g_fd_table[g] = Type(g)'
                      /\ Nl(g)' => g_nl_socket_table[g]
    BY <1>2 DEF TableInv, Slots
  <2>1. CASE g = f
    <3>1. ~(via \in installed)
      BY <2>1, <1>1 DEF TypeOK, Settled, Busy, Opening, NewCall
    <3>2. Type(g)' = "NONE" /\ ~Nl(g)'
      BY <2>1, <3>1, <1>17 DEF Type, Nl, OtherSock
    <3> QED BY <2>1, <3>2, <1>10
  <2>2. CASE g # f
    <3>1. Settled(g)
      BY <2>2, <1>1, <1>2, <1>7 DEF Settled, Busy, Opening, Closing
    <3>2. Type(g)' = Type(g) /\ (Nl(g)' <=> Nl(g))
      BY <2>2, <1>17 DEF Type, Nl, Slots
    <3> QED BY <3>1, <3>2 DEF TableInv
  <2> QED BY <2>1, <2>2
<1>14. ReadingInv'
  BY <1>1, <1>2, <1>3, <1>4, <1>6, <1>7, <1>8 DEF TypeOK, ReadingInv, Usable, TypeFound,
     NlFound, Type, Nl, NewCall, Opening, Closing, Reading, Busy, kernel
<1>15. AppliedInv'
  BY <1>1, <1>2 DEF TypeOK, AppliedInv, Opening, Closing, Reading, Busy, kernel, tables,
     reads
<1>16. QED BY <1>6, <1>9, <1>11, <1>12, <1>13, <1>14, <1>15

LEMMA TrackStep ==
  ASSUME IInv, NEW t \in Threads, Track(t)
  PROVE  IInv'
<1> USE FdAssumption, FileAssumption, ClassifyType DEF IInv
<1>1. TypeOK'
  BY DEF TypeOK, kernel, reads, Steps, Track, GoTo, track_fd
<1>2. OneOwner'
  BY DEF TypeOK, OneOwner, Opening, Closing, Busy, kernel, Track, GoTo
<1>3. OpeningInv'
  BY DEF TypeOK, OneOwner, OpeningInv, Opening, Busy, kernel, Sanitizers, Track, GoTo,
     track_fd
<1>4. ClosingInv'
  BY DEF OneOwner, ClosingInv, Opening, Closing, Busy, Track, GoTo, track_fd
<1>5. TableInv'
  BY DEF TypeOK, OneOwner, OpeningInv, ClosingInv, TableInv, Settled, Type, Nl, Opening,
     Closing, Reading, Busy, kernel, tables, Files, Sockets, Track, GoTo, track_fd
<1>6. ReadingInv'
  BY DEF TypeOK, ReadingInv, AppliedInv, Usable, TypeFound, NlFound, Settled, Type, Nl,
     Opening, Closing, Reading, Busy, kernel, tables, reads, Sanitizers, Track, GoTo
<1>7. AppliedInv'
  BY DEF AppliedInv, Reading, reads, Track, GoTo
<1>8. QED BY <1>1, <1>2, <1>3, <1>4, <1>5, <1>6, <1>7

LEMMA SocketStep ==
  ASSUME IInv, NEW t \in Threads, NEW s \in Sockets, Socket(t, s)
  PROVE  IInv'
<1> USE FdAssumption, FileAssumption, ClassifyType DEF IInv
<1>1. PICK f \in Fd :
        /\ file[f] = Free
        /\ file' = [file EXCEPT ![f] = s]
        /\ hooked' = [hooked EXCEPT ![f] = "socket" \in installed]
        /\ IF "socket" \in installed /\ s = RouteSock
           THEN /\ pc' = [pc EXCEPT ![t] = "track_nl"]
                /\ call' = [call EXCEPT ![t] = NewCall(f, s, "socket")]
           ELSE UNCHANGED <<pc, call>>
  BY DEF Socket, Lowest
<1>2. /\ pc[t] = "idle"
      /\ UNCHANGED <<next, installed, bypassed, g_fd_table, g_nl_socket_table, applied, raced>>
  BY DEF Socket, tables, reads
<1>3. s \in Files /\ s # Free /\ Free \notin Files
  BY DEF Files, Sockets, Free, RouteSock, OtherSock
<1>4. \A u \in Threads : Busy(u) => call[u].fd # f
  BY <1>1, <1>3 DEF TypeOK, OneOwner, Busy, Opening, Closing, Calls
<1>5. NewCall(f, s, "socket") \in Calls
  BY <1>3 DEF NewCall, Calls
<1>6. TypeOK'
  BY <1>1, <1>2, <1>3, <1>5 DEF TypeOK, Steps
<1>7. \A u \in Threads : u # t => /\ pc'[u] = pc[u]
                                  /\ call'[u] = call[u]
  BY <1>1, <1>2 DEF TypeOK
<1>8. Busy(t)' => ("socket" \in installed /\ s = RouteSock) /\ pc'[t] = "track_nl" /\ call'[t] = NewCall(f, s, "socket")
  BY <1>1, <1>2 DEF TypeOK, Busy, Opening, Closing
<1>9. OneOwner'
  BY <1>1, <1>4, <1>6, <1>7, <1>8 DEF TypeOK, OneOwner, NewCall, Opening, Closing, Busy
<1>10. f \in Slots \ bypassed => g_fd_table[f] = "NONE" /\ ~g_nl_socket_table[f]
  BY <1>1, <1>3, <1>4 DEF TableInv, Settled, Type, Nl, Files, Sockets
<1>17. /\ file'[f] = s /\ (hooked'[f] <=> "socket" \in installed)
       /\ \A g \in Fd : g # f => file'[g] = file[g] /\ hooked'[g] = hooked[g]
  BY <1>1 DEF TypeOK
<1>11. OpeningInv'
  <2> SUFFICES ASSUME NEW u \in Threads, Opening(u)'
               PROVE  /\ hooked'[call'[u].fd]
                      /\ call'[u].file \in (IF pc'[u] = "track" THEN Paths ELSE {RouteSock})
                      /\ call'[u].fd \in Slots \ bypassed =>
                           g_fd_table[call'[u].fd] = "NONE" /\ ~g_nl_socket_table[call'[u].fd]
    BY <1>2 DEF OpeningInv
  <2>1. CASE u = t
    BY <2>1, <1>8, <1>10, <1>17 DEF NewCall, Busy, Opening
  <2>2. CASE u # t
    <3>1. Opening(u) /\ call'[u] = call[u] /\ pc'[u] = pc[u]
      BY <2>2, <1>7 DEF Opening
    <3>2. call[u].fd \in Fd /\ call[u].fd # f
      BY <3>1, <1>4 DEF TypeOK, Opening, Busy, Calls
    <3> QED BY <3>1, <3>2, <1>17 DEF OpeningInv
  <2> QED BY <2>1, <2>2
<1>12. ClosingInv'
  BY <1>1, <1>2, <1>7, <1>8 DEF TypeOK, ClosingInv, Opening, Closing, reads
<1>13. TableInv'
  <2> SUFFICES ASSUME NEW g \in Slots, Settled(g)'
               PROVE  /\ g \notin bypassed => /\ g_fd_table[g] = Type(g)'
                                              /\ g_nl_socket_table[g] <=> Nl(g)'
                      /\ Type(g)' # "NONE" => g_fd_table[g] = Type(g)'
                      /\ Nl(g)' => g_nl_socket_table[g]
    BY <1>2 DEF TableInv, Slots
  <2>1. CASE g = f
    <3>1. ~("socket" \in installed /\ s = RouteSock)
      BY <2>1, <1>1 DEF TypeOK, Settled, Busy, Opening, NewCall
    <3>2. Type(g)' = "NONE" /\ ~Nl(g)'
      BY <2>1, <3>1, <1>17 DEF Type, Nl, OtherSock
    <3> QED BY <2>1, <3>2, <1>10
  <2>2. CASE g # f
    <3>1. Settled(g)
      BY <2>2, <1>1, <1>2, <1>7 DEF Settled, Busy, Opening, Closing
    <3>2. Type(g)' = Type(g) /\ (Nl(g)' <=> Nl(g))
      BY <2>2, <1>17 DEF Type, Nl, Slots
    <3> QED BY <3>1, <3>2 DEF TableInv
  <2> QED BY <2>1, <2>2
<1>14. ReadingInv'
  BY <1>1, <1>2, <1>3, <1>4, <1>6, <1>7, <1>8 DEF TypeOK, ReadingInv, Usable, TypeFound,
     NlFound, Type, Nl, NewCall, Opening, Closing, Reading, Busy, kernel
<1>15. AppliedInv'
  BY <1>1, <1>2 DEF TypeOK, AppliedInv, Opening, Closing, Reading, Busy, kernel, tables,
     reads
<1>16. QED BY <1>6, <1>9, <1>11, <1>12, <1>13, <1>14, <1>15

LEMMA TrackNlStep ==
  ASSUME IInv, NEW t \in Threads, TrackNl(t)
  PROVE  IInv'
<1> USE FdAssumption, FileAssumption, ClassifyType DEF IInv
<1>1. TypeOK'
  BY DEF TypeOK, kernel, reads, Steps, TrackNl, GoTo, track_nl_socket
<1>2. OneOwner'
  BY DEF TypeOK, OneOwner, Opening, Closing, Busy, kernel, TrackNl, GoTo
<1>3. OpeningInv'
  BY DEF TypeOK, OneOwner, OpeningInv, Opening, Busy, kernel, Sanitizers, TrackNl, GoTo,
     track_nl_socket
<1>4. ClosingInv'
  BY DEF OneOwner, ClosingInv, Opening, Closing, Busy, TrackNl, GoTo, track_nl_socket
<1>5. TableInv'
  BY DEF TypeOK, OneOwner, OpeningInv, ClosingInv, TableInv, Settled, Type, Nl, Opening,
     Closing, Reading, Busy, kernel, tables, Files, Sockets, TrackNl, GoTo,
     track_nl_socket
<1>6. ReadingInv'
  BY DEF TypeOK, ReadingInv, AppliedInv, Usable, TypeFound, NlFound, Settled, Type, Nl,
     Opening, Closing, Reading, Busy, kernel, tables, reads, Sanitizers, TrackNl, GoTo
<1>7. AppliedInv'
  BY DEF AppliedInv, Reading, reads, TrackNl, GoTo
<1>8. QED BY <1>1, <1>2, <1>3, <1>4, <1>5, <1>6, <1>7

LEMMA CloseStep ==
  ASSUME IInv, NEW t \in Threads, NEW via \in Closers, NEW f \in Fd, Close(t, via, f)
  PROVE  IInv'
<1> USE FdAssumption, FileAssumption, ClassifyType DEF IInv
<1>1. TypeOK'
  <2>1. NewCall(f, file[f], via) \in Calls
    BY DEF Close, Usable, TypeOK, NewCall, Calls
  <2>2. file' \in [Fd -> Files \cup {Free}] /\ hooked' \in [Fd -> BOOLEAN] /\ bypassed' \subseteq Fd
    BY DEF TypeOK, Close, Release
  <2>3. pc' \in [Threads -> Steps] /\ call' \in [Threads -> Calls \cup {NoCall}]
    BY <2>1 DEF TypeOK, Close, hook_close, Steps
  <2>4. \A u \in Threads : pc'[u] # "idle" => call'[u] \in Calls
    BY <2>1 DEF TypeOK, Close
  <2>5. raced' \subseteq Threads /\ UNCHANGED <<next, installed, g_fd_table, g_nl_socket_table, applied>>
    BY DEF TypeOK, Close, ReadersOf
  <2> QED BY <2>2, <2>3, <2>4, <2>5 DEF TypeOK
<1>2. OneOwner'
  BY DEF TypeOK, OneOwner, Opening, Closing, Busy, Calls, NoCall, Close, NewCall,
     ReadersOf, Release, Usable
<1>3. OpeningInv'
  <2> SUFFICES ASSUME NEW u \in Threads, Opening(u)'
               PROVE  /\ hooked'[call'[u].fd]
                      /\ call'[u].file \in (IF pc'[u] = "track" THEN Paths ELSE {RouteSock})
                      /\ call'[u].fd \in Slots \ bypassed' =>
                           g_fd_table'[call'[u].fd] = "NONE"
                           /\ ~g_nl_socket_table'[call'[u].fd]
    BY DEF OpeningInv, Slots
  <2>1. Opening(u) /\ call'[u] = call[u] /\ pc'[u] = pc[u]
    BY DEF Close, TypeOK, Opening, hook_close
  <2>2. call[u].fd # f /\ call[u].fd \in Fd
    BY <2>1 DEF Close, Usable, Busy, TypeOK, Opening, Calls
  <2>3. /\ hooked'[call[u].fd] = hooked[call[u].fd]
        /\ call[u].fd \in bypassed' <=> call[u].fd \in bypassed
        /\ UNCHANGED <<g_fd_table, g_nl_socket_table>>
    BY <2>2 DEF Close, Release, TypeOK
  <2> QED BY <2>1, <2>3 DEF OpeningInv
<1>4. ClosingInv'
  BY DEF TypeOK, ClosingInv, Closing, Close, hook_close
<1>5. TableInv'
  <2> SUFFICES ASSUME NEW g \in Slots, Settled(g)'
               PROVE  /\ g \notin bypassed' => /\ g_fd_table[g] = Type(g)'
                                               /\ g_nl_socket_table[g] <=> Nl(g)'
                      /\ Type(g)' # "NONE" => g_fd_table[g] = Type(g)'
                      /\ Nl(g)' => g_nl_socket_table[g]
    BY DEF TableInv, Slots, Close
  <2>1. CASE g = f /\ via \in installed
    <3>1. Settled(g)
      BY <2>1 DEF Close, Usable, Settled
    <3>2. UNCHANGED <<file, hooked, bypassed>>
      BY <2>1 DEF Close
    <3> QED BY <3>1, <3>2 DEF TableInv, Type, Nl
  <2>2. CASE g = f /\ via \notin installed
    <3>1. file'[g] = Free
      BY <2>2 DEF Close, Release, TypeOK
    <3>2. Type(g)' = "NONE" /\ ~Nl(g)'
      BY <3>1 DEF Type, Nl, Free, RouteSock
    <3>3. g \notin bypassed' => ~Tracked(g)
      BY <2>2 DEF Close
    <3> QED BY <3>2, <3>3 DEF Tracked, get_fd_type, is_nl_socket
  <2>3. CASE g # f
    <3>1. Settled(g)
      <4> SUFFICES ASSUME NEW u \in Threads, Busy(u), call[u].fd = g
                   PROVE  pc[u] = "untrack"
        BY DEF Settled
      <4>1. u # t
        BY DEF Close, Busy, Opening, Closing
      <4>2. pc'[u] = pc[u] /\ call'[u] = call[u]
        BY <4>1 DEF Close, TypeOK
      <4> QED BY <4>2 DEF Settled, Busy, Opening, Closing
    <3>2. file'[g] = file[g] /\ hooked'[g] = hooked[g] /\ (g \in bypassed' <=> g \in bypassed)
      BY <2>3 DEF Close, Release, TypeOK, Slots
    <3> QED BY <3>1, <3>2 DEF TableInv, Type, Nl
  <2> QED BY <2>1, <2>2, <2>3
<1>6. ReadingInv'
  <2> SUFFICES ASSUME NEW u \in Threads, Reading(u)', u \notin raced'
               PROVE  /\ Reading(u) /\ u \notin raced /\ u # t
                      /\ pc'[u] = pc[u] /\ call'[u] = call[u] /\ applied'[u] = applied[u]
                      /\ LET g == call[u].fd
                         IN /\ Usable(g)'
                            /\ file'[g] = file[g]
                            /\ Type(g)' = Type(g) /\ (Nl(g)' <=> Nl(g))
                            /\ g \in bypassed' <=> g \in bypassed
    BY DEF ReadingInv, TypeFound, NlFound
  <2>1. u # t /\ pc'[u] = pc[u] /\ call'[u] = call[u] /\ Reading(u)
    BY DEF Close, TypeOK, Reading, hook_close
  <2>2. u \notin raced /\ call[u].fd # f /\ call[u].fd \in Fd
    BY <2>1 DEF Close, ReadersOf, TypeOK, Reading, Calls
  <2>3. Usable(call[u].fd)
    BY <2>1, <2>2 DEF ReadingInv
  <2>4. /\ file'[call[u].fd] = file[call[u].fd]
        /\ hooked'[call[u].fd] = hooked[call[u].fd]
        /\ call[u].fd \in bypassed' <=> call[u].fd \in bypassed
    BY <2>2 DEF Close, Release, TypeOK
  <2>5. Usable(call[u].fd)'
    <3>1. \A v \in Threads : v # t => (Busy(v)' <=> Busy(v)) /\ call'[v] = call[v]
      BY DEF Close, TypeOK, Busy, Opening, Closing
    <3>2. Busy(t)' => call'[t].fd = f
      <4>1. CASE via \in installed
        BY <4>1 DEF Close, TypeOK, NewCall
      <4>2. CASE via \notin installed
        BY <4>2 DEF Close, Busy, Opening, Closing
      <4> QED BY <4>1, <4>2
    <3> QED BY <2>1, <2>2, <2>3, <2>4, <3>1, <3>2 DEF Usable
  <2> QED BY <2>1, <2>2, <2>4, <2>5 DEF Close, Type, Nl
<1>7. AppliedInv'
  BY DEF TypeOK, AppliedInv, Reading, Close, ReadersOf
<1>8. QED BY <1>1, <1>2, <1>3, <1>4, <1>5, <1>6, <1>7

LEMMA UntrackStep ==
  ASSUME IInv, NEW t \in Threads, Untrack(t)
  PROVE  IInv'
<1> USE FdAssumption, FileAssumption, ClassifyType DEF IInv
<1>1. TypeOK'
  BY DEF TypeOK, kernel, reads, SensitiveFile, Steps, Untrack, GoTo, untrack_fd,
     hook_close
<1>2. OneOwner'
  BY DEF TypeOK, OneOwner, Opening, Closing, Busy, kernel, Untrack, GoTo
<1>3. OpeningInv'
  BY DEF OpeningInv, Opening, kernel, Sanitizers, Untrack, GoTo, untrack_fd, hook_close
<1>4. ClosingInv'
  BY DEF TypeOK, ClosingInv, Closing, Untrack, GoTo, untrack_fd, hook_close
<1>5. TableInv'
  BY DEF TypeOK, TableInv, Settled, Type, Nl, Opening, Closing, Reading, Busy, kernel,
     tables, Untrack, GoTo, untrack_fd, hook_close
<1>6. ReadingInv'
  BY DEF ReadingInv, Usable, TypeFound, NlFound, Settled, Type, Nl, Opening, Closing,
     Reading, Busy, kernel, tables, reads, Sanitizers, Untrack, GoTo, untrack_fd,
     hook_close
<1>7. AppliedInv'
  BY DEF AppliedInv, Reading, reads, Untrack, GoTo
<1>8. QED BY <1>1, <1>2, <1>3, <1>4, <1>5, <1>6, <1>7

LEMMA UntrackNlStep ==
  ASSUME IInv, NEW t \in Threads, UntrackNl(t)
  PROVE  IInv'
<1> USE FdAssumption, FileAssumption, ClassifyType DEF IInv
<1>1. TypeOK'
  BY DEF TypeOK, kernel, reads, Steps, UntrackNl, GoTo, untrack_nl_socket, hook_close
<1>2. OneOwner'
  BY DEF TypeOK, OneOwner, Opening, Closing, Busy, kernel, UntrackNl, GoTo
<1>3. OpeningInv'
  BY DEF OneOwner, OpeningInv, Opening, Closing, Reading, Busy, kernel, Sanitizers,
     UntrackNl, GoTo, untrack_nl_socket, hook_close
<1>4. ClosingInv'
  BY DEF TypeOK, ClosingInv, Closing, UntrackNl, GoTo, untrack_nl_socket
<1>5. TableInv'
  BY DEF TableInv, Settled, Type, Nl, Opening, Closing, Busy, kernel, tables, UntrackNl,
     GoTo, untrack_nl_socket, hook_close
<1>6. ReadingInv'
  BY DEF ReadingInv, Usable, TypeFound, NlFound, Settled, Type, Nl, Opening, Closing,
     Reading, Busy, kernel, tables, reads, Sanitizers, UntrackNl, GoTo,
     untrack_nl_socket, hook_close
<1>7. AppliedInv'
  BY DEF AppliedInv, Reading, reads, UntrackNl, GoTo
<1>8. QED BY <1>1, <1>2, <1>3, <1>4, <1>5, <1>6, <1>7

LEMMA OrigCloseStep ==
  ASSUME IInv, NEW t \in Threads, OrigClose(t)
  PROVE  IInv'
<1> USE FdAssumption, FileAssumption, ClassifyType DEF IInv
<1>1. TypeOK'
  BY DEF TypeOK, tables, reads, Steps, OrigClose, GoTo, Release, hook_close
<1>2. OneOwner'
  BY DEF TypeOK, OneOwner, Opening, Closing, Busy, OrigClose, GoTo, Release, hook_close
<1>3. OpeningInv'
  BY DEF OneOwner, OpeningInv, TableInv, Nl, Opening, Closing, Reading, Busy, kernel,
     tables, reads, Sanitizers, OrigClose, GoTo, Release, hook_close
<1>4. ClosingInv'
  BY DEF TypeOK, ClosingInv, Closing, tables, Sanitizers, OrigClose, GoTo, Release
<1>5. TableInv'
  BY DEF TypeOK, ClosingInv, TableInv, Settled, Type, Nl, Opening, Closing, Reading,
     Busy, kernel, tables, reads, SensitiveFile, Calls, NoCall, Sanitizers, OrigClose,
     GoTo, Release
<1>6. ReadingInv'
  BY DEF TypeOK, TableInv, ReadingInv, AppliedInv, Usable, TypeFound, NlFound, Settled,
     Type, Nl, Opening, Closing, Reading, Busy, kernel, tables, reads, Sanitizers,
     OrigClose, GoTo, Release, hook_close
<1>7. AppliedInv'
  BY DEF AppliedInv, Reading, reads, OrigClose, GoTo
<1>8. QED BY <1>1, <1>2, <1>3, <1>4, <1>5, <1>6, <1>7

LEMMA OrigReadStep ==
  ASSUME IInv, NEW t \in Threads, NEW via \in Readers, NEW f \in Fd, OrigRead(t, via, f)
  PROVE  IInv'
<1> USE FdAssumption, FileAssumption, ClassifyType DEF IInv
<1>1. TypeOK'
  BY DEF TypeOK, kernel, tables, Steps, Calls, OrigRead, NewCall
<1>2. OneOwner'
  BY DEF OneOwner, Opening, Closing, Busy, kernel, OrigRead
<1>3. OpeningInv'
  BY DEF OpeningInv, Opening, kernel, tables, reads, Sanitizers, OrigRead
<1>4. ClosingInv'
  BY DEF ClosingInv, Closing, tables, OrigRead
<1>5. TableInv'
  BY DEF TableInv, Settled, Type, Nl, Opening, Closing, Busy, kernel, tables, OrigRead
<1>6. ReadingInv'
  BY DEF TypeOK, ReadingInv, AppliedInv, Usable, TypeFound, NlFound, Settled, Type, Nl,
     Opening, Closing, Reading, Busy, kernel, tables, reads, Sanitizers, OrigRead,
     NewCall
<1>7. AppliedInv'
  BY DEF TypeOK, AppliedInv, Reading, OrigRead
<1>8. QED BY <1>1, <1>2, <1>3, <1>4, <1>5, <1>6, <1>7

LEMMA LookupStep ==
  ASSUME IInv, NEW t \in Threads, Lookup(t)
  PROVE  IInv'
<1> USE FdAssumption, FileAssumption, ClassifyType DEF IInv
<1>1. TypeOK'
  BY DEF TypeOK, kernel, tables, Steps, Sanitizers, Lookup, get_fd_type
<1>2. OneOwner'
  BY DEF OneOwner, Opening, Closing, Busy, kernel, Lookup
<1>3. OpeningInv'
  BY DEF OpeningInv, Opening, kernel, tables, reads, Sanitizers, Lookup
<1>4. ClosingInv'
  BY DEF ClosingInv, Closing, tables, Lookup
<1>5. TableInv'
  BY DEF TableInv, Settled, Type, Nl, Opening, Closing, Busy, kernel, tables, Lookup
<1>6. ReadingInv'
  <2>1. \A u \in Threads : (Reading(u)' => Reading(u)) /\ (u # t => pc'[u] = pc[u])
    BY DEF Lookup, TypeOK, Reading
  <2>2. \A g : (Usable(g)' <=> Usable(g)) /\ Type(g)' = Type(g) /\ (Nl(g)' <=> Nl(g))
    BY DEF Lookup, Usable, Type, Nl, kernel, Busy, Opening, Closing
  <2>3. /\ UNCHANGED <<call, raced, file, bypassed>>
        /\ \A u \in Threads : u # t => applied'[u] = applied[u]
    BY DEF Lookup, TypeOK, kernel, tables
  <2>4. \A u \in Threads : TypeFound(u)' => u = t \/ TypeFound(u)
    BY <2>1, <2>3 DEF TypeFound
  <2>5. \A u \in Threads : NlFound(u)' => u = t \/ NlFound(u)
    BY <2>1, <2>3 DEF NlFound
  <2>6. ASSUME t \notin raced
        PROVE  LET f == call[t].fd
               IN /\ f \in Slots /\ Type(f) # "NONE" => Type(f) \in applied'[t]
                  /\ NlFound(t)' => FALSE
                  /\ f \in Slots \ bypassed => /\ applied'[t] \subseteq {Type(f), "NETLINK"} \ {"NONE"}
                                               /\ "NETLINK" \notin applied'[t]
    <3>1. call[t].via \in Readers /\ Usable(call[t].fd)
      BY <2>6 DEF Lookup, Reading, ReadingInv
    <3>2. Settled(call[t].fd)
      BY <3>1 DEF Settled, Usable
    <3>3. applied'[t] = {get_fd_type(call[t].fd)} \ {"NONE"}
      BY DEF Lookup, TypeOK
    <3>4. ~(NlFound(t)')
      BY <2>3 DEF Lookup, NlFound, TypeOK
    <3>5. call[t].fd \in Slots => g_fd_table[call[t].fd] \in SensitiveFile
      BY DEF TypeOK
    <3> QED BY <3>2, <3>3, <3>4, <3>5 DEF TableInv, get_fd_type, SensitiveFile
  <2> QED BY <2>1, <2>2, <2>3, <2>4, <2>5, <2>6 DEF ReadingInv, Lookup, Reading
<1>7. AppliedInv'
  BY DEF TypeOK, AppliedInv, Reading, Lookup
<1>8. QED BY <1>1, <1>2, <1>3, <1>4, <1>5, <1>6, <1>7

LEMMA LookupNlStep ==
  ASSUME IInv, NEW t \in Threads, LookupNl(t)
  PROVE  IInv'
<1> USE FdAssumption, FileAssumption, ClassifyType DEF IInv
<1>1. TypeOK'
  BY DEF TypeOK, kernel, tables, Steps, Sanitizers, LookupNl
<1>2. OneOwner'
  BY DEF OneOwner, Opening, Closing, Busy, kernel, LookupNl
<1>3. OpeningInv'
  BY DEF OpeningInv, Opening, kernel, tables, reads, Sanitizers, LookupNl
<1>4. ClosingInv'
  BY DEF ClosingInv, Closing, tables, LookupNl
<1>5. TableInv'
  BY DEF TableInv, Settled, Type, Nl, Opening, Closing, Busy, kernel, tables, LookupNl
<1>6. ReadingInv'
  <2>1. \A u \in Threads : (Reading(u)' => Reading(u)) /\ (u # t => pc'[u] = pc[u])
    BY DEF LookupNl, TypeOK, Reading
  <2>2. \A g : (Usable(g)' <=> Usable(g)) /\ Type(g)' = Type(g) /\ (Nl(g)' <=> Nl(g))
    BY DEF LookupNl, Usable, Type, Nl, kernel, Busy, Opening, Closing
  <2>3. /\ UNCHANGED <<call, raced, file, bypassed>>
        /\ \A u \in Threads : u # t => applied'[u] = applied[u]
    BY DEF LookupNl, TypeOK, kernel, tables
  <2>4. \A u \in Threads : TypeFound(u)' <=> TypeFound(u)
    BY <2>1, <2>3 DEF TypeFound, LookupNl, TypeOK
  <2>5. \A u \in Threads : NlFound(u)' => u = t \/ NlFound(u)
    BY <2>1, <2>3 DEF NlFound
  <2>6. ASSUME t \notin raced
        PROVE  LET f == call[t].fd
               IN /\ applied[t] \subseteq applied'[t]
                  /\ f \in Slots /\ Nl(f) => "NETLINK" \in applied'[t]
                  /\ f \in Slots \ bypassed => /\ applied'[t] \subseteq {Type(f), "NETLINK"} \ {"NONE"}
                                               /\ "NETLINK" \in applied'[t] => Nl(f)
    <3>1. call[t].via \in Readers /\ Usable(call[t].fd)
      BY <2>6 DEF LookupNl, Reading, ReadingInv
    <3>2. Settled(call[t].fd)
      BY <3>1 DEF Settled, Usable
    <3>3. applied'[t] = IF is_nl_socket(call[t].fd) THEN applied[t] \cup {"NETLINK"} ELSE applied[t]
      BY DEF LookupNl, TypeOK
    <3>4. call[t].fd \in Slots \ bypassed =>
             /\ applied[t] \subseteq {Type(call[t].fd), "NETLINK"} \ {"NONE"}
             /\ "NETLINK" \in applied[t] => Nl(call[t].fd)
      BY <2>6 DEF LookupNl, Reading, ReadingInv
    <3> QED BY <3>2, <3>3, <3>4 DEF TableInv, is_nl_socket
  <2> QED BY <2>1, <2>2, <2>3, <2>4, <2>5, <2>6 DEF ReadingInv, LookupNl, Reading
<1>7. AppliedInv'
  BY DEF AppliedInv, Reading, LookupNl
<1>8. QED BY <1>1, <1>2, <1>3, <1>4, <1>5, <1>6, <1>7

LEMMA ReadReturnStep ==
  ASSUME IInv, NEW t \in Threads, ReadReturn(t)
  PROVE  IInv'
<1> USE FdAssumption, FileAssumption, ClassifyType DEF IInv
<1>1. TypeOK'
  BY DEF TypeOK, kernel, tables, Steps, ReadReturn, GoTo
<1>2. OneOwner'
  BY DEF OneOwner, Opening, Closing, Busy, kernel, ReadReturn, GoTo
<1>3. OpeningInv'
  BY DEF OpeningInv, Opening, kernel, tables, reads, Sanitizers, ReadReturn, GoTo
<1>4. ClosingInv'
  BY DEF ClosingInv, Closing, tables, ReadReturn, GoTo
<1>5. TableInv'
  BY DEF TableInv, Settled, Type, Nl, Opening, Closing, Busy, kernel, tables,
     ReadReturn, GoTo
<1>6. ReadingInv'
  BY DEF TypeOK, ReadingInv, AppliedInv, Usable, TypeFound, NlFound, Settled, Type, Nl,
     Opening, Closing, Reading, Busy, kernel, tables, reads, Sanitizers, ReadReturn,
     GoTo
<1>7. AppliedInv'
  BY DEF TypeOK, AppliedInv, Reading, ReadReturn, GoTo
<1>8. QED BY <1>1, <1>2, <1>3, <1>4, <1>5, <1>6, <1>7

LEMMA Stutter ==
  ASSUME IInv, UNCHANGED vars
  PROVE  IInv'
<1> USE FdAssumption, FileAssumption, ClassifyType DEF IInv
<1>1. TypeOK'
  BY DEF TypeOK, vars
<1>2. OneOwner'
  BY DEF OneOwner, Opening, Closing, Busy, vars
<1>3. OpeningInv'
  BY DEF OpeningInv, Opening, vars
<1>4. ClosingInv'
  BY DEF ClosingInv, Closing, vars
<1>5. TableInv'
  BY DEF TableInv, Settled, Type, Nl, Opening, Closing, Busy, vars
<1>6. ReadingInv'
  BY DEF ReadingInv, Usable, TypeFound, NlFound, Type, Nl, Opening, Closing, Reading,
     Busy, vars
<1>7. AppliedInv'
  BY DEF AppliedInv, Reading, vars
<1>8. QED BY <1>1, <1>2, <1>3, <1>4, <1>5, <1>6, <1>7

-----------------------------------------------------------------------------
(* Every variable keeps its type, and the invariant on which the other theorems
   rest holds, whatever the order in which threads and JNI_OnLoad take steps. *)
THEOREM Invariance == Spec => []IInv
<1>1. Init => IInv
  <2> USE FdAssumption, FileAssumption DEF Init
  <2>1. Init => TypeOK
    BY DEF TypeOK, Steps, SensitiveFile
  <2>2. Init => OneOwner /\ OpeningInv /\ ClosingInv /\ ReadingInv /\ AppliedInv
    BY DEF OneOwner, OpeningInv, ClosingInv, ReadingInv, AppliedInv, Busy, Opening,
       Closing, Reading
  <2>3. Init => TableInv
    BY DEF TableInv, Type, Nl, Slots
  <2> QED BY <2>1, <2>2, <2>3 DEF IInv
<1>2. IInv /\ [Next]_vars => IInv'
  <2> SUFFICES ASSUME IInv, [Next]_vars PROVE IInv'
    OBVIOUS
  <2>1. ASSUME NEW ok \in BOOLEAN, InstallHook(ok) PROVE IInv'
    BY <2>1, InstallStep
  <2>2. ASSUME NEW t \in Threads, NEW via \in Openers, NEW p \in Paths, Open(t, via, p) PROVE IInv'
    BY <2>2, OpenStep
  <2>3. ASSUME NEW t \in Threads, Track(t) PROVE IInv'
    BY <2>3, TrackStep
  <2>4. ASSUME NEW t \in Threads, NEW s \in Sockets, Socket(t, s) PROVE IInv'
    BY <2>4, SocketStep
  <2>5. ASSUME NEW t \in Threads, TrackNl(t) PROVE IInv'
    BY <2>5, TrackNlStep
  <2>6. ASSUME NEW t \in Threads, NEW via \in Closers, NEW f \in Fd, Close(t, via, f) PROVE IInv'
    BY <2>6, CloseStep
  <2>7. ASSUME NEW t \in Threads, Untrack(t) PROVE IInv'
    BY <2>7, UntrackStep
  <2>8. ASSUME NEW t \in Threads, UntrackNl(t) PROVE IInv'
    BY <2>8, UntrackNlStep
  <2>9. ASSUME NEW t \in Threads, OrigClose(t) PROVE IInv'
    BY <2>9, OrigCloseStep
  <2>10. ASSUME NEW t \in Threads, NEW via \in Readers, NEW f \in Fd, OrigRead(t, via, f) PROVE IInv'
    BY <2>10, OrigReadStep
  <2>11. ASSUME NEW t \in Threads, Lookup(t) PROVE IInv'
    BY <2>11, LookupStep
  <2>12. ASSUME NEW t \in Threads, LookupNl(t) PROVE IInv'
    BY <2>12, LookupNlStep
  <2>13. ASSUME NEW t \in Threads, ReadReturn(t) PROVE IInv'
    BY <2>13, ReadReturnStep
  <2>14. CASE UNCHANGED vars
    BY <2>14, Stutter
  <2> QED BY <2>1, <2>2, <2>3, <2>4, <2>5, <2>6, <2>7, <2>8, <2>9, <2>10,
             <2>11, <2>12, <2>13, <2>14 DEF Next
<1> QED BY <1>1, <1>2, PTL DEF Spec

(* Every variable keeps its type; the tables keep their size. *)
THEOREM TypeCorrect == Spec => []TypeOK
  BY Invariance, PTL DEF IInv

(* The tables agree with the kernel about every descriptor that hook_close has
   seen released and that no hook is in the middle of changing. *)
THEOREM TablesFollow == Spec => []TablesFollowKernel
<1>1. IInv => TablesFollowKernel
  BY DEF IInv, TableInv, TablesFollowKernel
<1> QED BY <1>1, Invariance, PTL

(* A read of what a hook opened is delivered through the sanitizer meant for it,
   at every stage of the installation. *)
THEOREM ReadsSanitized == Spec => []SensitiveReadsSanitized
<1>1. IInv => SensitiveReadsSanitized
  <2> SUFFICES ASSUME IInv, NEW t \in Threads, Delivered(t), hooked[call[t].fd],
                      NEW z \in Meant(call[t].file) \cap Reach(t)
               PROVE  z \in applied[t]
    BY DEF SensitiveReadsSanitized, MeantFor
  <2>1. /\ Reading(t) /\ t \notin raced /\ pc[t] = "return" /\ call[t].fd \in Slots
        /\ file[call[t].fd] = call[t].file
    BY DEF Delivered, Reading, IInv, ReadingInv
  <2>2. CASE call[t].file \in Paths
    <3>1. z = classify_path(call[t].file) /\ z # "NONE" /\ z = Type(call[t].fd)
      BY <2>1, <2>2 DEF Meant, Type
    <3>2. z # "NETLINK"
      BY <3>1, ClassifyType DEF SensitiveFile
    <3>3. call[t].via \in FileReaders
      BY <3>2 DEF Reach
    <3> QED BY <2>1, <3>1, <3>3 DEF IInv, ReadingInv, TypeFound
  <2>3. CASE call[t].file = RouteSock /\ call[t].file \notin Paths
    <3>1. z = "NETLINK" /\ Nl(call[t].fd)
      BY <2>1, <2>3 DEF Meant, Nl
    <3>2. call[t].via \in NlReaders
      BY <3>1 DEF Reach
    <3> QED BY <2>1, <3>1, <3>2 DEF IInv, ReadingInv, NlFound
  <2> QED BY <2>2, <2>3 DEF Meant
<1> QED BY <1>1, Invariance, PTL

(* Data of another kind passes a read untouched unless its descriptor was once
   released past hook_close. *)
THEOREM OthersUntouched == Spec => []OtherReadsUntouched
<1>1. IInv => OtherReadsUntouched
  <2> SUFFICES ASSUME IInv, NEW t \in Threads, Delivered(t), call[t].fd \notin bypassed,
                      NEW z \in applied[t]
               PROVE  z \in MeantFor(t)
    BY DEF OtherReadsUntouched
  <2>1. /\ Reading(t) /\ t \notin raced /\ call[t].fd \in Slots \ bypassed
        /\ file[call[t].fd] = call[t].file
    BY DEF Delivered, Reading, IInv, ReadingInv
  <2>2. /\ applied[t] \subseteq {Type(call[t].fd), "NETLINK"} \ {"NONE"}
        /\ "NETLINK" \in applied[t] => Nl(call[t].fd)
    BY <2>1 DEF IInv, ReadingInv
  <2>3. CASE z = "NETLINK"
    BY <2>1, <2>2, <2>3, FileAssumption DEF Nl, MeantFor, Meant, Sockets
  <2>4. CASE z = Type(call[t].fd) /\ z # "NONE"
    BY <2>1, <2>4 DEF Type, MeantFor, Meant
  <2> QED BY <2>2, <2>3, <2>4
<1> QED BY <1>1, Invariance, PTL
=============================================================================
