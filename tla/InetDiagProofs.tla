---------------------------- MODULE InetDiagProofs ----------------------------
(***************************************************************************)
(* Proofs about InetDiag for any number of sockets, any division into      *)
(* datagrams and any size of the buffer.                                   *)
(***************************************************************************)
EXTENDS InetDiag, TLAPS

\* Before the request nothing has happened.
Fresh ==
  pc \in {"socket", "send"} =>
    /\ cursor = 1 /\ batch = {} /\ inetDiagMsgs = <<>> /\ answer = 0 /\ last = "more"
    /\ steady = {}

\* How the end of a datagram goes with the state of the dump.
EndInv ==
  /\ pc = "recv" => last = "more"
  /\ last = "DONE" => cursor = Slots + 2
  /\ answer # 0 => last = "ERROR" /\ batch = {} /\ data \in {Word - answer, TooShort}
  /\ last = "ERROR" => answer # 0
  /\ Returned("ok") => last = "DONE" /\ batch = {}
  /\ Returned("netlink") => answer # 0 /\ errno = answer
  /\ pc = "returned" /\ answer # 0 => result \in {"netlink", "short"}

\* The sockets collected, those in hand and those to come follow each other in
\* the table.
OrderInv ==
  /\ \A i, j \in DOMAIN inetDiagMsgs : i < j => inetDiagMsgs[i] < inetDiagMsgs[j]
  /\ \A i \in DOMAIN inetDiagMsgs : inetDiagMsgs[i] < cursor
  /\ \A i \in DOMAIN inetDiagMsgs : \A t \in batch : inetDiagMsgs[i] < t
  /\ \A t \in batch : t < cursor

\* The dump has met only sockets that existed, and every steady one that it has
\* passed is collected or in hand.
WalkInv ==
  /\ Collected \subseteq ever /\ batch \subseteq ever
  /\ pc \in {"recv", "handle"} => table \subseteq ever
  /\ ~cut /\ answer = 0 =>
       \A s \in steady : s < cursor => s \in Collected \/ s \in batch

DumpInv == TypeOK /\ Fresh /\ EndInv /\ OrderInv /\ WalkInv

-----------------------------------------------------------------------------

\* Appending a socket adds it to what is collected.
LEMMA CollectedAppend ==
  ASSUME inetDiagMsgs \in Seq(1..Slots), NEW s \in 1..Slots,
         inetDiagMsgs' = Append(inetDiagMsgs, s)
  PROVE  /\ Collected' = Collected \cup {s}
         /\ inetDiagMsgs' \in Seq(1..Slots)
         /\ DOMAIN inetDiagMsgs = 1..Len(inetDiagMsgs)
         /\ DOMAIN inetDiagMsgs' = 1..(Len(inetDiagMsgs) + 1)
         /\ Len(inetDiagMsgs) \in Nat
         /\ \A i \in 1..Len(inetDiagMsgs) : inetDiagMsgs'[i] = inetDiagMsgs[i]
         /\ inetDiagMsgs'[Len(inetDiagMsgs) + 1] = s
<1>1. /\ inetDiagMsgs' \in Seq(1..Slots)
      /\ DOMAIN inetDiagMsgs = 1..Len(inetDiagMsgs)
      /\ DOMAIN inetDiagMsgs' = 1..(Len(inetDiagMsgs) + 1)
      /\ Len(inetDiagMsgs) \in Nat
      /\ \A i \in 1..Len(inetDiagMsgs) : inetDiagMsgs'[i] = inetDiagMsgs[i]
      /\ inetDiagMsgs'[Len(inetDiagMsgs) + 1] = s
  OBVIOUS
<1>2. \A x : x \in Collected' <=> x \in Collected \cup {s}
  BY <1>1 DEF Collected
<1> QED
  BY <1>1, <1>2

\* The call begins with the invariant.
LEMMA InitDump == Init => DumpInv
<1> SUFFICES ASSUME Init PROVE DumpInv
  OBVIOUS
<1>1. TypeOK
  <2>1. <<>> \in Seq(1..Slots)
    OBVIOUS
  <2>2. inetDiagMsgs \in Seq(1..Slots)
    BY <2>1 DEF Init
  <2>3. 0 \in 0..Word - 1 /\ 1 \in 1..Slots + 2
    BY DumpAssumption
  <2> QED
    BY <2>2, <2>3, Zenon DEF Init, TypeOK
<1>2. Fresh /\ EndInv /\ OrderInv
  BY DumpAssumption DEF Init, Fresh, EndInv, OrderInv, Returned
<1>3. WalkInv
  BY DEF Init, WalkInv, Collected
<1> QED
  BY <1>1, <1>2, <1>3 DEF DumpInv

\* A datagram that fits is taken whole.
LEMMA RecvfromDump == DumpInv /\ Recvfrom => DumpInv'
<1> SUFFICES ASSUME DumpInv, Recvfrom PROVE DumpInv'
  OBVIOUS
<1> USE DumpAssumption DEF DumpInv
<1>1. PICK upto \in cursor..Slots + 1, end \in {"more", "DONE"} :
        /\ Datagram(upto, end) /\ batch' = Walk(upto) /\ last' = end
  BY DEF Recvfrom
<1>2. /\ pc = "recv" /\ pc' = "handle" /\ batch = {} /\ last = "more"
      /\ UNCHANGED <<fd, data, inetDiagMsgs, result, errno, cut, table, answer, steady, ever>>
  BY <1>1 DEF Recvfrom, Datagram, TypeOK, EndInv
<1>3. /\ cursor \in Nat /\ cursor' \in Nat /\ upto \in Nat /\ cursor <= upto /\ upto <= cursor'
      /\ cursor' \in 1..Slots + 2 /\ (end = "DONE" => upto = Slots + 1 /\ cursor' = Slots + 2)
      /\ (end = "more" => cursor' = upto)
  BY <1>1 DEF Datagram, TypeOK
<1>4. \A t \in batch' : t \in table /\ t \in 1..Slots /\ cursor <= t /\ t < upto
  BY <1>1, <1>2 DEF Walk, TypeOK
<1>5. TypeOK'
  BY <1>1, <1>2, <1>3, <1>4 DEF TypeOK
<1>6. Fresh' /\ EndInv'
  BY <1>1, <1>2, <1>3 DEF Fresh, EndInv, Returned, TypeOK
<1>7. OrderInv'
  <2>1. \A i \in DOMAIN inetDiagMsgs : inetDiagMsgs[i] \in Nat /\ inetDiagMsgs[i] < cursor
    BY DEF OrderInv, TypeOK
  <2> QED
    BY <1>2, <1>3, <1>4, <2>1 DEF OrderInv
<1>8. WalkInv'
  <2>1. Collected' = Collected
    BY <1>2 DEF Collected
  <2>2. batch' \subseteq ever' /\ Collected' \subseteq ever' /\ table' \subseteq ever'
    BY <1>2, <1>4, <2>1 DEF WalkInv
  <2>3. ASSUME ~cut', answer' = 0, NEW s \in steady', s < cursor'
        PROVE  s \in Collected' \/ s \in batch'
    <3>1. s \in steady /\ s \in table /\ s \in 1..Slots
      BY <1>2, <2>3 DEF TypeOK
    <3>2. CASE s < cursor
      BY <1>2, <2>1, <2>3, <3>1, <3>2 DEF WalkInv
    <3>3. CASE cursor <= s
      <4>1. s < upto
        BY <1>3, <2>3, <3>1
      <4> QED
        BY <1>1, <3>1, <3>3, <4>1 DEF Walk
    <3> QED
      BY <1>3, <3>1, <3>2, <3>3
  <2> QED
    BY <1>2, <2>2, <2>3 DEF WalkInv
<1> QED
  BY <1>5, <1>6, <1>7, <1>8

\* Of a datagram that does not fit only a part is taken; nothing is claimed of
\* what is missing.
LEMMA RecvfromCutDump == DumpInv /\ RecvfromCut => DumpInv'
<1> SUFFICES ASSUME DumpInv, RecvfromCut PROVE DumpInv'
  OBVIOUS
<1> USE DumpAssumption DEF DumpInv
<1>1. PICK upto \in cursor..Slots + 1, end \in {"more", "DONE"} :
        Datagram(upto, end) /\ batch' \subseteq Walk(upto)
  BY DEF RecvfromCut
<1>2. /\ pc = "recv" /\ pc' = "handle" /\ last' = "more" /\ cut' = TRUE /\ batch = {} /\ last = "more"
      /\ UNCHANGED <<fd, data, inetDiagMsgs, result, errno, table, answer, steady, ever>>
  BY <1>1 DEF RecvfromCut, Datagram, TypeOK, EndInv
<1>3. /\ cursor \in Nat /\ cursor' \in Nat /\ upto \in Nat /\ cursor <= upto /\ upto <= cursor'
      /\ cursor' \in 1..Slots + 2
  BY <1>1 DEF Datagram, TypeOK
<1>4. \A t \in batch' : t \in table /\ t \in 1..Slots /\ cursor <= t /\ t < upto
  BY <1>1, <1>2 DEF Walk, TypeOK
<1>5. TypeOK'
  BY <1>2, <1>3, <1>4 DEF TypeOK
<1>6. Fresh' /\ EndInv'
  BY <1>2 DEF Fresh, EndInv, Returned, TypeOK
<1>7. OrderInv'
  <2>1. \A i \in DOMAIN inetDiagMsgs : inetDiagMsgs[i] \in Nat /\ inetDiagMsgs[i] < cursor
    BY DEF OrderInv, TypeOK
  <2> QED
    BY <1>2, <1>3, <1>4, <2>1 DEF OrderInv
<1>8. WalkInv'
  <2>1. Collected' = Collected
    BY <1>2 DEF Collected
  <2> QED
    BY <1>2, <1>4, <2>1 DEF WalkInv
<1> QED
  BY <1>5, <1>6, <1>7, <1>8

\* A socket goes from the datagram to the list.
LEMMA HandleSocketDump == DumpInv /\ HandleSocket => DumpInv'
<1> SUFFICES ASSUME DumpInv, HandleSocket PROVE DumpInv'
  OBVIOUS
<1> USE DEF DumpInv
<1>1. PICK s \in batch : /\ \A t \in batch : s <= t
                         /\ inetDiagMsgs' = Append(inetDiagMsgs, s)
                         /\ batch' = batch \ {s}
  BY DEF HandleSocket
<1>2. /\ pc = "handle"
      /\ UNCHANGED <<pc, fd, last, data, result, errno, table, cursor, answer, steady, ever, cut>>
  BY DEF HandleSocket, kernel
<1>3. s \in 1..Slots /\ inetDiagMsgs \in Seq(1..Slots) /\ batch \subseteq 1..Slots
  BY DEF TypeOK
<1>4. /\ Collected' = Collected \cup {s}
      /\ inetDiagMsgs' \in Seq(1..Slots)
      /\ DOMAIN inetDiagMsgs = 1..Len(inetDiagMsgs)
      /\ DOMAIN inetDiagMsgs' = 1..(Len(inetDiagMsgs) + 1)
      /\ Len(inetDiagMsgs) \in Nat
      /\ \A i \in 1..Len(inetDiagMsgs) : inetDiagMsgs'[i] = inetDiagMsgs[i]
      /\ inetDiagMsgs'[Len(inetDiagMsgs) + 1] = s
  BY <1>1, <1>3, CollectedAppend
<1>5. TypeOK'
  BY <1>1, <1>2, <1>4 DEF TypeOK
<1>6. Fresh' /\ EndInv'
  BY <1>1, <1>2 DEF Fresh, EndInv, Returned, TypeOK
<1>7. OrderInv'
  <2>1. \A i \in DOMAIN inetDiagMsgs : inetDiagMsgs[i] < s /\ inetDiagMsgs[i] < cursor
    BY <1>1 DEF OrderInv
  <2>2. s < cursor /\ \A t \in batch' : s < t /\ t < cursor
    BY <1>1, <1>3 DEF OrderInv
  <2>3. \A i, j \in DOMAIN inetDiagMsgs' : i < j => inetDiagMsgs'[i] < inetDiagMsgs'[j]
    BY <1>4, <2>1 DEF OrderInv
  <2>4. \A i \in DOMAIN inetDiagMsgs' : inetDiagMsgs'[i] < cursor'
    BY <1>2, <1>4, <2>1, <2>2
  <2>5. \A i \in DOMAIN inetDiagMsgs' : \A t \in batch' : inetDiagMsgs'[i] < t
    BY <1>1, <1>4, <2>2 DEF OrderInv
  <2> QED
    BY <1>2, <2>2, <2>3, <2>4, <2>5 DEF OrderInv
<1>8. WalkInv'
  BY <1>1, <1>2, <1>4 DEF WalkInv
<1> QED
  BY <1>5, <1>6, <1>7, <1>8

\* Every other step of the call leaves the list, and all but its returns and
\* the answer of the kernel the datagram.
LEMMA OtherDump ==
  DumpInv /\ (Socket \/ Sendto \/ RecvfromError \/ RecvfromAnswer \/ HandleDone
                \/ HandleError \/ EndOfDatagram \/ ParseInetDiagMsgError) => DumpInv'
<1> SUFFICES ASSUME DumpInv,
                    Socket \/ Sendto \/ RecvfromError \/ RecvfromAnswer \/ HandleDone
                      \/ HandleError \/ EndOfDatagram \/ ParseInetDiagMsgError
             PROVE  DumpInv'
  OBVIOUS
<1> USE DumpAssumption DEF DumpInv
<1>1. CASE Socket
  <2>1. TypeOK'
    BY <1>1, Zenon DEF Socket, Return, TypeOK, kernel
  <2>2. Fresh' /\ EndInv' /\ OrderInv'
    BY <1>1 DEF Socket, Return, TypeOK, kernel, Fresh, EndInv, OrderInv, Returned
  <2>3. WalkInv'
    BY <1>1 DEF Socket, Return, TypeOK, kernel, Fresh, WalkInv, Collected
  <2> QED
    BY <2>1, <2>2, <2>3
<1>2. CASE Sendto
  <2>1. TypeOK'
    BY <1>2, Zenon DEF Sendto, Return, TypeOK, Fresh
  <2>2. Fresh' /\ EndInv' /\ OrderInv'
    BY <1>2, Zenon DEF Sendto, Return, TypeOK, Fresh, EndInv, OrderInv, Returned
  <2>3. Collected = {} /\ Collected' = {} /\ batch' = {} /\ cursor' = 1
    BY <1>2 DEF Sendto, Fresh, Collected
  <2>4. pc' \in {"recv", "handle"} => table' \subseteq ever'
    BY <1>2 DEF Sendto, Return
  <2>5. \A s \in steady' : s \in 1..Slots
    BY <2>1 DEF TypeOK
  <2> QED
    BY <2>1, <2>2, <2>3, <2>4, <2>5 DEF WalkInv
<1>3. CASE RecvfromError
  <2>1. TypeOK'
    BY <1>3, Zenon DEF RecvfromError, Return, TypeOK, kernel
  <2>2. Fresh' /\ EndInv' /\ OrderInv'
    BY <1>3 DEF RecvfromError, Return, TypeOK, kernel, Fresh, EndInv, OrderInv, Returned
  <2>3. WalkInv'
    BY <1>3 DEF RecvfromError, Return, kernel, WalkInv, Collected
  <2> QED
    BY <2>1, <2>2, <2>3
<1>4. CASE RecvfromAnswer
  <2>1. PICK e \in Errnos : answer' = e /\ data' \in {Word - e, TooShort}
    BY <1>4 DEF RecvfromAnswer
  <2>2. e \in 1..Word - 1 /\ Word - e \in 0..Word - 1
    BY <2>1
  <2>3. TypeOK'
    BY <1>4, <2>1, <2>2 DEF RecvfromAnswer, TypeOK
  <2>4. Fresh' /\ EndInv'
    BY <1>4, <2>1, <2>2, <2>3 DEF RecvfromAnswer, TypeOK, Fresh, EndInv, Returned
  <2>5. OrderInv'
    BY <1>4 DEF RecvfromAnswer, TypeOK, OrderInv
  <2>6. WalkInv'
    BY <1>4, <2>1, <2>2 DEF RecvfromAnswer, WalkInv, Collected
  <2> QED
    BY <2>3, <2>4, <2>5, <2>6
<1>5. CASE HandleDone
  <2>1. TypeOK'
    BY <1>5, Zenon DEF HandleDone, Return, TypeOK, kernel
  <2>2. Fresh' /\ EndInv' /\ OrderInv'
    BY <1>5 DEF HandleDone, Return, TypeOK, kernel, Fresh, EndInv, OrderInv, Returned
  <2>3. WalkInv'
    BY <1>5 DEF HandleDone, Return, kernel, WalkInv, Collected
  <2> QED
    BY <2>1, <2>2, <2>3
<1>6. CASE HandleError
  <2>1. answer \in 1..Word - 1 /\ data \in {Word - answer, TooShort}
    BY <1>6 DEF HandleError, EndInv, TypeOK
  <2>2. data # TooShort => (Word - data) % Word = answer
    BY <2>1
  <2>3. \/ result' = "netlink" /\ errno' = answer
        \/ result' = "short" /\ errno' = 0
    <3>1. CASE data = TooShort
      BY <1>6, <3>1 DEF HandleError, ParseNetlinkError, Return
    <3>2. CASE data # TooShort
      BY <1>6, <2>2, <3>2 DEF HandleError, ParseNetlinkError, Return
    <3> QED
      BY <3>1, <3>2
  <2>7. errno' \in 0..Word - 1
    BY <2>1, <2>3
  <2>4. TypeOK'
    BY <1>6, <2>3, <2>7, Zenon DEF HandleError, Return, TypeOK, kernel
  <2>5. Fresh' /\ EndInv' /\ OrderInv'
    BY <1>6, <2>1, <2>3 DEF HandleError, Return, TypeOK, kernel, Fresh, EndInv, OrderInv, Returned
  <2>6. WalkInv'
    BY <1>6 DEF HandleError, Return, kernel, WalkInv, Collected
  <2> QED
    BY <2>4, <2>5, <2>6
<1>7. CASE EndOfDatagram
  <2>1. TypeOK'
    BY <1>7 DEF EndOfDatagram, TypeOK, kernel
  <2>2. Fresh' /\ EndInv' /\ OrderInv'
    BY <1>7 DEF EndOfDatagram, TypeOK, kernel, Fresh, EndInv, OrderInv, Returned
  <2>3. WalkInv'
    BY <1>7 DEF EndOfDatagram, kernel, WalkInv, Collected
  <2> QED
    BY <2>1, <2>2, <2>3
<1>8. CASE ParseInetDiagMsgError
  <2>1. TypeOK'
    BY <1>8, Zenon DEF ParseInetDiagMsgError, Return, TypeOK, kernel
  <2>2. Fresh' /\ EndInv' /\ OrderInv'
    BY <1>8, ZenonT(30) DEF ParseInetDiagMsgError, Return, TypeOK, kernel, Fresh, EndInv, OrderInv, Returned
  <2>3. WalkInv'
    BY <1>8 DEF ParseInetDiagMsgError, Return, kernel, WalkInv, Collected
  <2> QED
    BY <2>1, <2>2, <2>3
<1> QED
  BY <1>1, <1>2, <1>3, <1>4, <1>5, <1>6, <1>7, <1>8

\* Sockets that come and go disturb neither the order nor what is steady.
LEMMA TableDump == DumpInv /\ (OpenSocket \/ CloseSocket) => DumpInv'
<1> SUFFICES ASSUME DumpInv, OpenSocket \/ CloseSocket PROVE DumpInv'
  OBVIOUS
<1> USE DEF DumpInv
<1>1. /\ UNCHANGED <<pc, fd, batch, last, data, inetDiagMsgs, result, errno, cursor, answer, cut>>
      /\ table' \subseteq 1..Slots /\ steady' \subseteq steady /\ ever \subseteq ever'
      /\ ever' \subseteq 1..Slots
      /\ pc # "returned" => steady' \subseteq table'
      /\ pc \in {"recv", "handle"} => table' \subseteq ever'
  <2>1. CASE OpenSocket
    BY <2>1 DEF OpenSocket, caller, TypeOK, WalkInv
  <2>2. CASE CloseSocket
    <3>1. PICK s \in table : /\ table' = table \ {s}
                             /\ steady' = IF pc \in {"recv", "handle"} THEN steady \ {s} ELSE steady
      BY <2>2 DEF CloseSocket
    <3>2. pc \in {"socket", "send"} => steady = {}
      BY DEF Fresh
    <3> QED
      BY <2>2, <3>1, <3>2 DEF CloseSocket, caller, TypeOK, WalkInv
  <2> QED
    BY <2>1, <2>2
<1>2. TypeOK'
  BY <1>1 DEF TypeOK
<1>3. Fresh' /\ EndInv' /\ OrderInv'
  BY <1>1 DEF Fresh, EndInv, OrderInv, Returned
<1>4. WalkInv'
  BY <1>1, Zenon DEF WalkInv, Collected
<1> QED
  BY <1>2, <1>3, <1>4

\* Every step keeps the invariant.
LEMMA NextDump == DumpInv /\ [Next]_vars => DumpInv'
<1> SUFFICES ASSUME DumpInv, [Next]_vars PROVE DumpInv'
  OBVIOUS
<1>1. CASE NetlinkInetDiagWithBuf
  BY <1>1, RecvfromDump, RecvfromCutDump, HandleSocketDump, OtherDump DEF NetlinkInetDiagWithBuf, Progress
<1>2. CASE OpenSocket \/ CloseSocket
  BY <1>2, TableDump
<1>3. CASE UNCHANGED vars
  BY <1>3 DEF vars, caller, kernel, DumpInv, TypeOK, Fresh, EndInv, OrderInv, WalkInv, Returned, Collected
<1> QED
  BY <1>1, <1>2, <1>3 DEF Next

\* The invariant holds throughout.
LEMMA DumpInvariant == Spec => []DumpInv
  BY InitDump, NextDump, PTL DEF Spec

-----------------------------------------------------------------------------

\* NetlinkInetDiagWithBuf is well typed and closes its socket on every return.
THEOREM TypeCorrect == Spec => []TypeOK
<1>1. DumpInv => TypeOK
  BY DEF DumpInv
<1> QED
  BY <1>1, DumpInvariant, PTL

\* A dump that succeeds without truncation has every socket that existed all
\* along.
THEOREM DumpIsComplete == Spec => []CompleteDump
<1>1. DumpInv => CompleteDump
  <2> SUFFICES ASSUME DumpInv, Returned("ok"), ~cut, NEW s \in steady PROVE s \in Collected
    BY DEF CompleteDump
  <2>1. cursor = Slots + 2 /\ batch = {} /\ answer = 0 /\ s \in 1..Slots
    BY DEF DumpInv, EndInv, TypeOK
  <2>2. s < cursor
    BY <2>1, DumpAssumption
  <2> QED
    BY <2>1, <2>2 DEF DumpInv, WalkInv
<1> QED
  BY <1>1, DumpInvariant, PTL

\* No socket is named twice, out of order, or without having existed.
THEOREM DumpIsSound == Spec => []SoundDump
<1>1. DumpInv => SoundDump
  BY DEF DumpInv, OrderInv, WalkInv, SoundDump
<1> QED
  BY <1>1, DumpInvariant, PTL

\* The error of the kernel is the error of the call, for every width of the
\* word.
THEOREM ErrorsCorrect == Spec => []ErrorIsReported
<1>1. DumpInv => ErrorIsReported
  BY DEF DumpInv, EndInv, ErrorIsReported
<1> QED
  BY <1>1, DumpInvariant, PTL

=============================================================================
