------------------------------ MODULE InetDiag ------------------------------
(***************************************************************************)
(* sys/linux/inetdiag.go, netlink.go: NetlinkInetDiagWithBuf asks the      *)
(* kernel for all TCP sockets and collects a dump that arrives in several  *)
(* datagrams, while other programs open and close sockets.                 *)
(*                                                                         *)
(* A socket is the number of its place in the kernel's table, which the    *)
(* dump walks once.  That a socket keeps its place is an idealisation: the *)
(* kernel resumes a dump by bucket and by index within the bucket, so a    *)
(* socket closed between two datagrams may shift its neighbours.  Lengths  *)
(* are counted in messages: a datagram of more than BufMsgs does not fit   *)
(* readBuf, and Recvfrom keeps BufMsgs whole messages and possibly a piece *)
(* of the next one.                                                        *)
(***************************************************************************)
EXTENDS Integers, Sequences, FiniteSets

CONSTANTS Slots,        \* number of places in the kernel's table
          KernelMsgs,   \* bound: messages the kernel puts into one datagram
          BufMsgs,      \* messages that fit readBuf
          Errnos,       \* what the kernel may answer instead of a dump
          Word          \* 2^32

ASSUME DumpAssumption ==
  /\ Slots \in Nat
  /\ KernelMsgs \in Nat \ {0}
  /\ BufMsgs \in Nat
  /\ Word \in Nat \ {0}
  /\ Errnos \subseteq 1..Word - 1

VARIABLES
  pc,           \* where the call is
  fd,           \* the netlink socket is open
  batch,        \* the sockets of the datagram that are not handled yet
  last,         \* what follows them in the datagram: "more" (nothing), "DONE" or "ERROR"
  data,         \* the first word of an ERROR message, or TooShort
  inetDiagMsgs, \* the sockets collected so far
  result,       \* the error, or "ok"
  errno,        \* the NetlinkErrno of a result "netlink"
  table,        \* the places of the kernel's table in use
  cursor,       \* the place the dump continues at, beyond Slots + 1 when over
  answer,       \* history: the errno the kernel answered with, or 0
  steady,       \* history: the places in use all the time since the request
  ever,         \* history: the places in use at some time since the request
  cut           \* history: a datagram did not fit readBuf

\* The data of a message that has fewer than four bytes.
TooShort == -1

caller == <<pc, fd, batch, last, data, inetDiagMsgs, result, errno>>
kernel == <<table, cursor, answer, steady, ever>>
vars == <<caller, kernel, cut>>

Init ==
  /\ pc = "socket" /\ fd = FALSE /\ batch = {} /\ last = "more" /\ data = 0
  /\ inetDiagMsgs = <<>> /\ result = "pending" /\ errno = 0
  /\ table \in SUBSET (1..Slots) /\ cursor = 1 /\ answer = 0
  /\ steady = {} /\ ever = {} /\ cut = FALSE

-----------------------------------------------------------------------------
(* NetlinkInetDiagWithBuf *)

\* A return, with the deferred Close of the socket.
Return(r) ==
  /\ pc' = "returned"
  /\ result' = r
  /\ fd' = FALSE

Socket ==
  /\ pc = "socket"
  /\ \/ pc' = "send" /\ fd' = TRUE /\ UNCHANGED result
     \/ Return("socket")
  /\ UNCHANGED <<batch, last, data, inetDiagMsgs, errno, kernel, cut>>

\* The request reaches the kernel, which begins its dump, or Sendto fails.
Sendto ==
  /\ pc = "send"
  /\ \/ /\ pc' = "recv" /\ steady' = table /\ ever' = table
        /\ UNCHANGED <<fd, result>>
     \/ Return("sendto") /\ UNCHANGED <<steady, ever>>
  /\ UNCHANGED <<batch, last, data, inetDiagMsgs, errno, table, cursor, answer, cut>>

\* The sockets that the kernel's walk meets before place upto.
Walk(upto) == {s \in table : cursor <= s /\ s < upto}

MsgCount(upto, end) == Cardinality(Walk(upto)) + (IF end = "DONE" THEN 1 ELSE 0)

\* The kernel continues its walk up to place upto and ends the dump when it has
\* passed the last one and the datagram has room for that message.
Datagram(upto, end) ==
  /\ end = "DONE" => upto = Slots + 1
  /\ MsgCount(upto, end) \in 1..KernelMsgs
  /\ cursor' = IF end = "DONE" THEN Slots + 2 ELSE upto
  /\ UNCHANGED <<table, answer, steady, ever>>

\* The datagram fits: all of it is parsed.
Recvfrom ==
  /\ pc = "recv"
  /\ \E upto \in cursor..Slots + 1, end \in {"more", "DONE"} :
       /\ Datagram(upto, end)
       /\ MsgCount(upto, end) <= BufMsgs
       /\ batch' = Walk(upto)
       /\ last' = end
  /\ pc' = "handle"
  /\ UNCHANGED <<fd, data, inetDiagMsgs, result, errno, cut>>

\* The datagram does not fit and the buffer ends less than a header after a
\* message: the rest, the end of the dump included, is gone without a trace.
RecvfromCut ==
  /\ pc = "recv"
  /\ BufMsgs > 0
  /\ \E upto \in cursor..Slots + 1, end \in {"more", "DONE"} :
       /\ Datagram(upto, end)
       /\ MsgCount(upto, end) > BufMsgs
       /\ batch' \in {kept \in SUBSET Walk(upto) :
                        /\ Cardinality(kept) = BufMsgs
                        /\ \A s \in kept, t \in Walk(upto) \ kept : s < t}
  /\ last' = "more"
  /\ cut' = TRUE
  /\ pc' = "handle"
  /\ UNCHANGED <<fd, data, inetDiagMsgs, result, errno>>

\* Recvfrom fails or returns less than a header, resp.Write fails, or
\* ParseNetlinkMessage does because the buffer ends within a message.
RecvfromError ==
  /\ pc = "recv"
  /\ Return("recvfrom")
  /\ UNCHANGED <<batch, last, data, inetDiagMsgs, errno, kernel, cut>>

\* The kernel answers the request with an error: as the word -e, or in a
\* message too short to hold it.
RecvfromAnswer ==
  /\ pc = "recv"
  /\ cursor = 1
  /\ BufMsgs > 0
  /\ \E e \in Errnos :
       /\ answer' = e
       /\ data' \in {Word - e, TooShort}
  /\ batch' = {}
  /\ last' = "ERROR"
  /\ cursor' = Slots + 2
  /\ pc' = "handle"
  /\ UNCHANGED <<fd, inetDiagMsgs, result, errno, table, steady, ever, cut>>

\* Variant: the message is not stepped over.
HandleSocketAgain ==
  /\ pc = "handle"
  /\ \E s \in batch :
       /\ \A t \in batch : s <= t
       /\ inetDiagMsgs' = Append(inetDiagMsgs, s)
  /\ UNCHANGED <<pc, fd, batch, last, data, result, errno, kernel, cut>>

\* The next message is a socket, which ParseInetDiagMsg copies out.
HandleSocket ==
  /\ pc = "handle"
  /\ \E s \in batch :
       /\ \A t \in batch : s <= t
       /\ inetDiagMsgs' = Append(inetDiagMsgs, s)
       /\ batch' = batch \ {s}
  /\ UNCHANGED <<pc, fd, last, data, result, errno, kernel, cut>>

\* The next message is too short for a socket: what was collected is lost.
ParseInetDiagMsgError ==
  /\ pc = "handle"
  /\ batch # {}
  /\ Return("parse")
  /\ UNCHANGED <<batch, last, data, inetDiagMsgs, errno, kernel, cut>>

\* Variant: DONE ends the datagram, not the dump.
HandleDoneMore ==
  /\ pc = "handle"
  /\ batch = {}
  /\ last = "DONE"
  /\ pc' = "recv"
  /\ UNCHANGED <<fd, batch, last, data, inetDiagMsgs, result, errno, kernel, cut>>

HandleDone ==
  /\ pc = "handle"
  /\ batch = {}
  /\ last = "DONE"
  /\ Return("ok")
  /\ UNCHANGED <<batch, last, data, inetDiagMsgs, errno, kernel, cut>>

\* Variant: the sign of the word is kept.
ParseNetlinkErrorSigned(d) ==
  IF d # TooShort THEN [err |-> "netlink", errno |-> d]
                  ELSE [err |-> "short", errno |-> 0]

\* errno := -Uint32(data[:4]), in 32 bits, if there are four bytes.
ParseNetlinkError(d) ==
  IF d # TooShort THEN [err |-> "netlink", errno |-> (Word - d) % Word]
                  ELSE [err |-> "short", errno |-> 0]

HandleError ==
  /\ pc = "handle"
  /\ batch = {}
  /\ last = "ERROR"
  /\ errno' = ParseNetlinkError(data).errno
  /\ Return(ParseNetlinkError(data).err)
  /\ UNCHANGED <<batch, last, data, inetDiagMsgs, kernel, cut>>

\* Variant: a datagram without DONE ends the dump.
EndOfDatagramReturns ==
  /\ pc = "handle"
  /\ batch = {}
  /\ last = "more"
  /\ Return("ok")
  /\ UNCHANGED <<batch, last, data, inetDiagMsgs, errno, kernel, cut>>

EndOfDatagram ==
  /\ pc = "handle"
  /\ batch = {}
  /\ last = "more"
  /\ pc' = "recv"
  /\ UNCHANGED <<fd, batch, last, data, inetDiagMsgs, result, errno, kernel, cut>>

\* The call, as far as every datagram can be received and parsed.
Progress ==
  \/ Socket \/ Sendto
  \/ Recvfrom \/ RecvfromCut \/ RecvfromAnswer
  \/ HandleSocket \/ HandleDone \/ HandleError \/ EndOfDatagram

NetlinkInetDiagWithBuf == Progress \/ RecvfromError \/ ParseInetDiagMsgError

-----------------------------------------------------------------------------
(* Other programs *)

OpenSocket ==
  /\ \E s \in 1..Slots \ table :
       /\ table' = table \cup {s}
       /\ ever' = IF pc \in {"recv", "handle"} THEN ever \cup {s} ELSE ever
  /\ UNCHANGED <<caller, cursor, answer, steady, cut>>

CloseSocket ==
  /\ \E s \in table :
       /\ table' = table \ {s}
       /\ steady' = IF pc \in {"recv", "handle"} THEN steady \ {s} ELSE steady
  /\ UNCHANGED <<caller, cursor, answer, ever, cut>>

Next == NetlinkInetDiagWithBuf \/ OpenSocket \/ CloseSocket

Spec == Init /\ [][Next]_vars

-----------------------------------------------------------------------------

Returned(r) == pc = "returned" /\ result = r

Collected == {inetDiagMsgs[i] : i \in DOMAIN inetDiagMsgs}

\* Every variable holds a value of its kind, the descriptor is open exactly
\* between Socket and the return, and only a datagram in hand has messages.
TypeOK ==
  /\ pc \in {"socket", "send", "recv", "handle", "returned"}
  /\ fd \in BOOLEAN /\ (fd <=> pc \in {"send", "recv", "handle"})
  /\ batch \subseteq 1..Slots
  /\ last \in {"more", "DONE", "ERROR"}
  /\ data \in 0..Word - 1 \cup {TooShort}
  /\ inetDiagMsgs \in Seq(1..Slots)
  /\ result \in {"pending", "ok", "socket", "sendto", "recvfrom", "parse", "netlink", "short"}
  /\ errno \in 0..Word - 1
  /\ table \subseteq 1..Slots
  /\ cursor \in 1..Slots + 2
  /\ answer \in 0..Word - 1
  /\ steady \subseteq 1..Slots
  /\ ever \subseteq 1..Slots
  /\ cut \in BOOLEAN
  /\ result = "pending" <=> pc # "returned"
  /\ pc = "recv" => batch = {}
  /\ pc # "returned" => steady \subseteq table

\* A dump that succeeds names every socket that existed all the time, however
\* sockets come and go and however the dump is divided into datagrams, provided
\* that each datagram fits readBuf.
CompleteDump == Returned("ok") /\ ~cut => steady \subseteq Collected

\* Each socket is named once, in the order of the table, and existed at some
\* time during the call; this holds for a truncated dump as well.
SoundDump ==
  /\ \A i, j \in DOMAIN inetDiagMsgs : i < j => inetDiagMsgs[i] < inetDiagMsgs[j]
  /\ Collected \subseteq ever

\* A result says what the kernel said: its errno, with the sign put right in
\* 32 bits, is the error of the call, and a dump it refused fails for that
\* reason, even if the errno cannot be read, and never succeeds.
ErrorIsReported ==
  /\ Returned("netlink") => answer # 0 /\ errno = answer
  /\ pc = "returned" /\ answer # 0 => result \in {"netlink", "short"}

\* As long as every datagram fits readBuf the call returns: the loop stops at
\* the end of the dump and never waits for a datagram that does not come.
CallReturns == <>(pc = "returned" \/ cut)

=============================================================================
