------------------------------- MODULE Formats -------------------------------
(***************************************************************************)
(* sigar_format.go: what the formatting functions print, as the numbers    *)
(* that appear in the text; and the key by which sys/linux/inetdiag.go     *)
(* tells sockets apart.                                                    *)
(***************************************************************************)
EXTENDS Integers, Sequences

CONSTANTS Kb,           \* 1024 in UsePercent
          Bits,         \* bits of the mantissa of a float64, 53
          Full, V4,     \* bytes of an address in inet_diag_sockid, of an IPv4 one
          Sum64(_)      \* FNV-1 of a string of bytes; two may have the same

ASSUME FormatsAssumption ==
  Kb \in Nat \ {0} /\ Bits \in Nat \ {0} /\ Full \in Nat /\ V4 \in 1..Full

\* size after o rounds of FormatSize's loop, which shifts it by ten bits each.
Shifted(size, o) ==
  LET k == size \div 1024  m == k \div 1024  g == m \div 1024
      t == g \div 1024     p == t \div 1024  e == p \div 1024
  IN  <<size, k, m, g, t, p, e>>[o + 1]

\* The round in which the loop ends: the first that leaves fewer than 973.
Order(size) ==
  CHOOSE o \in 1..6 : Shifted(size, o) < 973 /\ \A p \in 1..(o - 1) : Shifted(size, p) >= 973

\* Variant: a tenth that rounds up to ten is not carried.
CarryNever(whole, tenths) == [whole |-> whole, tenths |-> tenths % 10]

Carry(whole, tenths) ==
  IF tenths >= 10 THEN [whole |-> whole + 1, tenths |-> 0]
                  ELSE [whole |-> whole, tenths |-> tenths]

\* What is printed of a number of the unit below: tenths is -1 when none are.
Shown(number) ==
  LET whole  == number \div 1024
      remain == number % 1024
  IN  IF whole < 9 \/ (whole = 9 /\ remain < 973)
        THEN Carry(whole, (remain * 5 + 256) \div 512)
        ELSE [whole |-> whole + (IF remain >= 512 THEN 1 ELSE 0), tenths |-> -1]

FormatSize(size) ==
  IF size < 973 THEN [order |-> 0, whole |-> size, tenths |-> -1]
  ELSE LET shown == Shown(Shifted(size, Order(size) - 1))
       IN  [order |-> Order(size), whole |-> shown.whole, tenths |-> shown.tenths]

\* 1024^order.
Unit(order) ==
  CASE order = 0 -> 1
    [] order = 1 -> 1024
    [] order = 2 -> 1024 * 1024
    [] order = 3 -> 1024 * 1024 * 1024
    [] order = 4 -> 1024 * 1024 * 1024 * 1024
    [] order = 5 -> 1024 * 1024 * 1024 * 1024 * 1024
    [] order = 6 -> 1024 * 1024 * 1024 * 1024 * 1024 * 1024

\* In tenths of a unit.
Magnitude(t) == t.whole * 10 + (IF t.tenths = -1 THEN 0 ELSE t.tenths)

RoundUp(u100, utotal) == u100 \div utotal + (IF u100 % utotal # 0 THEN 1 ELSE 0)

\* n / d rounded to the nearest integer, to the even one of two.
RoundEven(n, d) ==
  LET q == n \div d  r == n % d
  IN  q + (IF 2 * r > d \/ (2 * r = d /\ q % 2 = 1) THEN 1 ELSE 0)

\* Variant: the quotient is one of integers.
DivideFirst(pct) == [m |-> (pct \div 100) * 100, bits |-> 0]

\* (float64(pct) / 100) * 100.0, for a pct up to 100: both operations round to
\* a mantissa of Bits bits.  The number is m / 2^bits.
Float64(pct) ==
  IF pct = 0 THEN [m |-> 0, bits |-> 0]
  ELSE LET k == CHOOSE k \in Bits - 1..Bits + 6 :
                  100 * 2^(Bits - 1) <= pct * 2^k /\ pct * 2^k < 100 * 2^Bits
           hundredth == RoundEven(pct * 2^k, 100)
           j == CHOOSE j \in 0..7 :
                  2^(Bits - 1 + j) <= 100 * hundredth /\ 100 * hundredth < 2^(Bits + j)
       IN  [m |-> RoundEven(100 * hundredth, 2^j), bits |-> k - j]

UsePercent(total, free, avail) ==
  LET used   == (total - free) \div Kb
      utotal == used + avail \div Kb
  IN  Float64(IF utotal # 0 THEN RoundUp(used * 100, utotal) ELSE 0)

HoursOfDay(minutes) == (minutes \div 60) % 24

UptimeFormat(uptime) ==
  [days |-> uptime \div 86400, hours |-> HoursOfDay(uptime \div 60), minutes |-> (uptime \div 60) % 60]

\* ProcTime.FormatTotal, of milliseconds.
FormatTotal(total) ==
  LET t == total \div 1000
  IN  [hh |-> (t \div 3600) % 24, mm |-> (t \div 60) % 60, ss |-> t % 60]

\* The ends of a connection in inet_diag_sockid, and their family.
Sockets ==
  [family : {"AF_INET", "AF_INET6"}, src : [1..Full -> Nat], dst : [1..Full -> Nat],
   sport : [1..2 -> Nat], dport : [1..2 -> Nat]]

ipBytes(data, af) == IF af = "AF_INET" THEN SubSeq(data, 1, V4) ELSE data

\* The bytes that FastHash writes to the hash.
Written(m) == ipBytes(m.src, m.family) \o ipBytes(m.dst, m.family) \o m.sport \o m.dport

FastHash(m) == Sum64(Written(m))

=============================================================================
