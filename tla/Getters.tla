------------------------------- MODULE Getters -------------------------------
(***************************************************************************)
(* The getters of processes on Linux, those of memory on every platform,   *)
(* and the conversions getters and callers apply to what they read.  They  *)
(* share no state, so a behaviour is that of one of the three.             *)
(***************************************************************************)
EXTENDS ProcReader, MemGetters, ArgBuffers, Formats

CONSTANTS Arguments, Environments, Lists,  \* sets of sequences of strings
          Sizes, Usages, Seconds, Messages

\* Sizes are of 64 bits, so that no more than 16 exbibytes fit; a file system
\* has no more free space than space; addresses have Full bytes and ports two.
ASSUME GettersAssumption ==
  /\ \A size \in Sizes : size \in Nat /\ Shifted(size + 1, 6) <= 16
  /\ \A u \in Usages : u \in Nat \X Nat \X Nat /\ u[2] <= u[1]
  /\ Seconds \subseteq Nat
  /\ Messages \subseteq Sockets

VARIABLES part,
          sample,       \* what is converted
          shown         \* into what, or "nothing" yet

getterVars == <<part, vars, memVars, sample, shown>>

NoSample == [kind |-> "none"]

\* What the kernel keeps of a Darwin process: the path, padding, arguments,
\* environment, an empty string and strings of its own.
Stack(args, env, pad) ==
  Encode(<< <<"a">> >>) \o [i \in 1..pad |-> NUL] \o Encode(args) \o Encode(env)
    \o Encode(<< << >>, <<"b", "=", "a">> >>)

Samples ==
  [kind : {"cmdline"}, args : Arguments]
    \cup [kind : {"environ"}, env : Environments]
    \cup {[kind |-> "procargs", args |-> a, env |-> e, pad |-> p, cut |-> c, failed |-> FALSE] :
            a \in Arguments, e \in Environments, p \in 0..2, c \in 0..20}
    \cup {[kind |-> "procargs", args |-> a, env |-> e, pad |-> 0, cut |-> 0, failed |-> TRUE] :
            a \in Arguments, e \in Environments}
    \cup [kind : {"list"}, strings : Lists, pad : 1..3]
    \cup [kind : {"size"}, size : Sizes]
    \cup [kind : {"usage"}, usage : Usages]
    \cup [kind : {"seconds"}, n : Seconds]
    \cup [kind : {"sockets"}, m : Messages, n : Messages]

Converted(s) ==
  CASE s.kind = "cmdline" -> LinuxArgs(Encode(s.args))
    [] s.kind = "environ" -> LinuxEnv(Encode(s.env))
    [] s.kind = "procargs" ->
         LET stack == Stack(s.args, s.env, s.pad)
         IN  kern_procargs(s.failed, Len(s.args), SubSeq(stack, 1, Len(stack) - Min({s.cut, Len(stack)})))
    [] s.kind = "list" ->
         UTF16SliceToStringSlice(Encode(s.strings) \o [i \in 1..s.pad |-> NUL])
    [] s.kind = "size" -> <<FormatSize(s.size), FormatSize(s.size + 1)>>
    [] s.kind = "usage" -> UsePercent(s.usage[1], s.usage[2], s.usage[3])
    [] s.kind = "seconds" -> <<UptimeFormat(s.n), FormatTotal(1000 * s.n + 999)>>
    [] s.kind = "sockets" -> <<Written(s.m), Written(s.n), FastHash(s.m), FastHash(s.n)>>

Convert ==
  /\ shown = <<"nothing">>
  /\ shown' = <<"text", Converted(sample)>>
  /\ UNCHANGED sample

GettersInit ==
  /\ part \in {"process", "memory", "conversion"}
  /\ Init /\ MemInit
  /\ part # "process" => process = (CHOOSE p \in Processes : p.life = 1 /\ p.state = "run") /\ getter = "ProcState"
  /\ part # "memory" => free = 0 /\ inactive = 0 /\ swapUsed = 0 /\ memGetter = "LinuxMem"
  /\ sample \in IF part = "conversion" THEN Samples ELSE {NoSample}
  /\ shown = <<"nothing">>

GettersNext ==
  /\ UNCHANGED part
  /\ \/ part = "process" /\ Next /\ UNCHANGED <<memVars, sample, shown>>
     \/ part = "memory" /\ MemNext /\ UNCHANGED <<vars, sample, shown>>
     \/ part = "conversion" /\ Convert /\ UNCHANGED <<vars, memVars>>

GettersSpec == GettersInit /\ [][GettersNext]_getterVars

-----------------------------------------------------------------------------

Shows(kind) == shown # <<"nothing">> /\ sample.kind = kind

Text == shown[2]

\* ProcArgs and ProcExe on Darwin, and ProcArgs on Linux, return the arguments
\* as they were given, empty ones in their places.  Of a buffer that ends
\* early kern_procargs returns no argument and no variable that was not there,
\* and nothing that the kernel keeps behind the environment; nor does it when
\* the kernel refuses, though no error says so.  A process whose first argument
\* is empty is the exception: its NUL passes for padding.
ArgumentsSurvive ==
  /\ Shows("cmdline") => Text = sample.args
  /\ Shows("procargs") /\ sample.args # << >> /\ Head(sample.args) # << >>
       /\ (\A i \in DOMAIN sample.env : Places(sample.env[i], "=") # {}) =>
       LET env == [i \in DOMAIN sample.env |-> <<KeyOf(sample.env[i]), ValueOf(sample.env[i])>>]
       IN  /\ IsPrefix(Text.args, sample.args)
           /\ IsPrefix(Text.env, env)
           /\ Text.env # << >> => Text.args = sample.args
           /\ sample.cut = 0 /\ ~sample.failed => Text = Outcome(<<"a">>, sample.args, env, FALSE)

\* ProcEnv on Linux: a variable has the value it was given last, with any "="
\* in it; a string that is no assignment costs no other variable.
VariablesSurvive ==
  Shows("environ") =>
    \A i \in DOMAIN sample.env : \A k \in 1..Len(sample.env[i]) :
      LET name == SubSeq(sample.env[i], 1, k - 1)
          Assigns(j) == IsPrefix(name \o <<"=">>, sample.env[j])
      IN  name # << >> /\ ToSet(name) \cap {"=", " "} = {} /\ Assigns(i)
            /\ (\A j \in i + 1..Len(sample.env) : ~Assigns(j))
            => /\ name \in DOMAIN Text
               /\ Text[name] = TrimSpace(SubSeq(sample.env[i], k + 1, Len(sample.env[i])))

\* A list that a Windows call returned in a buffer of zeros comes out as it
\* went in.
ListsSurvive == Shows("list") => Text = sample.strings

\* What FormatSize prints is at most four characters wide, off by no more than
\* half of its last digit and what the units below the last 1024 are worth, and
\* never smaller for a larger size, across every change of unit and of precision.
SizesReadRight ==
  Shows("size") =>
    LET t == Text[1]
        unit == Unit(t.order)
        last == IF t.tenths = -1 THEN 10 ELSE 1
        error == 10 * sample.size - Magnitude(t) * unit
    IN  /\ t.whole < 1000 /\ (t.tenths # -1 => t.whole < 10 /\ t.tenths < 10)
        /\ t.order = 0 => error = 0
        /\ t.order > 0 => /\ 2 * error <= last * unit + 20 * Unit(t.order - 1)
                          /\ -(2 * error) <= last * unit + 20 * Unit(t.order - 1)
        /\ Magnitude(t) * unit <= Magnitude(Text[2]) * Unit(Text[2].order)

\* p is the least whole percentage that covers the use.
Covers(p, used, avail) ==
  /\ p * (used + avail) >= 100 * used
  /\ p > 0 => (p - 1) * (used + avail) < 100 * used

\* UsePercent is the floating-point form of the least whole percentage that
\* covers the use, so that only a disk with nothing available is full and only
\* an unused one is empty.
PercentCoversUse ==
  Shows("usage") =>
    LET used == (sample.usage[1] - sample.usage[2]) \div Kb
        avail == sample.usage[3] \div Kb
    IN  used + avail # 0 => \E p \in 0..100 : Covers(p, used, avail) /\ Text = Float64(p)

\* What UsePercent returns (sigar_format.go 74) is within one unit in the last
\* place of the least whole percentage that covers the use.  No more holds: for
\* 29 the division and the multiplication leave 28.999999999999996.
PercentIsNear ==
  Shows("usage") =>
    LET used == (sample.usage[1] - sample.usage[2]) \div Kb
        avail == sample.usage[3] \div Kb
    IN  used + avail # 0 =>
          \E p \in 0..100 : /\ Covers(p, used, avail)
                            /\ p * 2^Text.bits - Text.m \in -1..1

\* The units of Uptime.Format add up to the uptime, those of FormatTotal to the
\* time of the last day.
UnitsAddUp ==
  Shows("seconds") =>
    /\ Text[1].days * 86400 + Text[1].hours * 3600 + Text[1].minutes * 60 = 60 * (sample.n \div 60)
    /\ Text[1].hours < 24
    /\ Text[2].hh * 3600 + Text[2].mm * 60 + Text[2].ss = sample.n % 86400

\* FastHash hashes the ends of the connection and nothing else: two sockets have
\* the same hash if their addresses and ports are the same, whatever is behind
\* an IPv4 address; if they differ, so do the bytes that are hashed, and only a
\* collision of FNV-1 can hide it.
SocketsToldApart ==
  Shows("sockets") =>
    LET Ends(m) == LET n == IF m.family = "AF_INET" THEN V4 ELSE Full
                   IN  [src |-> SubSeq(m.src, 1, n), dst |-> SubSeq(m.dst, 1, n),
                        sport |-> m.sport, dport |-> m.dport]
    IN  /\ (Text[1] = Text[2]) <=> (Ends(sample.m) = Ends(sample.n))
        /\ Ends(sample.m) = Ends(sample.n) => Text[3] = Text[4]

\* Every variable of the getters of processes and of memory has its type.
GettersTypeOK == TypeOK /\ MemTypeOK

\* A getter that succeeds, of a process or of memory, has set its fields from
\* what it read in this call, also in a receiver that is used again.
SuccessIsOfThisCall == SuccessIsCurrent /\ MemSuccessIsCurrent

\* Strings that went into a buffer come out of it, on Linux, Darwin and Windows.
StringsSurvive == ArgumentsSurvive /\ VariablesSurvive /\ ListsSurvive

\* What a size, a usage, a time or a socket is converted into stands for it,
\* next to every change of unit and every limit of a range.
ConversionsAgree == SizesReadRight /\ PercentCoversUse /\ UnitsAddUp /\ SocketsToldApart

=============================================================================
