------------------------------ MODULE ArgBuffers ------------------------------
(***************************************************************************)
(* The buffers of NUL-terminated strings that the operating systems hand   *)
(* out, and how the getters take them apart: the arguments and environment *)
(* of a process on Linux (sigar_linux_common.go) and Darwin                *)
(* (sigar_darwin.go, kern_procargs), the string lists of the Windows API   *)
(* (sys/windows/syscall_windows.go).  A string is a sequence of            *)
(* characters, a buffer one in which NUL may occur.                        *)
(***************************************************************************)
EXTENDS Naturals, FiniteSets, SequencesExt

NUL == "NUL"

\* Every string is followed by a NUL.
Encode(strings) == FlattenSeq([i \in DOMAIN strings |-> Append(strings[i], NUL)])

Places(buffer, c) == {i \in DOMAIN buffer : buffer[i] = c}

\* bytes.Split(buffer, {0}): one string more than there are NULs.
Split(buffer) ==
  LET nuls == Places(buffer, NUL)
      Nth(n) == CHOOSE i \in nuls : Cardinality({j \in nuls : j <= i}) = n
      last == Cardinality(nuls) + 1
  IN  [n \in 1..last |-> SubSeq(buffer, IF n = 1 THEN 1 ELSE Nth(n - 1) + 1,
                                        IF n = last THEN Len(buffer) ELSE Nth(n) - 1)]

\* ReadBytes(0) until io.EOF, each string chopped of its NUL: what follows the
\* last NUL is dropped.
ReadAll(buffer) == Front(Split(buffer))

LinuxArgs(buffer) == ReadAll(buffer)

TrimSpace(s) ==
  LET solid == {i \in DOMAIN s : s[i] # " "}
  IN  IF solid = {} THEN << >> ELSE SubSeq(s, Min(solid), Max(solid))

\* bytes.SplitN(s, "=", 2) of a string that has one.
KeyOf(s) == SubSeq(s, 1, Min(Places(s, "=")) - 1)

ValueOf(s) == SubSeq(s, Min(Places(s, "=")) + 1, Len(s))

\* ProcEnv.Get on Linux: strings without "=" or with a blank key are passed
\* over, a later value of a key replaces an earlier one.
LinuxEnv(buffer) ==
  LET pairs == SelectSeq(Split(buffer),
                 LAMBDA s : Places(s, "=") # {} /\ TrimSpace(KeyOf(s)) # << >>)
      Keys == {TrimSpace(KeyOf(pairs[i])) : i \in DOMAIN pairs}
  IN  [k \in Keys |->
         TrimSpace(ValueOf(pairs[Max({i \in DOMAIN pairs : TrimSpace(KeyOf(pairs[i])) = k})]))]

Outcome(exe, args, env, err) == [exe |-> exe, args |-> args, env |-> env, err |-> err]

\* Variant: the strings the kernel puts behind the environment are read too.
EnvLinesAll(strings) == SelectSeq(strings, LAMBDA s : s # << >>)

\* The loop over the environment stops at an empty string.
EnvLines(strings) ==
  LET empty == {i \in DOMAIN strings : strings[i] = << >>}
  IN  IF empty = {} THEN strings ELSE SubSeq(strings, 1, Min(empty) - 1)

\* kern_procargs: the path, NULs, argc arguments, the environment.  When sysctl
\* fails there is nothing of all this, and no error either.
kern_procargs(failed, argc, buffer) ==
  LET nuls == Places(buffer, NUL)
      solid == {i \in DOMAIN buffer : buffer[i] # NUL /\ i > Min(nuls)}
  IN  IF failed THEN Outcome(<< >>, << >>, << >>, FALSE)
      ELSE IF nuls = {} THEN Outcome(<< >>, << >>, << >>, TRUE)
      ELSE LET exe == SubSeq(buffer, 1, Min(nuls) - 1)
           IN  IF solid = {} THEN Outcome(exe, << >>, << >>, TRUE)
               ELSE LET strings == ReadAll(SubSeq(buffer, Min(solid), Len(buffer)))
                        n == Min({argc, Len(strings)})
                        lines == EnvLines(SubSeq(strings, n + 1, Len(strings)))
                        bad == {i \in DOMAIN lines : Places(lines[i], "=") = {}}
                        env == IF bad = {} THEN lines ELSE SubSeq(lines, 1, Min(bad) - 1)
                    IN  Outcome(exe, SubSeq(strings, 1, n),
                                [i \in DOMAIN env |-> <<KeyOf(env[i]), ValueOf(env[i])>>], bad # {})

UTF16SliceToStringSlice(buffer) == SelectSeq(ReadAll(buffer), LAMBDA s : s # << >>)

=============================================================================
