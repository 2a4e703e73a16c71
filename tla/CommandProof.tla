---------------------------- MODULE CommandProof ----------------------------
(***************************************************************************)
(* Proofs about Command, for any texts on the command line, in the         *)
(* environment and in the configuration file, and any profiles that are    *)
(* asked for.                                                              *)
(*                                                                         *)
(* RunInv is inductive.  Its parts have no variable in common but the      *)
(* phase: FlagsInv for the parser and the sources of the flag, ProfilerInv *)
(* for the profiles and their closers, and the types of the rest.          *)
(***************************************************************************)
EXTENDS Command, SequenceTheorems, WellFoundedInduction, TLAPS

(* A set of natural numbers that is not empty has a least one.             *)
LEMMA LeastNat ==
    ASSUME NEW T, T \subseteq Nat, T # {}
    PROVE  \E m \in T : \A k \in T : m <= k
<1>1. IsWellFoundedOn(OpToRel(<, Nat), Nat)
  BY NatLessThanWellFounded
<1>2. PICK m \in T : \A k \in T : ~(<<k, m>> \in OpToRel(<, Nat))
  BY <1>1, WFMin
<1>3. \A k \in T : k \in Nat /\ m \in Nat /\ ~(k < m)
  BY <1>2 DEF OpToRel
<1> QED
  BY <1>3

(* Induction over the natural numbers, for a set rather than a predicate.  *)
LEMMA NatInd ==
    ASSUME NEW S, 0 \in S, \A m \in Nat : m \in S => m + 1 \in S
    PROVE  Nat \subseteq S
<1> SUFFICES ASSUME Nat \ S # {} PROVE FALSE
  OBVIOUS
<1>1. PICK m \in Nat \ S : \A k \in Nat \ S : m <= k
  BY LeastNat
<1>2. m # 0 /\ m - 1 \in Nat /\ m - 1 \in S
  BY <1>1
<1>3. m - 1 + 1 \in S
  BY <1>2
<1> QED
  BY <1>1, <1>3

(* flat[j] is the first j of the sequences joined, up to m.                *)
Joined(ss, T, flat, m) ==
    /\ flat \in [1 .. m -> Seq(T)]
    /\ \A j \in 1 .. m : flat[j] = IF j = 1 THEN ss[j] ELSE flat[j - 1] \o ss[j]

(* One more sequence is joined.                                            *)
LEMMA JoinMore ==
    ASSUME NEW T, NEW ss \in Seq(Seq(T)), NEW m \in Nat, m + 1 <= Len(ss),
           NEW flat, Joined(ss, T, flat, m)
    PROVE  \E more : Joined(ss, T, more, m + 1)
<1> DEFINE more == [j \in 1 .. m + 1 |-> IF j = 1 THEN ss[j] ELSE flat[j - 1] \o ss[j]]
<1>0. /\ \A j \in 1 .. m + 1 : more[j] = IF j = 1 THEN ss[j] ELSE flat[j - 1] \o ss[j]
      /\ more = [j \in 1 .. m + 1 |-> more[j]]
  OBVIOUS
<1> HIDE DEF more
<1>1. ASSUME NEW j \in 1 .. m PROVE more[j] = flat[j]
  <2>1. flat[j] = IF j = 1 THEN ss[j] ELSE flat[j - 1] \o ss[j]
    BY DEF Joined
  <2>2. j \in 1 .. m + 1
    OBVIOUS
  <2> QED
    BY <2>1, <2>2, <1>0, Zenon
<1>2. ASSUME NEW j \in 1 .. m + 1
      PROVE  more[j] \in Seq(T) /\ more[j] = IF j = 1 THEN ss[j] ELSE more[j - 1] \o ss[j]
  <2>1. ss[j] \in Seq(T)
    OBVIOUS
  <2>2. CASE j = 1
    BY <2>1, <2>2, <1>0
  <2>3. CASE j # 1
    <3>1. j - 1 \in 1 .. m
      BY <2>3
    <3>2. flat[j - 1] \in Seq(T)
      BY <3>1 DEF Joined
    <3>3. more[j] = flat[j - 1] \o ss[j] /\ more[j - 1] = flat[j - 1]
      BY <3>1, <2>3, <1>0, <1>1, Zenon
    <3>4. more[j] = more[j - 1] \o ss[j]
      BY <3>3, Zenon
    <3>5. flat[j - 1] \o ss[j] \in Seq(T)
      BY <3>2, <2>1
    <3> QED
      BY <3>3, <3>4, <3>5, <2>3, Zenon
  <2> QED
    BY <2>2, <2>3
<1>4. Joined(ss, T, more, m + 1)
  BY <1>0, <1>2 DEF Joined
<1> QED
  BY <1>4

(* Sequences of words that are flattened are a sequence of words.          *)
LEMMA FlattenSeqType ==
    ASSUME NEW T, NEW ss \in Seq(Seq(T))
    PROVE  FlattenSeq(ss) \in Seq(T)
<1>1. CASE Len(ss) = 0
  BY <1>1 DEF FlattenSeq
<1>2. CASE Len(ss) # 0
  <2> DEFINE size == Len(ss)
             U == {m \in Nat : m <= size => \E flat : Joined(ss, T, flat, m)}
  <2>1. size \in Nat \ {0}
    BY <1>2
  <2>2. 0 \in U
    <3>1. Joined(ss, T, [j \in 1 .. 0 |-> <<>>], 0)
      BY DEF Joined
    <3> QED
      BY <3>1
  <2>3. ASSUME NEW m \in Nat, m \in U PROVE m + 1 \in U
    <3> SUFFICES ASSUME m + 1 <= size PROVE \E more : Joined(ss, T, more, m + 1)
      OBVIOUS
    <3>1. PICK flat : Joined(ss, T, flat, m)
      BY <2>3, <2>1
    <3> QED
      BY <3>1, JoinMore
  <2>4. size \in U
    <3> HIDE DEF U
    <3>1. Nat \subseteq U
      BY <2>2, <2>3, NatInd
    <3> QED
      BY <3>1, <2>1
  <2>5. PICK g : Joined(ss, T, g, size)
    BY <2>4, <2>1
  <2> DEFINE flatten == CHOOSE f : f = [j \in 1 .. size |-> IF j = 1 THEN ss[j] ELSE f[j - 1] \o ss[j]]
  <2>6. g = [j \in 1 .. size |-> IF j = 1 THEN ss[j] ELSE g[j - 1] \o ss[j]]
    BY <2>5 DEF Joined
  <2>7. flatten = [j \in 1 .. size |-> IF j = 1 THEN ss[j] ELSE flatten[j - 1] \o ss[j]]
    BY <2>6
  <2>8. FlattenSeq(ss) = flatten[size]
    BY <1>2 DEF FlattenSeq
  <2> HIDE DEF flatten
  <2> DEFINE W == {m \in Nat : m + 1 <= size => flatten[m + 1] \in Seq(T)}
  <2>9. \A j \in 1 .. size : flatten[j] = IF j = 1 THEN ss[j] ELSE flatten[j - 1] \o ss[j]
    BY <2>7
  <2>10. 0 \in W
    BY <2>1, <2>9
  <2>11. ASSUME NEW m \in Nat, m \in W PROVE m + 1 \in W
    <3> SUFFICES ASSUME m + 1 + 1 <= size PROVE flatten[m + 1 + 1] \in Seq(T)
      OBVIOUS
    <3> DEFINE l == m + 1 + 1
    <3>1. l \in 1 .. size /\ l - 1 = m + 1 /\ l # 1
      BY <2>1
    <3>2. flatten[l - 1] \in Seq(T) /\ ss[l] \in Seq(T)
      BY <2>11, <2>1, <3>1
    <3> HIDE DEF l
    <3>3. flatten[l] = flatten[l - 1] \o ss[l]
      BY <3>1, <2>9
    <3>4. flatten[l] \in Seq(T)
      BY <3>2, <3>3
    <3> QED
      BY <3>4 DEF l
  <2>12. size - 1 \in W
    <3> HIDE DEF W
    <3>1. Nat \subseteq W
      BY <2>10, <2>11, NatInd
    <3> QED
      BY <3>1, <2>1
  <2> QED
    BY <2>8, <2>12, <2>1
<1> QED
  BY <1>1, <1>2

(* Appending an element, and what the sequence then holds.                 *)
LEMMA AppendFacts ==
    ASSUME NEW T, NEW s \in Seq(T), NEW x \in T
    PROVE  /\ Append(s, x) \in Seq(T) /\ Append(s, x) # <<>>
           /\ Range(Append(s, x)) = Range(s) \cup {x}
<1>1. /\ Append(s, x) \in Seq(T) /\ Append(s, x) # <<>> /\ Len(Append(s, x)) = Len(s) + 1
      /\ Len(s) \in Nat /\ DOMAIN s = 1 .. Len(s) /\ DOMAIN Append(s, x) = 1 .. Len(s) + 1
      /\ Append(s, x)[Len(s) + 1] = x /\ \A j \in 1 .. Len(s) : Append(s, x)[j] = s[j]
  OBVIOUS
<1>2. Range(Append(s, x)) = Range(s) \cup {x}
  BY <1>1 DEF Range
<1> QED
  BY <1>1, <1>2

(* The rest of a sequence.                                                 *)
LEMMA TailFacts ==
    ASSUME NEW T, NEW s \in Seq(T), s # <<>>
    PROVE  /\ Tail(s) \in Seq(T) /\ Head(s) \in T
           /\ Range(s) = Range(Tail(s)) \cup {Head(s)}
<1>1. /\ Tail(s) \in Seq(T) /\ Head(s) \in T /\ Head(s) = s[1]
      /\ Len(s) \in Nat \ {0} /\ DOMAIN s = 1 .. Len(s) /\ DOMAIN Tail(s) = 1 .. Len(s) - 1
      /\ \A j \in 1 .. Len(s) - 1 : Tail(s)[j] = s[j + 1]
  OBVIOUS
<1>2. ASSUME NEW x \in Range(s) PROVE x \in Range(Tail(s)) \cup {Head(s)}
  <2>1. PICK j \in 1 .. Len(s) : x = s[j]
    BY <1>1 DEF Range
  <2>2. CASE j = 1
    BY <2>1, <2>2, <1>1
  <2>3. CASE j # 1
    <3>1. j - 1 \in 1 .. Len(s) - 1 /\ Tail(s)[j - 1] = s[j]
      BY <2>3, <1>1
    <3> QED
      BY <3>1, <2>1, <1>1 DEF Range
  <2> QED
    BY <2>2, <2>3
<1>3. ASSUME NEW x \in Range(Tail(s)) \cup {Head(s)} PROVE x \in Range(s)
  <2>1. CASE x = Head(s)
    BY <2>1, <1>1 DEF Range
  <2>2. CASE x \in Range(Tail(s))
    <3>1. PICK j \in 1 .. Len(s) - 1 : x = Tail(s)[j]
      BY <2>2, <1>1 DEF Range
    <3>2. x = s[j + 1] /\ j + 1 \in 1 .. Len(s)
      BY <3>1, <1>1
    <3> QED
      BY <3>2, <1>1 DEF Range
  <2> QED
    BY <2>1, <2>2
<1> QED
  BY <1>1, <1>2, <1>3

(* All of a sequence, and its first element.                               *)
LEMMA SubSeqFacts ==
    ASSUME NEW T, NEW s \in Seq(T)
    PROVE  SubSeq(s, 1, Len(s)) = s /\ (Len(s) >= 1 => SubSeq(s, 1, 1) = <<s[1]>>)
<1>1. SubSeq(s, 1, Len(s)) = s
  <2>1. SubSeq(s, 1, Len(s)) = [j \in 1 .. Len(s) |-> s[j]]
    OBVIOUS
  <2> QED
    BY <2>1
<1>2. ASSUME Len(s) >= 1 PROVE SubSeq(s, 1, 1) = <<s[1]>>
  <2> DEFINE a == SubSeq(s, 1, 1)
             b == <<s[1]>>
  <2>1. a \in Seq(T) /\ Len(a) = 1 /\ a[1] = s[1]
    BY <1>2
  <2>2. b \in Seq(T) /\ Len(b) = 1 /\ b[1] = s[1]
    BY <1>2
  <2> HIDE DEF a, b
  <2>3. \A j \in 1 .. Len(a) : a[j] = b[j]
    BY <2>1, <2>2
  <2>4. a = b
    BY <2>1, <2>2, <2>3, SeqEqual
  <2> QED
    BY <2>4 DEF a, b
<1> QED
  BY <1>1, <1>2

(* The order of starting has the profiles that are asked for.              *)
LEMMA StartOrderFacts ==
    ASSUME NEW S \in SUBSET Profiles
    PROVE  StartOrder(S) \in Seq(S) /\ Range(StartOrder(S)) = S
<1> DEFINE Asked(p) == IF p \in S THEN <<p>> ELSE <<>>
<1>1. ASSUME NEW p PROVE Asked(p) \in Seq(S) /\ Range(Asked(p)) = S \cap {p}
  <2>1. CASE p \in S
    BY <2>1 DEF Range
  <2>2. CASE p \notin S
    BY <2>2 DEF Range
  <2> QED
    BY <2>1, <2>2
<1>2. StartOrder(S) = Asked("trace") \o Asked("cpu") \o Asked("memory")
  BY DEF StartOrder
<1> HIDE DEF Asked
<1> DEFINE two == Asked("trace") \o Asked("cpu")
<1>3. two \in Seq(S) /\ Range(two) = S \cap {"trace", "cpu"}
  BY <1>1, RangeConcatenation
<1> HIDE DEF two
<1>4. two \o Asked("memory") \in Seq(S) /\ Range(two \o Asked("memory")) = S \cap {"trace", "cpu", "memory"}
  BY <1>1, <1>3, RangeConcatenation
<1> QED
  BY <1>2, <1>4 DEF Profiles, two

(* The part of TypeOK about the flag.                                      *)
FlagTypeOK ==
    /\ flag \in Flags /\ args \in Args /\ env \in Texts /\ file \in Texts
    /\ next \in 1 .. Len(args) + 1
    /\ value \in Seq(Seq(Words) \ {Bad}) /\ value # <<>>
    /\ changed \in BOOLEAN

(* What the parser and the sources of the flag keep.                       *)
FlagsInv == FlagTypeOK /\ ParsedSoFar /\ FlagsFollowPrecedence

(* What the later phases do to the phase.                                  *)
FlagsGoOn ==
    \/ phase' = phase
    \/ phase' \in {"close", "exit"}
    \/ phase = "profile" /\ phase' = "task"

(* Steps of the later phases keep the flag.                                *)
LEMMA FlagsKept ==
    ASSUME FlagsInv, UNCHANGED flags, FlagsGoOn
    PROVE  FlagsInv'
<1>1. /\ flag' = flag /\ args' = args /\ env' = env /\ file' = file /\ next' = next
      /\ value' = value /\ changed' = changed
  BY DEF flags
<1>2. FlagTypeOK'
  BY <1>1 DEF FlagsInv, FlagTypeOK
<1>3. ParsedSoFar'
  BY <1>1 DEF FlagsInv, FlagsGoOn, ParsedSoFar, Collects, kind
<1>4. phase' \in {"profile", "task"} => phase \in {"profile", "task"}
  BY DEF FlagsGoOn
<1>5. FlagsFollowPrecedence'
  BY <1>1, <1>4 DEF FlagsInv, FlagsFollowPrecedence, Good, kind, required
<1> QED
  BY <1>2, <1>3, <1>5 DEF FlagsInv

(* The texts are sequences of words.                                       *)
LEMMA ArgsType ==
    ASSUME FlagTypeOK
    PROVE  /\ args \in Seq(Seq(Words)) /\ env \in Seq(Words) /\ file \in Seq(Words)
           /\ Len(args) \in Nat
BY CommandAssumption DEF FlagTypeOK

(* A flag that was set has a value, and not a bad one.                     *)
LEMMA SetFlagType ==
    ASSUME FlagTypeOK, NEW text \in Seq(Words) \ {Bad}, SetFlag(text)
    PROVE  value' \in Seq(Seq(Words) \ {Bad}) /\ value' # <<>> /\ changed' = TRUE
<1> DEFINE T == Seq(Words) \ {Bad}
<1>1. value \in Seq(T)
  BY DEF FlagTypeOK
<1>2. value' = (IF Collects /\ changed THEN Append(value, text) ELSE <<text>>) /\ changed' = TRUE
  BY DEF SetFlag
<1> HIDE DEF T
<1>3. text \in T
  BY DEF T
<1>4. Append(value, text) \in Seq(T) /\ Append(value, text) # <<>>
  BY <1>1, <1>3, AppendFacts
<1>5. <<text>> \in Seq(T) /\ <<text>> # <<>>
  BY <1>3
<1> QED
  BY <1>2, <1>4, <1>5 DEF T

(* ParseArg keeps what the parser has made of the flag so far.             *)
LEMMA ParseStep == FlagsInv /\ ParseArg => FlagsInv'
<1> SUFFICES ASSUME FlagsInv, ParseArg PROVE FlagsInv'
  OBVIOUS
<1>1. FlagTypeOK /\ ParsedSoFar
  BY DEF FlagsInv
<1>2. /\ args \in Seq(Seq(Words)) /\ Len(args) \in Nat /\ next \in 1 .. Len(args)
      /\ phase = "parse" /\ next' = next + 1
      /\ UNCHANGED <<flag, args, env, file>>
  BY <1>1, ArgsType DEF ParseArg, FlagTypeOK
<1> DEFINE arg == args[next]
<1>3. arg \in Seq(Words)
  BY <1>2
<1>4. CASE arg = Bad
  <2>1. phase' = "exit" /\ value' = value /\ changed' = changed
    BY <1>4 DEF ParseArg, Exit
  <2>2. FlagTypeOK'
    BY <2>1, <1>1, <1>2 DEF FlagTypeOK
  <2> QED
    BY <2>1, <2>2 DEF FlagsInv, ParsedSoFar, FlagsFollowPrecedence
<1>5. CASE arg # Bad
  <2>1. SetFlag(arg) /\ phase' = phase
    BY <1>5 DEF ParseArg
  <2>2. FlagTypeOK'
    <3>1. value' \in Seq(Seq(Words) \ {Bad}) /\ value' # <<>> /\ changed' = TRUE
      BY <2>1, <1>1, <1>3, <1>5, SetFlagType
    <3> QED
      BY <3>1, <1>1, <1>2 DEF FlagTypeOK
  <2>3. changed' = TRUE /\ value' = IF Collects /\ changed THEN Append(value, arg) ELSE <<arg>>
    BY <2>1 DEF SetFlag
  <2>4. changed <=> next > 1
    BY <1>1, <1>2 DEF ParsedSoFar
  <2>5. value' = IF Collects' THEN SubSeq(args, 1, next) ELSE <<arg>>
    <3>1. Collects' <=> Collects
      BY <1>2 DEF Collects, kind
    <3>2. CASE ~Collects
      BY <3>1, <3>2, <2>3
    <3>3. CASE Collects /\ next = 1
      <4>1. SubSeq(args, 1, 1) = <<args[1]>>
        BY <1>2, <3>3, SubSeqFacts
      <4> QED
        BY <4>1, <3>1, <3>3, <2>3, <2>4
    <3>4. CASE Collects /\ next > 1
      <4>1. value = SubSeq(args, 1, next - 1)
        BY <3>4, <1>1, <1>2 DEF ParsedSoFar
      <4>2. Append(SubSeq(args, 1, next - 1), args[next]) = SubSeq(args, 1, next)
        BY <1>2, <3>4
      <4> QED
        BY <4>1, <4>2, <3>1, <3>4, <2>3, <2>4
    <3> QED
      BY <3>2, <3>3, <3>4, <1>2
  <2>6. next' # 1 /\ next' > 1 /\ next' - 1 = next /\ phase' = "parse"
    BY <1>2, <2>1
  <2>7. \A j \in 1 .. next' - 1 : args[j] # Bad
    <3> SUFFICES ASSUME NEW j \in 1 .. next PROVE args[j] # Bad
      BY <2>6
    <3>1. j = next \/ j \in 1 .. next - 1
      BY <1>2
    <3> QED
      BY <3>1, <1>5, <1>1, <1>2 DEF ParsedSoFar
  <2>8. ParsedSoFar'
    BY <2>3, <2>5, <2>6, <2>7, <1>2 DEF ParsedSoFar
  <2>9. FlagsFollowPrecedence'
    BY <2>6 DEF FlagsFollowPrecedence
  <2> QED
    BY <2>2, <2>8, <2>9 DEF FlagsInv
<1> QED
  BY <1>4, <1>5

(* At the end of the command line the parser has made of the flag what it  *)
(* is to be.                                                               *)
LEMMA ParsedStep == FlagsInv /\ Parsed => FlagsInv'
<1> SUFFICES ASSUME FlagsInv, Parsed PROVE FlagsInv'
  OBVIOUS
<1>1. /\ phase = "parse" /\ phase' = "preset" /\ next > Len(args) /\ FlagTypeOK /\ ParsedSoFar
      /\ flag' = flag /\ args' = args /\ env' = env /\ file' = file /\ next' = next
      /\ value' = value /\ changed' = changed
  BY DEF Parsed, flags, FlagsInv
<1>2. next = Len(args) + 1
  BY <1>1, ArgsType DEF FlagTypeOK
<1>3. FlagTypeOK'
  BY <1>1 DEF FlagTypeOK
<1>4. ParsedSoFar'
  BY <1>1, <1>2 DEF ParsedSoFar, Collects, kind
<1> QED
  BY <1>1, <1>3, <1>4 DEF FlagsInv, FlagsFollowPrecedence

(* The bad text and the default text are texts, and not the same.          *)
LEMMA GivenWords ==
    /\ "rounded" \in Words
    /\ Bad \in Seq(Words) /\ Default \in Seq(Words) /\ Default # Bad
<1>1. "bad" \in Words /\ "default" \in Words /\ "rounded" \in Words
  BY CommandAssumption
<1>2. Default # Bad
  <2>1. Default[1] # Bad[1]
    BY DEF Default, Bad
  <2> QED
    BY <2>1
<1> QED
  BY <1>1, <1>2 DEF Bad, Default

(* What a flag is rendered as is a text.                                   *)
LEMMA RenderedType ==
    ASSUME FlagTypeOK
    PROVE  Rendered \subseteq Seq(Words)
<1>1. value \in Seq(Seq(Words)) /\ value # <<>>
  <2>1. Seq(Words) \ {Bad} \subseteq Seq(Words)
    OBVIOUS
  <2> QED
    BY <2>1, SeqMonotonic DEF FlagTypeOK
<1>2. value[1] \in Seq(Words) /\ Bad \in Seq(Words)
  <2>1. Bad \in Seq(Words)
    BY GivenWords
  <2> QED
    BY <2>1, <1>1
<1>4. Rounded(value[1]) \in Seq(Words)
  <2>1. "rounded" \in Words
    BY GivenWords
  <2> QED
    BY <2>1, <1>2, AppendFacts DEF Rounded
<1>3. FlattenSeq(value) \in Seq(Words)
  BY <1>1, FlattenSeqType
<1> QED
  BY <1>2, <1>3, <1>4 DEF Rendered

(* PresetRequiredFlags sets the flag from the nearest source, or sets it   *)
(* again from its own rendering.                                           *)
LEMMA PresetStep == FlagsInv /\ PresetRequiredFlags => FlagsInv'
<1> SUFFICES ASSUME FlagsInv, PresetRequiredFlags PROVE FlagsInv'
  OBVIOUS
<1>1. FlagTypeOK /\ ParsedSoFar /\ phase = "preset"
  BY DEF FlagsInv, PresetRequiredFlags
<1>2. /\ args \in Seq(Seq(Words)) /\ env \in Seq(Words) /\ file \in Seq(Words)
      /\ Len(args) \in Nat
  BY <1>1, ArgsType
<1>3. PICK text \in GetString :
         IF text \in {<<>>, Bad} THEN UNCHANGED <<value, changed>> ELSE SetFlag(text)
  BY DEF PresetRequiredFlags
<1>4. /\ (phase' = "profile" /\ (required => changed')) \/ phase' = "exit"
      /\ UNCHANGED <<flag, args, env, file, next>>
  BY DEF PresetRequiredFlags, Exit
<1>5. text \in Seq(Words)
  BY <1>1, <1>2, RenderedType DEF GetString
<1>6. FlagTypeOK'
  <2>1. CASE text \in {<<>>, Bad}
    BY <2>1, <1>1, <1>3, <1>4 DEF FlagTypeOK
  <2>2. CASE text \notin {<<>>, Bad}
    <3>1. value' \in Seq(Seq(Words) \ {Bad}) /\ value' # <<>> /\ changed' = TRUE
      BY <2>2, <1>1, <1>3, <1>5, SetFlagType
    <3> QED
      BY <3>1, <1>1, <1>4 DEF FlagTypeOK
  <2> QED
    BY <2>1, <2>2
<1>7. ParsedSoFar'
  BY <1>4 DEF ParsedSoFar
<1>8. ASSUME phase' = "profile"
      PROVE  IF Good = <<>> THEN value' = <<Default>> /\ ~required
             ELSE CASE kind = "filters"   -> Range(value') \cup {FlattenSeq(Good)} =
                                               Range(Good) \cup {FlattenSeq(Good)}
                    [] kind = "collected" -> value' = Good
                    [] kind = "time"      -> value'[1] \in {Last(Good), Rounded(Last(Good))}
                    [] OTHER              -> value' = <<Last(Good)>>
  <2>1. CASE args = <<>>
    <3>0. next = 1
      <4>1. Len(args) = 0
        BY <2>1
      <4> QED
        BY <4>1, <1>1 DEF ParsedSoFar
    <3>1. next = 1 /\ ~changed /\ value = <<Default>>
      BY <3>0, <1>1 DEF ParsedSoFar
    <3>2. text = IF env # <<>> THEN env ELSE file
      BY <3>1, <1>3 DEF GetString
    <3>3. CASE text \in {<<>>, Bad}
      BY <3>1, <3>2, <3>3, <2>1, <1>3, <1>4, <1>8 DEF Good
    <3>4. CASE text \notin {<<>>, Bad}
      <4>1. Good = <<text>> /\ value' = <<text>>
        BY <3>1, <3>2, <3>4, <2>1, <1>3 DEF Good, SetFlag
      <4>2. Last(<<text>>) = text /\ <<text>> # <<>> /\ <<text>>[1] = text
        BY DEF Last
      <4> QED
        BY <4>1, <4>2
    <3> QED
      BY <3>3, <3>4
  <2>2. CASE args # <<>>
    <3> DEFINE last == args[Len(args)]
    <3>1. Good = args /\ Len(args) # 0 /\ Last(args) = last
      BY <2>2, <1>2 DEF Good, Last
    <3>2. /\ changed /\ last # Bad /\ next = Len(args) + 1
          /\ value = IF Collects THEN args ELSE <<last>>
      <4>1. next = Len(args) + 1 /\ next # 1 /\ next - 1 = Len(args)
        BY <3>1, <1>1, <1>2 DEF ParsedSoFar
      <4>2. changed /\ last # Bad
        BY <4>1, <3>1, <1>1, <1>2 DEF ParsedSoFar
      <4>3. value = IF Collects THEN SubSeq(args, 1, Len(args)) ELSE <<last>>
        BY <4>1, <1>1 DEF ParsedSoFar
      <4> QED
        BY <4>1, <4>2, <4>3, <1>2, SubSeqFacts
    <3>3. text \in Rendered
      BY <3>2, <1>3 DEF GetString
    <3>4. CASE kind = "filters"
      <4>1. Collects /\ value = args /\ text = FlattenSeq(args)
        BY <3>2, <3>3, <3>4 DEF Collects, Rendered
      <4>2. value' = args \/ value' = Append(args, text)
        BY <4>1, <3>2, <1>3 DEF SetFlag
      <4>3. Range(Append(args, text)) = Range(args) \cup {text}
        BY <1>2, <1>5, AppendFacts
      <4> QED
        BY <4>1, <4>2, <4>3, <3>1, <3>4, <2>2
    <3>5. CASE kind = "collected"
      <4>1. Collects /\ value = args /\ text = Bad
        BY <3>2, <3>3, <3>5 DEF Collects, Rendered
      <4> QED
        BY <4>1, <1>3, <3>1, <3>5, <2>2
    <3>6. CASE kind = "time"
      <4>1. ~Collects /\ value = <<last>> /\ text \in {Bad, Rounded(last)}
        BY <3>2, <3>3, <3>6 DEF Collects, Rendered
      <4>2. value' = <<last>> \/ value' = <<Rounded(last)>>
        BY <4>1, <1>3 DEF SetFlag
      <4> QED
        BY <4>2, <3>1, <3>6, <2>2
    <3>7. CASE kind \notin {"filters", "collected", "time"}
      <4>1. ~Collects /\ value = <<last>> /\ text \in {Bad, last}
        BY <3>2, <3>3, <3>7 DEF Collects, Rendered
      <4>2. value' = <<last>>
        BY <4>1, <1>3 DEF SetFlag
      <4> QED
        BY <4>2, <3>1, <3>7, <2>2
    <3> QED
      BY <3>4, <3>5, <3>6, <3>7
  <2> QED
    BY <2>1, <2>2
<1>9. Good' = Good /\ kind' = kind /\ (required' <=> required)
  BY <1>4 DEF Good, kind, required
<1>10. FlagsFollowPrecedence'
  BY <1>4, <1>8, <1>9 DEF FlagsFollowPrecedence
<1> QED
  BY <1>6, <1>7, <1>10 DEF FlagsInv

(* The part of TypeOK about the profiler.                                  *)
ProfilerTypeOK ==
    /\ asked \in Requests
    /\ running \subseteq asked /\ open \subseteq asked /\ finished \subseteq asked
    /\ toStart \in Seq(asked)
    /\ methodClosers \in Seq(asked) /\ fileClosers \in Seq(asked)

(* What the profiler keeps.                                                *)
ProfilerInv == ProfilerTypeOK /\ ProfilesHaveClosers /\ ProfilesAreFinished

(* A step that leaves the profiler alone, as far as its invariant can tell.*)
ProfilerGoesOn ==
    \/ phase' = phase /\ outcome' = outcome
    \/ phase \in {"parse", "preset"} /\ phase' \in {"parse", "preset", "profile"}
    \/ phase \in {"parse", "preset"} /\ phase' = "exit" /\ outcome' = "error"
    \/ phase = "profile" /\ toStart = <<>> /\ phase' = "task"
    \/ phase = "task" /\ phase' = "close"
    \/ phase # "exit" /\ phase' = "exit" /\ outcome' = "killed"

(* Steps that leave the profiler alone keep its invariant.                 *)
LEMMA ProfilerKept ==
    ASSUME ProfilerInv, UNCHANGED profiler, ProfilerGoesOn
    PROVE  ProfilerInv'
<1>1. /\ asked' = asked /\ toStart' = toStart /\ open' = open /\ running' = running
      /\ methodClosers' = methodClosers /\ fileClosers' = fileClosers /\ finished' = finished
  BY DEF profiler
<1>2. ProfilerTypeOK'
  BY <1>1 DEF ProfilerInv, ProfilerTypeOK
<1>3. Range(toStart') = Range(toStart) /\ Range(methodClosers') = Range(methodClosers)
      /\ Range(fileClosers') = Range(fileClosers)
  BY <1>1
<1>4. ProfilesHaveClosers'
  BY <1>1, <1>3 DEF ProfilerInv, ProfilerGoesOn, ProfilesHaveClosers
<1>5. ProfilesAreFinished'
  BY <1>1 DEF ProfilerInv, ProfilerGoesOn, ProfilesAreFinished, ProfilesHaveClosers
<1> QED
  BY <1>2, <1>4, <1>5 DEF ProfilerInv

(* StartProfile adds the closers of what it opens and starts.              *)
LEMMA StartProfileStep == ProfilerInv /\ StartProfile => ProfilerInv'
<1> SUFFICES ASSUME ProfilerInv, StartProfile PROVE ProfilerInv'
  OBVIOUS
<1>1. PICK p : p = Head(toStart)
  OBVIOUS
<1>2. ProfilerTypeOK /\ ProfilesHaveClosers
  BY DEF ProfilerInv
<1>3. /\ phase = "profile" /\ phase' = phase /\ toStart # <<>> /\ toStart' = Tail(toStart)
      /\ open' = open \cup {p} /\ fileClosers' = Append(fileClosers, p)
      /\ running' = running \cup {p} /\ methodClosers' = Append(methodClosers, p)
      /\ asked' = asked /\ finished' = finished
  BY <1>1 DEF StartProfile, FileOpened
<1>4. toStart' \in Seq(asked) /\ p \in asked /\ Range(toStart) = Range(toStart') \cup {p}
  BY <1>1, <1>2, <1>3, TailFacts DEF ProfilerTypeOK
<1>5. /\ fileClosers' \in Seq(asked) /\ Range(fileClosers') = Range(fileClosers) \cup {p}
      /\ methodClosers' \in Seq(asked) /\ Range(methodClosers') = Range(methodClosers) \cup {p}
  BY <1>2, <1>3, <1>4, AppendFacts DEF ProfilerTypeOK
<1>6. ProfilerTypeOK'
  BY <1>2, <1>3, <1>4, <1>5 DEF ProfilerTypeOK
<1>7. ProfilesHaveClosers'
  BY <1>2, <1>3, <1>4, <1>5 DEF ProfilesHaveClosers
<1> QED
  BY <1>3, <1>6, <1>7 DEF ProfilerInv, ProfilesAreFinished

(* A start that fails ends the program or goes to the closers.             *)
LEMMA StartFailsStep == ProfilerInv /\ StartProfileFails => ProfilerInv'
<1> SUFFICES ASSUME ProfilerInv, StartProfileFails PROVE ProfilerInv'
  OBVIOUS
<1>1. PICK p : p = Head(toStart)
  OBVIOUS
<1>2. ProfilerTypeOK /\ ProfilesHaveClosers
  BY DEF ProfilerInv
<1>3. /\ phase = "profile" /\ phase' = "close" /\ outcome' = "error" /\ toStart # <<>>
      /\ \/ open' = open /\ fileClosers' = fileClosers
         \/ open' = open \cup {p} /\ fileClosers' = Append(fileClosers, p)
      /\ asked' = asked /\ finished' = finished /\ running' = running /\ toStart' = toStart
      /\ methodClosers' = methodClosers
  BY <1>1 DEF StartProfileFails, FileOpened
<1>4. p \in asked
  BY <1>1, <1>2, <1>3, TailFacts DEF ProfilerTypeOK
<1>5. /\ Append(fileClosers, p) \in Seq(asked)
      /\ Range(Append(fileClosers, p)) = Range(fileClosers) \cup {p}
  BY <1>2, <1>4, AppendFacts DEF ProfilerTypeOK
<1>6. ProfilerTypeOK'
  BY <1>2, <1>3, <1>4, <1>5 DEF ProfilerTypeOK
<1>7. ProfilesHaveClosers'
  BY <1>2, <1>3, <1>5 DEF ProfilesHaveClosers
<1> QED
  BY <1>3, <1>6, <1>7 DEF ProfilerInv, ProfilesAreFinished

(* CloseMethod finishes the profile it takes from the closers.             *)
LEMMA CloseMethodStep == ProfilerInv /\ CloseMethod => ProfilerInv'
<1> SUFFICES ASSUME ProfilerInv, CloseMethod PROVE ProfilerInv'
  OBVIOUS
<1>1. PICK p : p = Head(methodClosers)
  OBVIOUS
<1>2. ProfilerTypeOK /\ ProfilesHaveClosers
  BY DEF ProfilerInv
<1>3. /\ phase = "close" /\ phase' = phase /\ outcome' = outcome /\ methodClosers # <<>>
      /\ methodClosers' = Tail(methodClosers) /\ running' = running \ {p}
      /\ finished' = finished \cup ({p} \cap open) \/ (p = "memory" /\ finished' = finished)
      /\ asked' = asked /\ toStart' = toStart /\ open' = open /\ fileClosers' = fileClosers
  BY <1>1 DEF CloseMethod
<1>4. /\ methodClosers' \in Seq(asked) /\ p \in asked
      /\ Range(methodClosers) = Range(methodClosers') \cup {p}
  BY <1>1, <1>2, <1>3, TailFacts DEF ProfilerTypeOK
<1>5. ProfilerTypeOK'
  BY <1>2, <1>3, <1>4 DEF ProfilerTypeOK
<1>6. ProfilesHaveClosers'
  BY <1>2, <1>3, <1>4 DEF ProfilesHaveClosers
<1> QED
  BY <1>3, <1>5, <1>6 DEF ProfilerInv, ProfilesAreFinished

(* CloseFile closes the file of a profile that has stopped.                *)
LEMMA CloseFileStep == ProfilerInv /\ CloseFile => ProfilerInv'
<1> SUFFICES ASSUME ProfilerInv, CloseFile PROVE ProfilerInv'
  OBVIOUS
<1>1. PICK p : p = Head(fileClosers)
  OBVIOUS
<1>2. ProfilerTypeOK /\ ProfilesHaveClosers
  BY DEF ProfilerInv
<1>3. /\ phase = "close" /\ phase' = phase /\ outcome' = outcome
      /\ methodClosers = <<>> /\ methodClosers' = methodClosers /\ fileClosers # <<>>
      /\ fileClosers' = Tail(fileClosers) /\ open' = open \ {p}
      /\ asked' = asked /\ toStart' = toStart /\ running' = running /\ finished' = finished
  BY <1>1 DEF CloseFile
<1>4. /\ fileClosers' \in Seq(asked) /\ Range(fileClosers) = Range(fileClosers') \cup {p}
  BY <1>1, <1>2, <1>3, TailFacts DEF ProfilerTypeOK
<1>5. Range(methodClosers) = {}
  BY <1>3 DEF Range
<1>6. ProfilerTypeOK'
  BY <1>2, <1>3, <1>4 DEF ProfilerTypeOK
<1>7. ProfilesHaveClosers'
  BY <1>2, <1>3, <1>4, <1>5 DEF ProfilesHaveClosers
<1> QED
  BY <1>3, <1>6, <1>7 DEF ProfilerInv, ProfilesAreFinished

(* When the closers are used up nothing runs and no file is open.          *)
LEMMA ClosedStep == ProfilerInv /\ Closed => ProfilerInv'
<1> SUFFICES ASSUME ProfilerInv, Closed PROVE ProfilerInv'
  OBVIOUS
<1>1. /\ phase = "close" /\ phase' = "exit" /\ outcome' = outcome
      /\ methodClosers = <<>> /\ fileClosers = <<>>
      /\ asked' = asked /\ toStart' = toStart /\ open' = open /\ running' = running
      /\ methodClosers' = methodClosers /\ fileClosers' = fileClosers /\ finished' = finished
  BY DEF Closed, profiler
<1>2. ProfilerTypeOK /\ ProfilesHaveClosers
  BY DEF ProfilerInv
<1>3. Range(methodClosers) = {} /\ Range(fileClosers) = {}
  BY <1>1 DEF Range
<1>4. ProfilerTypeOK'
  BY <1>1, <1>2 DEF ProfilerTypeOK
<1>5. ProfilesHaveClosers'
  BY <1>1 DEF ProfilesHaveClosers
<1>6. outcome = "ok" => Range(toStart) = {}
  BY <1>1, <1>2 DEF ProfilesHaveClosers, Range
<1>7. ProfilesAreFinished'
  BY <1>1, <1>2, <1>3, <1>6 DEF ProfilesHaveClosers, ProfilesAreFinished
<1> QED
  BY <1>4, <1>5, <1>7 DEF ProfilerInv

(* The rest of TypeOK.                                                     *)
RestTypeOK ==
    /\ phase \in {"parse", "preset", "profile", "task", "close", "exit"}
    /\ task \in {"batch", "web"} /\ server \in Servers /\ busy \in BOOLEAN
    /\ outcome \in {"none", "ok", "error", "panic", "killed"}

(* Every step keeps the types of phase, server and outcome.                *)
LEMMA RestStep == RestTypeOK /\ [Next]_vars => RestTypeOK'
<1> SUFFICES ASSUME RestTypeOK, [Next]_vars PROVE RestTypeOK'
  OBVIOUS
<1> USE DEF RestTypeOK
<1>1. ASSUME UNCHANGED web, UNCHANGED <<phase, outcome>> PROVE RestTypeOK'
  BY <1>1 DEF web
<1>2. ASSUME UNCHANGED web, phase' \in {"parse", "preset", "profile", "task", "close", "exit"},
             outcome' \in {"none", "ok", "error", "panic", "killed"}
      PROVE  RestTypeOK'
  BY <1>2 DEF web
<1>3. CASE ParseArg
  BY <1>3, <1>1, <1>2 DEF ParseArg, Exit
<1>4. CASE Parsed \/ RunTask \/ Closed
  BY <1>4, <1>2 DEF Parsed, RunTask, Closed
<1>5. CASE PresetRequiredFlags
  BY <1>5, <1>2 DEF PresetRequiredFlags, Exit
<1>6. CASE StartProfile \/ CloseMethod \/ CloseFile
  BY <1>6, <1>1 DEF StartProfile, CloseMethod, CloseFile
<1>7. CASE StartProfileFails
  BY <1>7, <1>2 DEF StartProfileFails
<1>8. CASE BatchReturns
  BY <1>8, <1>2 DEF BatchReturns, Return
<1>9. CASE Shutdown
  BY <1>9, <1>2 DEF Shutdown, Return
<1>10. CASE StartServer
  BY <1>10 DEF StartServer, Return, Servers
<1>11. CASE MainGoesOn
  BY <1>11 DEF MainGoesOn, Servers
<1>12. CASE QueryableClosed
  BY <1>12 DEF QueryableClosed, Servers
<1>13. CASE Request
  BY <1>13 DEF Request
<1>14. CASE Interrupt
  BY <1>14 DEF Interrupt, Exit, Servers
<1>15. CASE UNCHANGED vars
  BY <1>15, <1>1 DEF vars
<1> QED
  BY <1>3, <1>4, <1>5, <1>6, <1>7, <1>8, <1>9, <1>10, <1>11, <1>12, <1>13, <1>14, <1>15
     DEF Next, Main, Ended

(* The inductive invariant: the flag, the profiler, and the rest.          *)
RunInv == FlagsInv /\ ProfilerInv /\ RestTypeOK

(* The program starts in the invariant.                                    *)
LEMMA RunStarts == Init => RunInv
<1> SUFFICES ASSUME Init PROVE RunInv
  OBVIOUS
<1>1. FlagTypeOK
  <2>1. args \in Seq(Seq(Words))
    BY CommandAssumption DEF Init
  <2>2. <<Default>> \in Seq(Seq(Words) \ {Bad})
    BY GivenWords
  <2>3. next \in 1 .. Len(args) + 1
    <3>1. Len(args) \in Nat /\ next = 1
      BY <2>1 DEF Init
    <3> QED
      BY <3>1
  <2>4. value \in Seq(Seq(Words) \ {Bad}) /\ value # <<>>
    BY <2>2 DEF Init
  <2> QED
    BY <2>3, <2>4 DEF Init, FlagTypeOK
<1>2. ParsedSoFar /\ FlagsFollowPrecedence
  BY DEF Init, ParsedSoFar, FlagsFollowPrecedence
<1>3. ProfilerTypeOK /\ Range(toStart) = asked
  <2>1. asked \in SUBSET Profiles
    BY CommandAssumption DEF Init
  <2>2. toStart \in Seq(asked) /\ Range(toStart) = asked
    BY <2>1, StartOrderFacts DEF Init
  <2> QED
    BY <2>2 DEF Init, ProfilerTypeOK
<1>4. ProfilesHaveClosers /\ ProfilesAreFinished
  <2>1. Range(<<>>) = {}
    BY DEF Range
  <2> QED
    BY <1>3, <2>1 DEF Init, ProfilesHaveClosers, ProfilesAreFinished
<1>5. RestTypeOK
  BY DEF Init, RestTypeOK, Servers
<1> QED
  BY <1>1, <1>2, <1>3, <1>4, <1>5 DEF RunInv, FlagsInv, ProfilerInv

(* Every step of the program keeps the invariant.                          *)
LEMMA RunStep == RunInv /\ [Next]_vars => RunInv'
<1> SUFFICES ASSUME RunInv, [Next]_vars PROVE RunInv'
  OBVIOUS
<1>1. FlagsInv /\ ProfilerInv /\ RestTypeOK
  BY DEF RunInv
<1>2. RestTypeOK'
  BY <1>1, RestStep
<1>3. ASSUME UNCHANGED flags, FlagsGoOn, ProfilerInv' PROVE RunInv'
  BY <1>1, <1>2, <1>3, FlagsKept DEF RunInv
<1>4. ASSUME UNCHANGED profiler, ProfilerGoesOn, FlagsInv' PROVE RunInv'
  BY <1>1, <1>2, <1>4, ProfilerKept DEF RunInv
<1>5. ASSUME UNCHANGED <<flags, profiler>>, FlagsGoOn, ProfilerGoesOn PROVE RunInv'
  BY <1>1, <1>4, <1>5, FlagsKept
<1>6. CASE ParseArg
  <2>1. FlagsInv'
    BY <1>1, <1>6, ParseStep
  <2>2. UNCHANGED profiler /\ ProfilerGoesOn
    BY <1>6 DEF ParseArg, Exit, ProfilerGoesOn
  <2> QED
    BY <2>1, <2>2, <1>4
<1>7. CASE Parsed
  <2>1. FlagsInv'
    BY <1>1, <1>7, ParsedStep
  <2>2. UNCHANGED profiler /\ ProfilerGoesOn
    BY <1>7 DEF Parsed, ProfilerGoesOn
  <2> QED
    BY <2>1, <2>2, <1>4
<1>8. CASE PresetRequiredFlags
  <2>1. FlagsInv'
    BY <1>1, <1>8, PresetStep
  <2>2. UNCHANGED profiler /\ ProfilerGoesOn
    BY <1>8 DEF PresetRequiredFlags, Exit, ProfilerGoesOn
  <2> QED
    BY <2>1, <2>2, <1>4
<1>9. CASE StartProfile
  BY <1>1, <1>3, <1>9, StartProfileStep DEF StartProfile, FlagsGoOn
<1>10. CASE StartProfileFails
  BY <1>1, <1>3, <1>10, StartFailsStep DEF StartProfileFails, FlagsGoOn
<1>11. CASE CloseMethod
  BY <1>1, <1>3, <1>11, CloseMethodStep DEF CloseMethod, FlagsGoOn
<1>12. CASE CloseFile
  BY <1>1, <1>3, <1>12, CloseFileStep DEF CloseFile, FlagsGoOn
<1>13. CASE Closed
  BY <1>1, <1>3, <1>13, ClosedStep DEF Closed, FlagsGoOn
<1>14. CASE RunTask
  BY <1>14, <1>5 DEF RunTask, FlagsGoOn, ProfilerGoesOn
<1>15. CASE BatchReturns \/ Shutdown
  BY <1>15, <1>5 DEF BatchReturns, Shutdown, Return, FlagsGoOn, ProfilerGoesOn
<1>16. CASE StartServer
  BY <1>16, <1>5 DEF StartServer, Return, FlagsGoOn, ProfilerGoesOn
<1>17. CASE MainGoesOn \/ Request \/ QueryableClosed
  BY <1>17, <1>5 DEF MainGoesOn, Request, QueryableClosed, FlagsGoOn, ProfilerGoesOn
<1>18. CASE Interrupt
  BY <1>18, <1>5 DEF Interrupt, Exit, FlagsGoOn, ProfilerGoesOn
<1>19. CASE UNCHANGED vars
  BY <1>19, <1>5 DEF vars, FlagsGoOn, ProfilerGoesOn
<1> QED
  BY <1>6, <1>7, <1>8, <1>9, <1>10, <1>11, <1>12, <1>13, <1>14, <1>15, <1>16, <1>17, <1>18, <1>19
     DEF Next, Main, Ended

(* What the parser has made of the flag, that every profile that runs has  *)
(* a closer, and that an orderly end has finished all profiles: for any    *)
(* command line, any environment and file, and any profiles that are asked *)
(* for.                                                                    *)
THEOREM CommandInvHolds == Spec => []CommandInv
<1>1. RunInv => CommandInv
  BY DEF RunInv, FlagsInv, FlagTypeOK, ProfilerInv, ProfilerTypeOK, RestTypeOK, TypeOK, CommandInv
<1> QED
  BY <1>1, RunStarts, RunStep, PTL DEF Spec

(* The task gets what the nearest source says, although every flag is set  *)
(* a second time from its own rendering.                                   *)
THEOREM PrecedenceHolds == Spec => []FlagsFollowPrecedence
<1>1. RunInv => FlagsFollowPrecedence
  BY DEF RunInv, FlagsInv
<1> QED
  BY <1>1, RunStarts, RunStep, PTL DEF Spec
=============================================================================
