--------------------------- MODULE Monitor_proofs ----------------------------
(***************************************************************************)
(* Proofs about the monitor, for every script of the host and every size   *)
(* of a packet: where in the script the parser and the data of an S        *)
(* command are, and from it that memory and answers are what the commands  *)
(* make of them.  The host flushes: it ends a packet with every line and   *)
(* with the data of S (MCMonitor shows what happens when it does not).     *)
(***************************************************************************)
EXTENDS Monitor, FoldLemmas

-----------------------------------------------------------------------------
\* The constants, with a host that ends a packet with every line and with the data of S.
FlushingHost == MonitorAssumption /\ Flushes

\* The characters that the monitor has taken.
Taken == sent - Len(bank) - Len(data)

\* What is in the packet and in the buffer are the next characters of the script, and no end of a
\* command or of its line is inside of them.
NextCharacters ==
  /\ script \in Scripts /\ sent \in 0..Len(Stream) /\ Taken \in Nat
  /\ bank \in Seq(Character) /\ Len(bank) <= MaxPacket
  /\ data \in Seq(Character) /\ Len(data) <= MaxPacket
  /\ \A i \in 1..Len(data) : data[i] = Stream[Taken + i]
  /\ \A i \in 1..Len(bank) : bank[i] = Stream[sent - Len(bank) + i]
  /\ \A e \in Ends : e <= Taken \/ e >= Taken + Len(data)
  /\ \A e \in Ends : e <= sent - Len(bank) \/ e >= sent

\* The first n commands are done.
Done(n) == memory = After(n).memory /\ answers = After(n).answers

\* Between two commands,
Between(n) ==
  /\ command = "z" /\ todo = 0 /\ current_number = 0 /\ Taken = Len(First(n)) /\ Done(n)

\* behind the k-th character of the line of the n-th,
InLine(n, k) ==
  /\ k \in 1..Len(Line(script[n])) - 1
  /\ command = script[n].command /\ todo = 0 /\ Taken = Len(First(n - 1)) + k /\ Done(n - 1)
  /\ k >= 4 => ptr_data = script[n].address
  /\ current_number = CASE k = 2 -> script[n].address \div 4 [] k = 3 -> script[n].address
                        [] k = 5 -> script[n].number \div 4 [] k = 6 -> script[n].number
                        [] OTHER -> 0

\* or behind the k-th byte of an S command that has more.
InBytes(n, k) ==
  /\ script[n].command = "S" /\ k \in 0..Len(script[n].bytes) - 1
  /\ command = "z" /\ current_number = 0 /\ data = <<>>
  /\ todo = Len(script[n].bytes) - k /\ dst = script[n].address + k
  /\ Taken = Len(First(n - 1)) + 7 + k /\ answers = After(n - 1).answers
  /\ memory = [x \in Address |->
       IF x \in script[n].address .. script[n].address + k - 1
       THEN script[n].bytes[x - script[n].address + 1] ELSE After(n - 1).memory[x]]

\* One of the three.
Place ==
  \/ \E n \in 0..Len(script) : Between(n)
  \/ \E n \in 1..Len(script) : \E k \in 1..6 : InLine(n, k)
  \/ \E n \in 1..Len(script) : \E k \in 0..14 : InBytes(n, k)

\* The inductive invariant of the monitor.
MonInv == NextCharacters /\ Place /\ ptr_data \in 0..15 /\ dst \in Nat

\* The characters, one by one,
LEMMA CharacterIs ==
  Character = {"0", "1", "2", "3", "S", "O", "o", "V", "?", ",", "#"}
<1>1. \A x : x \in Range(Digits) <=> x \in {"0", "1", "2", "3"}
  <2>1. DOMAIN Digits = 1..4 /\ Digits[1] = "0" /\ Digits[2] = "1" /\ Digits[3] = "2"
            /\ Digits[4] = "3"
    BY DEF Digits
  <2>. HIDE DEF Digits
  <2>2. \A x : x \in Range(Digits) <=> \E i \in 1..4 : x = Digits[i]
    BY <2>1 DEF Range
  <2>3. \A i \in 1..4 : i = 1 \/ i = 2 \/ i = 3 \/ i = 4
    OBVIOUS
  <2>. QED
    BY <2>1, <2>2, <2>3
<1>. QED
  BY <1>1 DEF Character, Letters

\* the digits, which differ,
LEMMA DigitsAre ==
  /\ Digits[1] = "0" /\ Digits[2] = "1" /\ Digits[3] = "2" /\ Digits[4] = "3"
  /\ \A d \in 1..4 : Digits[d] \in {"0", "1", "2", "3"}
  /\ \A d, e \in 1..4 : Digits[d] = Digits[e] => d = e
<1>1. Digits[1] = "0" /\ Digits[2] = "1" /\ Digits[3] = "2" /\ Digits[4] = "3"
  BY DEF Digits
<1>2. \A i \in 1..4 : i = 1 \/ i = 2 \/ i = 3 \/ i = 4
  OBVIOUS
<1>. QED
  BY <1>1, <1>2

\* and the letters.
LEMMA LetterIs == Letters = {"S", "O", "o", "V", "?"} /\ Letters \subseteq Character
BY CharacterIs DEF Letters

\* Two sequences, one behind the other.
LEMMA JoinedAre ==
  ASSUME NEW E, NEW s \in Seq(E), NEW t \in Seq(E)
  PROVE  /\ s \o t \in Seq(E) /\ Len(s \o t) = Len(s) + Len(t) /\ Len(s) \in Nat /\ Len(t) \in Nat
         /\ \A i \in 1..Len(s) : (s \o t)[i] = s[i]
         /\ \A i \in 1..Len(t) : (s \o t)[Len(s) + i] = t[i]
OBVIOUS

\* A command with an address and a number.
Long(c) == c.command \in {"S", "O", "o"}

\* The fields of a command.
LEMMA CommandFields ==
  ASSUME NEW c \in Commands
  PROVE  /\ c.command \in Letters /\ c.address \in 0..3 /\ c.number \in 0..15
         /\ c.bytes \in Seq(Character) /\ Len(c.bytes) \in 0..15
         /\ Len(c.bytes) = IF c.command = "S" THEN c.number ELSE 0
<1>1. c \in [command : Letters, address : 0..3, number : 0..15, bytes : Seq(Character)]
  BY DEF Commands, Address
<1>2. Len(c.bytes) = IF c.command = "S" THEN c.number ELSE 0
  BY DEF Commands
<1>. QED
  BY <1>1, <1>2

\* The two digits of a number.
LEMMA NumberIs ==
  ASSUME NEW n \in 0..15
  PROVE  /\ n \div 4 \in 0..3 /\ n % 4 \in 0..3 /\ n = 4 * (n \div 4) + (n % 4)
         /\ High(n) \in Character /\ High(n) = Digits[(n \div 4) + 1]
         /\ Low(n) \in Character /\ Low(n) = Digits[(n % 4) + 1]
<1>1. n \div 4 \in 0..3 /\ n % 4 \in 0..3 /\ n = 4 * (n \div 4) + (n % 4)
  <2>1. n \in Nat /\ n <= 15
    OBVIOUS
  <2>. QED
    BY <2>1
<1>2. (n \div 4) + 1 \in 1..4 /\ (n % 4) + 1 \in 1..4
  BY <1>1
<1>. QED
  BY <1>1, <1>2, DigitsAre, CharacterIs DEF High, Low

\* Seven elements make a sequence,
LEMMA SevenAre ==
  ASSUME NEW E, NEW a1 \in E, NEW a2 \in E, NEW a3 \in E, NEW a4 \in E, NEW a5 \in E,
         NEW a6 \in E, NEW a7 \in E, NEW s, s = <<a1, a2, a3, a4, a5, a6, a7>>
  PROVE  /\ s \in Seq(E) /\ Len(s) = 7 /\ s[1] = a1 /\ s[2] = a2 /\ s[3] = a3 /\ s[4] = a4
         /\ s[5] = a5 /\ s[6] = a6 /\ s[7] = a7
OBVIOUS

\* and so do two.
LEMMA TwoAre ==
  ASSUME NEW E, NEW a1 \in E, NEW a2 \in E, NEW s, s = <<a1, a2>>
  PROVE  s \in Seq(E) /\ Len(s) = 2 /\ s[1] = a1 /\ s[2] = a2
OBVIOUS

\* The line of a command with an address,
LEMMA LineOfLong ==
  ASSUME NEW c \in Commands, Long(c)
  PROVE  /\ Line(c) \in Seq(Character) /\ Len(Line(c)) = 7
         /\ Line(c)[1] = c.command /\ Line(c)[4] = "," /\ Line(c)[7] = "#"
         /\ Line(c)[2] = High(c.address) /\ Line(c)[3] = Low(c.address)
         /\ Line(c)[5] = High(c.number) /\ Line(c)[6] = Low(c.number)
<1>1. c.command \in Character /\ c.command \notin {"V", "?"} /\ "," \in Character
          /\ "#" \in Character
  BY CharacterIs DEF Long
<1>2. /\ High(c.address) \in Character /\ Low(c.address) \in Character
      /\ High(c.number) \in Character /\ Low(c.number) \in Character
  <2>1. c.address \in 0..15 /\ c.number \in 0..15
    BY CommandFields
  <2>. QED
    BY <2>1, NumberIs
<1>3. Line(c) = <<c.command, High(c.address), Low(c.address), ",", High(c.number), Low(c.number),
                  "#">>
  BY <1>1 DEF Line
<1> DEFINE a1 == c.command
           a2 == High(c.address)
           a3 == Low(c.address)
           a4 == ","
           a5 == High(c.number)
           a6 == Low(c.number)
           a7 == "#"
           l == Line(c)
<1>4. /\ a1 \in Character /\ a2 \in Character /\ a3 \in Character /\ a4 \in Character
      /\ a5 \in Character /\ a6 \in Character /\ a7 \in Character
  BY <1>1, <1>2
<1>9. l = <<a1, a2, a3, a4, a5, a6, a7>>
  BY <1>3
<1> HIDE DEF a1, a2, a3, a4, a5, a6, a7, l
<1>5. /\ <<a1, a2, a3, a4, a5, a6, a7>> \in Seq(Character)
      /\ Len(<<a1, a2, a3, a4, a5, a6, a7>>) = 7
  BY <1>4
<1>6. l[1] = a1 /\ l[2] = a2 /\ l[3] = a3 /\ l[4] = a4 /\ l[5] = a5 /\ l[6] = a6 /\ l[7] = a7
  BY <1>9
<1>8. l \in Seq(Character) /\ Len(l) = 7
  BY <1>9, <1>5, Zenon
<1>. QED
  BY <1>6, <1>8 DEF a1, a2, a3, a4, a5, a6, a7, l

\* and of one without.
LEMMA LineOfShort ==
  ASSUME NEW c \in Commands, ~Long(c)
  PROVE  /\ Line(c) \in Seq(Character) /\ Len(Line(c)) = 2
         /\ Line(c)[1] = c.command /\ Line(c)[2] = "#"
<1>1. c.command \in {"V", "?"} /\ c.command \in Character /\ "#" \in Character
  BY CommandFields, CharacterIs, LetterIs DEF Long
<1>2. Line(c) = <<c.command, "#">>
  BY <1>1 DEF Line
<1>. QED
  BY <1>1, <1>2, TwoAre

\* The characters of a command are its line and its bytes.
LEMMA CharactersAre ==
  ASSUME NEW c \in Commands
  PROVE  /\ Line(c) \in Seq(Character) /\ Len(Line(c)) = IF Long(c) THEN 7 ELSE 2
         /\ Characters(c) \in Seq(Character) /\ Len(Characters(c)) = Len(Line(c)) + Len(c.bytes)
         /\ \A i \in 1..Len(Line(c)) : Characters(c)[i] = Line(c)[i]
         /\ \A i \in 1..Len(c.bytes) : Characters(c)[Len(Line(c)) + i] = c.bytes[i]
<1>1. Line(c) \in Seq(Character) /\ Len(Line(c)) = IF Long(c) THEN 7 ELSE 2
  BY LineOfLong, LineOfShort
<1>2. c.bytes \in Seq(Character)
  BY CommandFields
<1> DEFINE L == Line(c)
           B == c.bytes
<1>3. L \in Seq(Character) /\ B \in Seq(Character) /\ Characters(c) = L \o B
  BY <1>1, <1>2 DEF Characters
<1> HIDE DEF L, B
<1>4. /\ L \o B \in Seq(Character) /\ Len(L \o B) = Len(L) + Len(B)
      /\ \A i \in 1..Len(L) : (L \o B)[i] = L[i]
      /\ \A i \in 1..Len(B) : (L \o B)[Len(L) + i] = B[i]
  BY <1>3, JoinedAre
<1>5. /\ Characters(c) \in Seq(Character) /\ Len(Characters(c)) = Len(L) + Len(B)
      /\ \A i \in 1..Len(L) : Characters(c)[i] = L[i]
      /\ \A i \in 1..Len(B) : Characters(c)[Len(L) + i] = B[i]
  BY ONLY <1>3, <1>4
<1>. QED
  BY <1>1, <1>5 DEF L, B

\* The operation of First: the characters of one command more,
Adds == [s \in Seq(Character) |-> [c \in Commands |-> s \o Characters(c)]]

\* which is one on the sequences.
LEMMA AddsIs ==
  /\ Adds \in Operations(Seq(Character), Commands)
  /\ \A s \in Seq(Character), c \in Commands : Adds[s][c] = s \o Characters(c)
<1>1. ASSUME NEW s \in Seq(Character), NEW c \in Commands
      PROVE  s \o Characters(c) \in Seq(Character)
  BY CharactersAre, JoinedAre
<1>. QED
  BY <1>1 DEF Adds, Operations

\* The characters of a sequence of commands
AddedAre(x) == FoldLeft(LAMBDA s, c : s \o Characters(c), <<>>, x)

\* are its fold.
LEMMA AddedIsFold ==
  ASSUME NEW x \in Seq(Commands)
  PROVE  IsFold(AddedAre(x), Seq(Character), Adds, <<>>, x)
<1> DEFINE G == Adds
           A == Seq(Character)
           E == Commands
           Eq(f) == f = [s \in SUBSET (DOMAIN x) |-> IF s = {} THEN <<>> ELSE
                           f[s \ {Max(s)}] \o Characters(x[Max(s)])]
           h == CHOOSE f : Eq(f)
<1>0. Len(x) \in Nat /\ x \in [1..Len(x) -> E] /\ DOMAIN x = 1..Len(x) /\ <<>> \in A
  OBVIOUS
<1>1. AddedAre(x) = h[DOMAIN x]
  BY DEF AddedAre, FoldLeft, MapThenFoldSet, Max
<1>2. G \in Operations(A, E) /\ \A n \in A, e \in E : G[n][e] = n \o Characters(e)
  BY AddsIs
<1> HIDE DEF G, E, A
<1>a. \A s \in SUBSET (DOMAIN x) : s # {} => x[Max(s)] \in E
  BY <1>0, MaxIn
<1>3. \E f : Eq(f)
  <2>1. PICK f : IsFoldFunction(f, A, G, <<>>, x, Len(x))
    BY <1>0, <1>2, FoldExists DEF E
  <2>2. /\ f \in [SUBSET (DOMAIN x) -> A] /\ f[{}] = <<>>
        /\ \A s \in SUBSET (DOMAIN x) : s # {} => f[s] = G[f[s \ {Max(s)}]][x[Max(s)]]
    BY <1>0, <2>1 DEF IsFoldFunction
  <2>3. ASSUME NEW s \in SUBSET (DOMAIN x)
        PROVE  f[s] = IF s = {} THEN <<>> ELSE f[s \ {Max(s)}] \o Characters(x[Max(s)])
    <3>1. f[s \ {Max(s)}] \in A
      BY <2>2
    <3>. QED
      BY <1>2, <1>a, <2>2, <3>1
  <2>4. Eq(f)
    BY <2>2, <2>3
  <2>. QED
    BY <2>4
<1>4. Eq(h)
  BY <1>3
<1> HIDE DEF h
<1>5. FoldGoes(h, A, G, <<>>, x, Len(x))
  <2>1. h[{}] = <<>>
    BY <1>4
  <2>2. ASSUME NEW s \in SUBSET (DOMAIN x), s # {}, h[s \ {Max(s)}] \in A
        PROVE  h[s] = G[h[s \ {Max(s)}]][x[Max(s)]]
    <3>1. h[s] = h[s \ {Max(s)}] \o Characters(x[Max(s)])
      BY <1>4, <2>2
    <3>. QED
      BY <1>2, <1>a, <2>2, <3>1
  <2>. QED
    BY <1>0, <2>1, <2>2 DEF FoldGoes
<1>6. IsFold(h[1..Len(x)], A, G, <<>>, x)
  BY <1>0, <1>2, <1>5, FoldSteps DEF E
<1>. QED
  BY <1>0, <1>1, <1>6 DEF A, G

\* What is written to the host,
Answer == Character \cup {"version"}
\* the states of memory and answers,
States == [memory : [Address -> Character], answers : Seq(Answer)]
\* and the first one.
Start == [memory |-> [a \in Address |-> "0"], answers |-> <<>>]

\* The operation of After: what a command does,
Does == [s \in States |-> [c \in Commands |-> Effect(s, c)]]

\* which leads from state to state.
LEMMA EffectTyped ==
  ASSUME NEW s \in States, NEW c \in Commands
  PROVE  Effect(s, c) \in States
<1>0. /\ c.command \in {"S", "O", "o", "V", "?"} /\ c.address \in Address /\ c.number \in 0..15
      /\ c.bytes \in Seq(Character) /\ (c.command = "S" => Len(c.bytes) = c.number)
  BY CommandFields, LetterIs DEF Address
<1>1. s.memory \in [Address -> Character] /\ s.answers \in Seq(Answer)
      /\ s = [memory |-> s.memory, answers |-> s.answers]
  BY DEF States
<1>2. CASE c.command = "S"
  <2> DEFINE M == [a \in Address |-> IF a \in c.address .. c.address + c.number - 1
                              THEN c.bytes[a - c.address + 1] ELSE s.memory[a]]
  <2>1. Effect(s, c) = [s EXCEPT !.memory = M]
    BY <1>2 DEF Effect
  <2>2. ASSUME NEW a \in Address PROVE M[a] \in Character
    <3>1. CASE a \in c.address .. c.address + c.number - 1
      <4>1. a - c.address + 1 \in 1..Len(c.bytes)
        BY <1>0, <1>2, <3>1 DEF Address
      <4>. QED
        BY <1>0, <3>1, <4>1
    <3>. QED
      BY <1>1, <3>1
  <2>3. M \in [Address -> Character]
    BY <2>2
  <2>. HIDE DEF M
  <2>. QED
    BY <1>1, <2>1, <2>3 DEF States
<1>3. CASE c.command = "O"
  <2>1. Effect(s, c) = [s EXCEPT !.memory[c.address] = Low(c.number)]
    BY <1>3 DEF Effect
  <2>2. Low(c.number) \in Character
    BY <1>0, NumberIs
  <2>. QED
    BY <1>1, <2>1, <2>2 DEF States
<1>4. CASE c.command = "o"
  <2>1. Effect(s, c) = [s EXCEPT !.answers = Append(s.answers, s.memory[c.address])]
    BY <1>4 DEF Effect
  <2>2. s.memory[c.address] \in Answer
    BY <1>0, <1>1 DEF Answer
  <2>3. Append(s.answers, s.memory[c.address]) \in Seq(Answer)
    BY <1>1, <2>2
  <2>. QED
    BY <1>1, <2>1, <2>3 DEF States
<1>5. CASE c.command = "V"
  <2>1. Effect(s, c) = [s EXCEPT !.answers = Append(s.answers, "version")]
    BY <1>5 DEF Effect
  <2>2. Append(s.answers, "version") \in Seq(Answer)
    <3>1. "version" \in Answer
      BY DEF Answer
    <3>. QED
      BY <1>1, <3>1
  <2>. QED
    BY <1>1, <2>1, <2>2 DEF States
<1>6. CASE c.command = "?"
  BY <1>6 DEF Effect
<1>. QED
  BY <1>0, <1>2, <1>3, <1>4, <1>5, <1>6

\* So it is one on the states,
LEMMA DoesIs ==
  /\ Does \in Operations(States, Commands) /\ Start \in States
  /\ \A s \in States, c \in Commands : Does[s][c] = Effect(s, c)
<1>1. Start \in States
  <2>1. "0" \in Character
    BY CharacterIs
  <2>. QED
    BY <2>1 DEF Start, States
<1>. QED
  BY <1>1, EffectTyped DEF Does, Operations

\* and what a sequence of commands does
DoneBy(x) == FoldLeft(Effect, Start, x)

\* is its fold.
LEMMA DoneIsFold ==
  ASSUME NEW x \in Seq(Commands)
  PROVE  IsFold(DoneBy(x), States, Does, Start, x)
<1> DEFINE G == Does
           A == States
           E == Commands
           Eq(f) == f = [s \in SUBSET (DOMAIN x) |-> IF s = {} THEN Start ELSE
                           Effect(f[s \ {Max(s)}], x[Max(s)])]
           h == CHOOSE f : Eq(f)
<1>0. Len(x) \in Nat /\ x \in [1..Len(x) -> E] /\ DOMAIN x = 1..Len(x)
  OBVIOUS
<1>1. DoneBy(x) = h[DOMAIN x]
  BY DEF DoneBy, FoldLeft, MapThenFoldSet, Max
<1>2. G \in Operations(A, E) /\ Start \in A /\ \A n \in A, e \in E : G[n][e] = Effect(n, e)
  BY DoesIs
<1> HIDE DEF G, E, A
<1>a. \A s \in SUBSET (DOMAIN x) : s # {} => x[Max(s)] \in E
  BY <1>0, MaxIn
<1>3. \E f : Eq(f)
  <2>1. PICK f : IsFoldFunction(f, A, G, Start, x, Len(x))
    BY <1>0, <1>2, FoldExists DEF E
  <2>2. /\ f \in [SUBSET (DOMAIN x) -> A] /\ f[{}] = Start
        /\ \A s \in SUBSET (DOMAIN x) : s # {} => f[s] = G[f[s \ {Max(s)}]][x[Max(s)]]
    BY <1>0, <2>1 DEF IsFoldFunction
  <2>3. ASSUME NEW s \in SUBSET (DOMAIN x)
        PROVE  f[s] = IF s = {} THEN Start ELSE Effect(f[s \ {Max(s)}], x[Max(s)])
    <3>1. f[s \ {Max(s)}] \in A
      BY <2>2
    <3>. QED
      BY <1>2, <1>a, <2>2, <3>1
  <2>4. Eq(f)
    BY <2>2, <2>3
  <2>. QED
    BY <2>4
<1>4. Eq(h)
  BY <1>3
<1> HIDE DEF h
<1>5. FoldGoes(h, A, G, Start, x, Len(x))
  <2>1. h[{}] = Start
    BY <1>4
  <2>2. ASSUME NEW s \in SUBSET (DOMAIN x), s # {}, h[s \ {Max(s)}] \in A
        PROVE  h[s] = G[h[s \ {Max(s)}]][x[Max(s)]]
    <3>1. h[s] = Effect(h[s \ {Max(s)}], x[Max(s)])
      BY <1>4, <2>2
    <3>. QED
      BY <1>2, <1>a, <2>2, <3>1
  <2>. QED
    BY <1>0, <2>1, <2>2 DEF FoldGoes
<1>6. IsFold(h[1..Len(x)], A, G, Start, x)
  BY <1>0, <1>2, <1>5, FoldSteps DEF E
<1>. QED
  BY <1>0, <1>1, <1>6 DEF A, G

\* A beginning of a sequence, and the one that is longer by one.
LEMMA LongerPrefix ==
  ASSUME NEW E, NEW x \in Seq(E), NEW n \in 1..Len(x)
  PROVE  /\ SubSeq(x, 1, n - 1) \in Seq(E) /\ SubSeq(x, 1, n) \in Seq(E) /\ x[n] \in E
         /\ SubSeq(x, 1, n) = Append(SubSeq(x, 1, n - 1), x[n])
OBVIOUS

\* The shortest has nothing.
LEMMA NoPrefix == ASSUME NEW x PROVE SubSeq(x, 1, 0) = <<>>
OBVIOUS

\* The characters of n commands, and what these do, from those of n - 1.
LEMMA FirstSteps ==
  ASSUME script \in Seq(Commands)
  PROVE  /\ First(0) = <<>> /\ After(0) = Start
         /\ \A n \in 1..Len(script) :
              /\ script[n] \in Commands /\ First(n - 1) \in Seq(Character)
              /\ After(n - 1) \in States
              /\ First(n) = First(n - 1) \o Characters(script[n])
              /\ After(n) = Effect(After(n - 1), script[n])
<1>1. \A n : First(n) = AddedAre(SubSeq(script, 1, n)) /\ After(n) = DoneBy(SubSeq(script, 1, n))
  BY DEF First, AddedAre, After, DoneBy, Start
<1>2. First(0) = <<>> /\ After(0) = Start
  <2>1. SubSeq(script, 1, 0) = <<>> /\ <<>> \in Seq(Commands)
    BY NoPrefix
  <2>2. IsFold(AddedAre(<<>>), Seq(Character), Adds, <<>>, <<>>)
    BY <2>1, AddedIsFold
  <2>3. IsFold(DoneBy(<<>>), States, Does, Start, <<>>)
    BY <2>1, DoneIsFold
  <2>. QED
    BY <1>1, <2>1, <2>2, <2>3, FoldOfNone
<1>3. ASSUME NEW n \in 1..Len(script)
      PROVE  /\ script[n] \in Commands /\ First(n - 1) \in Seq(Character) /\ After(n - 1) \in States
             /\ First(n) = First(n - 1) \o Characters(script[n])
             /\ After(n) = Effect(After(n - 1), script[n])
  <2> DEFINE x == SubSeq(script, 1, n - 1)
             c == script[n]
  <2>1. x \in Seq(Commands) /\ c \in Commands /\ SubSeq(script, 1, n) = Append(x, c)
    BY LongerPrefix
  <2> HIDE DEF x, c
  <2>2. Append(x, c) \in Seq(Commands)
    BY <2>1
  <2>3. /\ IsFold(AddedAre(x), Seq(Character), Adds, <<>>, x)
        /\ IsFold(AddedAre(Append(x, c)), Seq(Character), Adds, <<>>, Append(x, c))
    BY <2>1, <2>2, AddedIsFold
  <2>4. /\ IsFold(DoneBy(x), States, Does, Start, x)
        /\ IsFold(DoneBy(Append(x, c)), States, Does, Start, Append(x, c))
    BY <2>1, <2>2, DoneIsFold
  <2>5. AddedAre(x) \in Seq(Character) /\ DoneBy(x) \in States
    BY <2>1, <2>3, <2>4, FoldTyped
  <2>6. AddedAre(Append(x, c)) = Adds[AddedAre(x)][c]
    BY <2>1, <2>3, FoldOfAppend
  <2>7. DoneBy(Append(x, c)) = Does[DoneBy(x)][c]
    BY <2>1, <2>4, FoldOfAppend
  <2>8. /\ AddedAre(Append(x, c)) = AddedAre(x) \o Characters(c)
        /\ DoneBy(Append(x, c)) = Effect(DoneBy(x), c)
    BY <2>1, <2>5, <2>6, <2>7, AddsIs, DoesIs
  <2>9. /\ First(n - 1) = AddedAre(x) /\ After(n - 1) = DoneBy(x)
        /\ First(n) = AddedAre(Append(x, c)) /\ After(n) = DoneBy(Append(x, c))
    BY <1>1, <2>1 DEF x
  <2>. QED
    BY <2>1, <2>5, <2>8, <2>9 DEF c
<1>. QED
  BY <1>2, <1>3

\* Where the commands are in the stream.
LEMMA StreamIs ==
  ASSUME script \in Seq(Commands)
  PROVE  /\ Len(First(0)) = 0 /\ Stream \in Seq(Character)
         /\ \A n \in 0..Len(script) : Len(First(n)) \in Nat /\ Len(First(n)) <= Len(Stream)
         /\ \A n \in 1..Len(script) :
              /\ script[n] \in Commands
              /\ Len(First(n)) = Len(First(n - 1)) + Len(Characters(script[n]))
              /\ \A j \in 1..Len(Characters(script[n])) :
                   Stream[Len(First(n - 1)) + j] = Characters(script[n])[j]
<1> DEFINE N == Len(script)
           F == [n \in 0..N |-> First(n)]
           C == [n \in 1..N |-> Characters(script[n])]
<1>0. N \in Nat
  OBVIOUS
<1>1. First(0) = <<>> /\ \A n \in 1..N : script[n] \in Commands
  BY FirstSteps
<1>2. /\ F[0] = <<>> /\ C \in [1..N -> Seq(Character)]
      /\ \A n \in 1..N : n - 1 \in 0..N /\ F[n - 1] \in Seq(Character) /\ F[n] = F[n - 1] \o C[n]
  <2>1. \A n \in 1..N : Characters(script[n]) \in Seq(Character)
    BY <1>1, CharactersAre
  <2>2. F[0] = <<>> /\ C \in [1..N -> Seq(Character)]
    BY <1>0, <1>1, <2>1
  <2>3. ASSUME NEW n \in 1..N
        PROVE  n - 1 \in 0..N /\ F[n - 1] \in Seq(Character) /\ F[n] = F[n - 1] \o C[n]
    <3>1. n - 1 \in 0..N /\ n \in 0..N
      BY <1>0
    <3>2. F[n - 1] = First(n - 1) /\ F[n] = First(n) /\ C[n] = Characters(script[n])
      BY <3>1
    <3>3. First(n - 1) \in Seq(Character) /\ First(n) = First(n - 1) \o Characters(script[n])
      BY FirstSteps
    <3>. HIDE DEF F, C
    <3>. QED
      BY <3>1, <3>2, <3>3, Zenon
  <2>. QED
    BY <2>2, <2>3
<1>3. \A n \in 0..N : F[n] = First(n)
  OBVIOUS
<1>4. \A n \in 1..N : C[n] = Characters(script[n])
  OBVIOUS
<1>5. Stream = F[N]
  BY <1>0, <1>3 DEF Stream
<1> HIDE DEF N, F, C
<1>6. \A n \in 0..N : F[n] \in Seq(Character)
  <2>1. ASSUME NEW n \in 1..N PROVE F[n] \in Seq(Character)
    BY <1>2, JoinedAre
  <2>2. \A n \in 0..N : n = 0 \/ n \in 1..N
    BY <1>0
  <2>3. F[0] \in Seq(Character)
    <3>1. <<>> \in Seq(Character)
      OBVIOUS
    <3>. QED
      BY <1>2, <3>1, Zenon
  <2>. QED
    BY <2>1, <2>2, <2>3
<1>7. \A n \in 1..N :
        /\ Len(F[n]) = Len(F[n - 1]) + Len(C[n]) /\ Len(F[n - 1]) \in Nat /\ Len(C[n]) \in Nat
        /\ \A i \in 1..Len(F[n - 1]) : F[n][i] = F[n - 1][i]
        /\ \A j \in 1..Len(C[n]) : F[n][Len(F[n - 1]) + j] = C[n][j]
  <2>1. ASSUME NEW n \in 1..N
        PROVE  /\ Len(F[n]) = Len(F[n - 1]) + Len(C[n])
               /\ Len(F[n - 1]) \in Nat /\ Len(C[n]) \in Nat
               /\ \A i \in 1..Len(F[n - 1]) : F[n][i] = F[n - 1][i]
               /\ \A j \in 1..Len(C[n]) : F[n][Len(F[n - 1]) + j] = C[n][j]
    <3>1. F[n - 1] \in Seq(Character) /\ C[n] \in Seq(Character) /\ F[n] = F[n - 1] \o C[n]
      BY <1>2
    <3>2. PICK s \in Seq(Character), t \in Seq(Character) : s = F[n - 1] /\ t = C[n]
      BY <3>1
    <3>3. /\ Len(s \o t) = Len(s) + Len(t) /\ Len(s) \in Nat /\ Len(t) \in Nat
          /\ \A i \in 1..Len(s) : (s \o t)[i] = s[i]
          /\ \A i \in 1..Len(t) : (s \o t)[Len(s) + i] = t[i]
      BY JoinedAre
    <3>4. F[n] = s \o t
      BY <3>1, <3>2, Zenon
    <3>. QED
      BY <3>2, <3>3, <3>4, Zenon
  <2>. QED
    BY <2>1
<1>8. \A n \in 0..N : Len(F[n]) \in Nat
  BY <1>6
<1> DEFINE P(m) == m <= N
        => \A n \in 0..m : Len(F[n]) <= Len(F[m]) /\ \A i \in 1..Len(F[n]) : F[m][i] = F[n][i]
           T == {m \in Nat : P(m)}
<1>9. 0 \in T
  BY <1>0, <1>8
<1>10. \A m \in T : m + 1 \in T
  <2>1. SUFFICES ASSUME NEW m \in Nat, P(m), m + 1 <= N, NEW n \in 0..m + 1
                 PROVE  Len(F[n]) <= Len(F[m + 1]) /\ \A i \in 1..Len(F[n]) : F[m + 1][i] = F[n][i]
    OBVIOUS
  <2>2. CASE n = m + 1
    BY <1>8, <2>1, <2>2
  <2>3. CASE n \in 0..m
    <3>1. Len(F[n]) <= Len(F[m]) /\ \A i \in 1..Len(F[n]) : F[m][i] = F[n][i]
      <4>1. m <= N
        BY <1>0, <2>1
      <4>. QED
        BY <2>1, <2>3, <4>1
    <3>2. Len(F[n]) \in Nat /\ Len(F[m]) \in Nat
      BY <1>8, <2>1, <2>3
    <3>3. /\ Len(F[m + 1]) = Len(F[m]) + Len(C[m + 1]) /\ Len(C[m + 1]) \in Nat
          /\ \A i \in 1..Len(F[m]) : F[m + 1][i] = F[m][i]
      <4>1. PICK k \in 1..N : k = m + 1 /\ k - 1 = m
        BY <1>0, <2>1
      <4>2. /\ Len(F[k]) = Len(F[k - 1]) + Len(C[k]) /\ Len(C[k]) \in Nat
            /\ \A i \in 1..Len(F[k - 1]) : F[k][i] = F[k - 1][i]
        BY <1>7
      <4>. QED
        BY <4>1, <4>2, Zenon
    <3>4. PICK a \in Nat, b \in Nat, d \in Nat :
            a = Len(F[n]) /\ b = Len(F[m]) /\ d = Len(C[m + 1])
      BY <3>2, <3>3
    <3>5. a <= b /\ Len(F[m + 1]) = b + d
      BY <3>1, <3>3, <3>4
    <3>6. a <= Len(F[m + 1]) /\ \A i \in 1..a : i \in 1..b
      BY <3>5
    <3>7. \A i \in 1..a : F[m + 1][i] = F[n][i]
      BY <3>1, <3>3, <3>4, <3>6
    <3>. QED
      BY <3>4, <3>6, <3>7
  <2>. QED
    BY <2>1, <2>2, <2>3
<1>11. T = Nat
  <2>1. T \in SUBSET Nat
    OBVIOUS
  <2>. HIDE DEF T
  <2>. QED
    BY <1>9, <1>10, <2>1, ByInduction
<1>12. P(N)
  BY <1>0, <1>11
<1> HIDE DEF T
<1>13. ASSUME NEW n \in 1..N, NEW j \in 1..Len(C[n])
       PROVE  Stream[Len(F[n - 1]) + j] = C[n][j]
  <2>1. /\ Len(F[n]) = Len(F[n - 1]) + Len(C[n]) /\ Len(F[n - 1]) \in Nat /\ Len(C[n]) \in Nat
        /\ F[n][Len(F[n - 1]) + j] = C[n][j]
    BY <1>7
  <2>2. PICK a \in Nat, b \in Nat : a = Len(F[n - 1]) /\ b = Len(C[n])
    BY <2>1
  <2>3. Len(F[n]) = a + b /\ j \in 1..b
    BY <2>1, <2>2
  <2>4. a + j \in 1..Len(F[n]) /\ n \in 0..N
    BY <1>0, <2>3
  <2>5. \A i \in 1..Len(F[n]) : F[N][i] = F[n][i]
    BY <1>0, <1>12, <2>4
  <2>6. F[N][a + j] = F[n][a + j]
    BY <2>4, <2>5
  <2>. QED
    BY <1>5, <2>1, <2>2, <2>6
<1>14. Len(F[0]) = 0
  BY <1>2
<1>15. \A n \in 0..N : Len(First(n)) \in Nat /\ Len(First(n)) <= Len(Stream)
  BY <1>0, <1>3, <1>5, <1>8, <1>12
<1>16. ASSUME NEW n \in 1..N
       PROVE  /\ script[n] \in Commands
              /\ Len(First(n)) = Len(First(n - 1)) + Len(Characters(script[n]))
              /\ \A j \in 1..Len(Characters(script[n])) :
                   Stream[Len(First(n - 1)) + j] = Characters(script[n])[j]
  <2>1. n - 1 \in 0..N /\ n \in 0..N
    BY <1>0
  <2>2. First(n) = F[n] /\ First(n - 1) = F[n - 1] /\ Characters(script[n]) = C[n]
    BY <1>3, <1>4, <2>1
  <2>3. Len(F[n]) = Len(F[n - 1]) + Len(C[n])
    BY <1>7
  <2>4. \A j \in 1..Len(C[n]) : Stream[Len(F[n - 1]) + j] = C[n][j]
    BY <1>13
  <2>. QED
    BY <1>1, <2>2, <2>3, <2>4, Zenon
<1>17. Stream \in Seq(Character) /\ Len(First(0)) = 0
  BY <1>0, <1>3, <1>5, <1>6, <1>14
<1>. QED
  BY <1>15, <1>16, <1>17 DEF N

\* The script is one of the host.
LEMMA ScriptIs ==
  ASSUME FlushingHost, script \in Scripts
  PROVE  script \in Seq(Commands)
BY DEF FlushingHost, MonitorAssumption

\* The n-th command in the stream: its line, its bytes, and the ends of both.
LEMMA CommandInStream ==
  ASSUME script \in Seq(Commands), NEW n \in 1..Len(script)
  PROVE  /\ script[n] \in Commands
         /\ Len(First(n - 1)) \in Nat /\ Len(First(n)) \in Nat /\ Len(First(n)) <= Len(Stream)
         /\ Len(Line(script[n])) = (IF Long(script[n]) THEN 7 ELSE 2)
         /\ Len(First(n)) = Len(First(n - 1)) + Len(Line(script[n])) + Len(script[n].bytes)
         /\ \A j \in 1..Len(Line(script[n])) : Stream[Len(First(n - 1)) + j] = Line(script[n])[j]
         /\ \A j \in 1..Len(script[n].bytes) :
              Stream[Len(First(n - 1)) + Len(Line(script[n])) + j] = script[n].bytes[j]
         /\ Len(First(n)) \in Ends /\ Len(First(n - 1)) + Len(Line(script[n])) \in Ends
<1>1. PICK c \in Commands : c = script[n]
  BY StreamIs
<1>2. PICK a, l, b : a = Len(First(n - 1)) /\ l = Len(Line(c)) /\ b = Len(c.bytes)
  OBVIOUS
<1>3. /\ a \in Nat /\ Len(First(n)) \in Nat /\ Len(First(n)) <= Len(Stream)
      /\ Len(First(n)) = a + Len(Characters(c))
      /\ \A j \in 1..Len(Characters(c)) : Stream[a + j] = Characters(c)[j]
  <2>1. n \in 0..Len(script) /\ n - 1 \in 0..Len(script)
    OBVIOUS
  <2>. QED
    BY <1>1, <1>2, <2>1, StreamIs
<1>4. /\ l = (IF Long(c) THEN 7 ELSE 2) /\ b \in Nat /\ Len(Characters(c)) = l + b
      /\ \A i \in 1..l : Characters(c)[i] = Line(c)[i]
      /\ \A i \in 1..b : Characters(c)[l + i] = c.bytes[i]
  <2>1. /\ Len(Line(c)) = (IF Long(c) THEN 7 ELSE 2)
        /\ Len(Characters(c)) = Len(Line(c)) + Len(c.bytes)
        /\ \A i \in 1..Len(Line(c)) : Characters(c)[i] = Line(c)[i]
        /\ \A i \in 1..Len(c.bytes) : Characters(c)[Len(Line(c)) + i] = c.bytes[i]
    BY CharactersAre
  <2>2. Len(c.bytes) \in Nat
    BY CommandFields
  <2>. QED
    BY <1>2, <2>1, <2>2, Zenon
<1>5. \A j \in 1..l : Stream[a + j] = Line(c)[j]
  BY <1>3, <1>4
<1>6. \A j \in 1..b : Stream[a + l + j] = c.bytes[j]
  <2>1. ASSUME NEW j \in 1..b PROVE Stream[a + l + j] = c.bytes[j]
    <3>1. l + j \in 1..Len(Characters(c)) /\ a + (l + j) = a + l + j
      BY <1>3, <1>4
    <3>2. Stream[a + (l + j)] = Characters(c)[l + j]
      BY <1>3, <3>1
    <3>. QED
      BY <1>4, <3>1, <3>2
  <2>. QED
    BY <2>1
<1>7. Len(First(n)) \in Ends /\ Len(First(n)) - b \in Ends
  <2>1. n \in DOMAIN script
    OBVIOUS
  <2>. QED
    BY <1>1, <1>2, <2>1 DEF Ends
<1>8. Len(First(n)) - b = a + l /\ Len(First(n)) = a + l + b
  BY <1>3, <1>4
<1>. QED
  BY <1>1, <1>2, <1>3, <1>4, <1>5, <1>6, <1>7, <1>8

\* A script that stays has the same characters and effects.
LEMMA SameScript ==
  ASSUME script' = script
  PROVE  /\ \A n : First(n)' = First(n) /\ After(n)' = After(n)
         /\ Stream' = Stream /\ Ends' = Ends
<1>1. \A n : First(n)' = First(n)
  BY DEF First, FoldLeft, MapThenFoldSet, Max
<1>2. \A n : After(n)' = After(n)
  BY DEF After, FoldLeft, MapThenFoldSet, Max
<1>3. Stream' = Stream
  BY <1>1 DEF Stream
<1>4. Ends' = Ends
  BY <1>1 DEF Ends
<1>. QED
  BY <1>1, <1>2, <1>3, <1>4

\* The next command, when the last one is done.
LEMMA NextCommand ==
  ASSUME script \in Seq(Commands), NEW n \in 0..Len(script), Len(First(n)) < Len(Stream)
  PROVE  n + 1 \in 1..Len(script) /\ Stream[Len(First(n)) + 1] = script[n + 1].command
<1>1. n # Len(script)
  BY DEF Stream
<1>2. PICK m \in 1..Len(script) : m = n + 1 /\ m - 1 = n
  BY <1>1
<1>3. /\ script[m] \in Commands /\ Len(Line(script[m])) = (IF Long(script[m]) THEN 7 ELSE 2)
      /\ \A j \in 1..Len(Line(script[m])) : Stream[Len(First(m - 1)) + j] = Line(script[m])[j]
  BY CommandInStream
<1>4. Line(script[m])[1] = script[m].command
  BY <1>3, LineOfLong, LineOfShort
<1>5. 1 \in 1..Len(Line(script[m]))
  BY <1>3
<1>6. Stream[Len(First(m - 1)) + 1] = script[m].command
  BY <1>3, <1>4, <1>5
<1>. QED
  BY <1>2, <1>6

\* The character that is parsed
LEMMA HeadIs ==
  ASSUME FlushingHost, NextCharacters, data # <<>>
  PROVE  /\ script \in Seq(Commands) /\ Taken \in Nat /\ Taken < Len(Stream) /\ Len(Stream) \in Nat
         /\ Len(data) >= 1 /\ Head(data) = Stream[Taken + 1]
         /\ Tail(data) \in Seq(Character) /\ Len(Tail(data)) = Len(data) - 1
         /\ \A i \in 1..Len(Tail(data)) : Tail(data)[i] = Stream[Taken + 1 + i]
<1>1. script \in Seq(Commands)
  BY ScriptIs DEF NextCharacters
<1>2. Stream \in Seq(Character)
  BY <1>1, StreamIs
<1>3. /\ data \in Seq(Character) /\ bank \in Seq(Character) /\ Taken \in Nat
      /\ sent \in 0..Len(Stream)
      /\ \A i \in 1..Len(data) : data[i] = Stream[Taken + i]
  BY DEF NextCharacters
<1>4. /\ Len(data) \in Nat /\ Len(data) >= 1 /\ Head(data) = data[1] /\ Len(bank) \in Nat
      /\ Tail(data) \in Seq(Character) /\ Len(Tail(data)) = Len(data) - 1
      /\ \A i \in 1..Len(Tail(data)) : Tail(data)[i] = data[i + 1]
  BY <1>3
<1>5. Len(Stream) \in Nat
  BY <1>2
<1>6. Taken < Len(Stream)
  BY <1>3, <1>4, <1>5 DEF Taken
<1>7. Head(data) = Stream[Taken + 1]
  BY <1>3, <1>4
<1>8. ASSUME NEW i \in 1..Len(Tail(data)) PROVE Tail(data)[i] = Stream[Taken + 1 + i]
  <2>1. i + 1 \in 1..Len(data) /\ Taken + (i + 1) = Taken + 1 + i
    BY <1>3, <1>4
  <2>2. data[i + 1] = Stream[Taken + (i + 1)]
    BY <1>3, <2>1
  <2>. QED
    BY <1>4, <2>1, <2>2
<1>. QED
  BY <1>1, <1>3, <1>4, <1>5, <1>6, <1>7, <1>8

\* is taken.
LEMMA HeadTaken ==
  ASSUME FlushingHost, NextCharacters, data # <<>>, data' = Tail(data), UNCHANGED <<script, sent,
                                                                                    bank>>
  PROVE  NextCharacters' /\ Taken' = Taken + 1
<1>1. First(0)' = First(0) /\ Stream' = Stream /\ Ends' = Ends
  BY SameScript
<1>2. /\ script \in Scripts /\ sent \in 0..Len(Stream) /\ Taken \in Nat
      /\ bank \in Seq(Character) /\ Len(bank) <= MaxPacket
      /\ data \in Seq(Character) /\ Len(data) <= MaxPacket
      /\ \A i \in 1..Len(bank) : bank[i] = Stream[sent - Len(bank) + i]
      /\ \A e \in Ends : e <= Taken \/ e >= Taken + Len(data)
      /\ \A e \in Ends : e <= sent - Len(bank) \/ e >= sent
  BY DEF NextCharacters
<1>3. /\ Len(Stream) \in Nat /\ Len(data) >= 1
      /\ Tail(data) \in Seq(Character) /\ Len(Tail(data)) = Len(data) - 1
      /\ \A i \in 1..Len(Tail(data)) : Tail(data)[i] = Stream[Taken + 1 + i]
  BY HeadIs
<1>4. PICK d \in Nat, t \in Nat, b \in Nat, s \in Nat :
        d = Len(data) /\ t = Taken /\ b = Len(bank) /\ s = sent
  <2>1. Len(data) \in Nat /\ Len(bank) \in Nat /\ Taken \in Nat /\ sent \in Nat
    BY <1>2, <1>3
  <2>. QED
    BY <2>1
<1>5. Taken' = t + 1 /\ t = s - b - d
  BY <1>3, <1>4 DEF Taken
<1>6. MaxPacket \in Nat
  BY DEF FlushingHost, MonitorAssumption
<1>7. \A e \in Ends : e \in Int
  <2>1. script \in Seq(Commands)
    BY HeadIs
  <2>2. \A n \in DOMAIN script : Len(First(n)) \in Nat /\ Len(script[n].bytes) \in Nat
    <3>1. ASSUME NEW n \in 1..Len(script)
          PROVE  Len(First(n)) \in Nat /\ Len(script[n].bytes) \in Nat
      BY <2>1, CommandInStream, CommandFields
    <3>. QED
      BY <2>1, <3>1
  <2>. QED
    BY <2>2 DEF Ends
<1>8. \A e \in Ends : e <= t + 1 \/ e >= t + 1 + (d - 1)
  BY <1>2, <1>4, <1>7
<1>9. /\ script' \in Scripts /\ sent' \in 0..Len(Stream) /\ t + 1 \in Nat
      /\ bank' \in Seq(Character)
      /\ Len(bank') <= MaxPacket /\ data' \in Seq(Character) /\ Len(data') = d - 1
      /\ d - 1 <= MaxPacket
  BY <1>2, <1>3, <1>4, <1>6
<1>10. \A i \in 1..d - 1 : data'[i] = Stream[t + 1 + i]
  BY <1>3, <1>4
<1>. QED
  BY <1>1, <1>2, <1>4, <1>5, <1>8, <1>9, <1>10 DEF NextCharacters

\* The ends are numbers.
LEMMA EndsAre ==
  ASSUME script \in Seq(Commands)
  PROVE  /\ \A e \in Ends : e \in Int
         /\ \A n \in 0..Len(script) : Len(First(n)) \in Nat
<1>1. \A n \in DOMAIN script : Len(First(n)) \in Nat /\ Len(script[n].bytes) \in Nat
  <2>1. ASSUME NEW n \in 1..Len(script)
        PROVE  Len(First(n)) \in Nat /\ Len(script[n].bytes) \in Nat
    BY CommandInStream, CommandFields
  <2>. QED
    BY <2>1
<1>2. \A e \in Ends : e \in Int
  BY <1>1 DEF Ends
<1>. QED
  BY <1>2, StreamIs

\* A step that takes no character keeps the place:
LEMMA PlaceKept ==
  ASSUME Place, UNCHANGED <<script, parser, xmd, memory, answers>>, Taken' = Taken,
         todo > 0 => data' = data, script \in Seq(Commands)
  PROVE  Place'
<1>1. \A n : After(n)' = After(n) /\ First(n)' = First(n)
  BY SameScript
<1>2. UNCHANGED <<script, command, current_number, ptr_data, todo, dst, memory, answers>>
  BY DEF parser, xmd
<1>3. ASSUME NEW n \in 0..Len(script), Between(n) PROVE Place'
  <2>1. Between(n)'
    BY <1>1, <1>2, <1>3 DEF Between, Done
  <2>. QED
    BY <1>2, <2>1 DEF Place
<1>4. ASSUME NEW n \in 1..Len(script), NEW k \in 1..6, InLine(n, k) PROVE Place'
  <2>1. InLine(n, k)'
    BY <1>1, <1>2, <1>4 DEF InLine, Done
  <2>. QED
    BY <1>2, <2>1 DEF Place
<1>5. ASSUME NEW n \in 1..Len(script), NEW k \in 0..14, InBytes(n, k) PROVE Place'
  <2>1. todo > 0
    <3>1. k \in 0..Len(script[n].bytes) - 1 /\ todo = Len(script[n].bytes) - k
      BY <1>5 DEF InBytes
    <3>2. Len(script[n].bytes) \in Nat
      BY CommandInStream, CommandFields
    <3>. QED
      BY <3>1, <3>2
  <2>2. InBytes(n, k)'
    BY <1>1, <1>2, <1>5, <2>1 DEF InBytes
  <2>. QED
    BY <1>2, <2>2 DEF Place
<1>. QED
  BY <1>3, <1>4, <1>5 DEF Place

\* A part of a sequence.
LEMMA PartIs ==
  ASSUME NEW E, NEW x \in Seq(E), NEW k \in Nat, NEW m \in Nat, k + m <= Len(x)
  PROVE  /\ SubSeq(x, k + 1, k + m) \in Seq(E) /\ Len(SubSeq(x, k + 1, k + m)) = m
         /\ \A i \in 1..m : SubSeq(x, k + 1, k + m)[i] = x[k + i]
OBVIOUS

\* the host sends a packet,
LEMMA SendKeeps ==
  ASSUME FlushingHost, NextCharacters, Place, Send
  PROVE  NextCharacters' /\ Place'
<1>1. script \in Seq(Commands) /\ First(0)' = First(0) /\ Stream' = Stream /\ Ends' = Ends
  BY ScriptIs, SameScript DEF Send, NextCharacters
<1>2. /\ script \in Scripts /\ sent \in 0..Len(Stream) /\ Taken \in Nat
      /\ data \in Seq(Character) /\ Len(data) <= MaxPacket
      /\ \A i \in 1..Len(data) : data[i] = Stream[Taken + i]
      /\ \A e \in Ends : e <= Taken \/ e >= Taken + Len(data)
  BY DEF NextCharacters
<1>3. PICK n \in 1..MaxPacket :
        /\ sent + n <= Len(Stream) /\ Ends \cap (sent + 1 .. sent + n - 1) = {}
        /\ bank' = SubSeq(Stream, sent + 1, sent + n) /\ sent' = sent + n
  BY DEF FlushingHost, Send
<1>4. bank = <<>> /\ UNCHANGED <<script, data, parser, xmd, memory, answers>>
  BY DEF Send
<1>5. PICK s \in Nat, d \in Nat, t \in Nat, l \in Nat :
        s = sent /\ d = Len(data) /\ t = Taken /\ l = Len(Stream)
  <2>1. Len(data) \in Nat /\ sent \in Nat /\ Len(Stream) \in Nat
    BY <1>1, <1>2, StreamIs
  <2>. QED
    BY <1>2, <2>1
<1>6. bank' \in Seq(Character) /\ Len(bank') = n /\ \A i \in 1..n : bank'[i] = Stream[s + i]
  <2>1. Stream \in Seq(Character) /\ s + n <= Len(Stream) /\ n \in Nat /\ n >= 1 /\ s + n >= s + 1
    BY <1>1, <1>3, <1>5, StreamIs DEF FlushingHost, MonitorAssumption
  <2>2. PICK x \in Seq(Character) : x = Stream
    BY <2>1
  <2>3. SubSeq(x, s + 1, s + n) \in Seq(Character) /\ Len(SubSeq(x, s + 1, s + n)) = n
        /\ \A i \in 1..n : SubSeq(x, s + 1, s + n)[i] = x[s + i]
    <3>1. s + n <= Len(x)
      BY <2>1, <2>2
    <3>. QED
      BY <2>1, <3>1, PartIs
  <2>. QED
    BY <1>3, <1>5, <2>2, <2>3, Zenon
<1>7. t = s - d /\ Taken' = t
  BY <1>3, <1>4, <1>5, <1>6 DEF Taken
<1>8. NextCharacters'
  <2>1. sent' \in 0..l /\ n <= MaxPacket /\ sent' - n = s /\ n \in Nat /\ sent' = s + n
    BY <1>3, <1>5 DEF FlushingHost, MonitorAssumption
  <2>2. \A e \in Ends : e <= s \/ e >= s + n
    <3>1. \A e \in Ends : e \in Int /\ e \notin s + 1 .. s + n - 1
      BY <1>1, <1>3, <1>5, EndsAre
    <3>. QED
      BY <2>1, <3>1
  <2>3. /\ data' \in Seq(Character) /\ Len(data') <= MaxPacket
        /\ \A i \in 1..Len(data') : data'[i] = Stream[t + i]
        /\ \A e \in Ends : e <= t \/ e >= t + Len(data')
    BY <1>2, <1>4, <1>5
  <2>. QED
    BY <1>1, <1>2, <1>4, <1>5, <1>6, <1>7, <2>1, <2>2, <2>3 DEF NextCharacters
<1>. QED
  BY <1>1, <1>4, <1>5, <1>7, <1>8, PlaceKept

\* or the monitor reads it.
LEMMA ReadKeeps ==
  ASSUME FlushingHost, NextCharacters, Place, Read
  PROVE  NextCharacters' /\ Place'
<1>1. script \in Seq(Commands) /\ Stream' = Stream /\ Ends' = Ends
  BY ScriptIs, SameScript DEF Read, NextCharacters
<1>2. /\ script \in Scripts /\ sent \in 0..Len(Stream) /\ Taken \in Nat
      /\ bank \in Seq(Character) /\ Len(bank) <= MaxPacket
      /\ \A i \in 1..Len(bank) : bank[i] = Stream[sent - Len(bank) + i]
      /\ \A e \in Ends : e <= sent - Len(bank) \/ e >= sent
  BY DEF NextCharacters
<1>3. /\ data = <<>> /\ data' = bank /\ bank' = <<>> /\ todo = 0
      /\ UNCHANGED <<script, sent, parser, xmd, memory, answers>>
  BY DEF Read, ReadBuffer
<1>4. PICK s \in Nat, b \in Nat, t \in Nat : s = sent /\ b = Len(bank) /\ t = Taken
  <2>1. Len(bank) \in Nat /\ sent \in Nat
    BY <1>1, <1>2, StreamIs
  <2>. QED
    BY <1>2, <2>1
<1>5. t = s - b /\ Taken' = t
  BY <1>3, <1>4 DEF Taken
<1>6. NextCharacters'
  <2>1. /\ bank' \in Seq(Character) /\ Len(bank') = 0 /\ 0 <= MaxPacket
        /\ \A i \in 1..0 : bank'[i] = Stream[sent' - Len(bank') + i]
    <3>1. <<>> \in Seq(Character) /\ Len(<<>>) = 0
      OBVIOUS
    <3>. QED
      BY <1>3, <3>1 DEF FlushingHost, MonitorAssumption
  <2>2. \A e \in Ends : e <= sent' - 0 \/ e >= sent'
    <3>1. \A e \in Ends : e \in Int
      BY <1>1, EndsAre
    <3>. QED
      BY <1>2, <1>3, <1>4, <3>1
  <2>3. /\ data' \in Seq(Character) /\ Len(data') = b /\ b <= MaxPacket
        /\ \A i \in 1..b : data'[i] = Stream[t + i]
        /\ \A e \in Ends : e <= t \/ e >= t + b
    BY <1>2, <1>3, <1>4, <1>5
  <2>4. sent' = sent /\ script' = script
    BY <1>3
  <2>. QED
    BY <1>1, <1>2, <1>4, <1>5, <2>1, <2>2, <2>3, <2>4 DEF NextCharacters
<1>. QED
  BY <1>1, <1>3, <1>4, <1>5, <1>6, PlaceKept

\* The digit behind the k-th character of a line.
DigitAt(c, k) ==
  CASE k = 1 -> c.address \div 4 [] k = 2 -> c.address % 4
    [] k = 4 -> c.number \div 4 [] OTHER -> c.number % 4

\* What can be the next character of a line.
LEMMA LineHeads ==
  ASSUME NEW c \in Commands, NEW k \in 1..Len(Line(c)) - 1
  PROVE  /\ Line(c)[k + 1] \notin Letters
         /\ k \in 1..6 /\ Len(Line(c)) = (IF Long(c) THEN 7 ELSE 2)
         /\ Line(c)[k + 1] = "#" => k = Len(Line(c)) - 1
         /\ Line(c)[k + 1] = "," => k = 3 /\ Long(c)
         /\ \A d \in 1..4 : Line(c)[k + 1] = Digits[d] =>
              k \in {1, 2, 4, 5} /\ Long(c) /\ d - 1 = DigitAt(c, k)
<1>1. Len(Line(c)) = IF Long(c) THEN 7 ELSE 2
  BY CharactersAre
<1>2. \A d \in 1..4 : Digits[d] \notin Letters /\ Digits[d] \notin {",", "#"}
  BY DigitsAre, LetterIs
<1>3. CASE ~Long(c)
  <2>1. k = 1 /\ k + 1 = 2 /\ Line(c)[2] = "#"
    BY <1>1, <1>3, LineOfShort
  <2>2. Line(c)[k + 1] = "#" /\ k = 1
    BY <2>1, Zenon
  <2>3. Len(Line(c)) = 2 /\ k \in 1..6 /\ k = Len(Line(c)) - 1
    BY <1>1, <1>3, <2>2
  <2> DEFINE x == Line(c)[k + 1]
  <2>4. x = "#" /\ x \notin Letters /\ x # "," /\ \A d \in 1..4 : x # Digits[d]
    BY <1>2, <2>2, LetterIs
  <2>. HIDE DEF x
  <2>5. /\ x \notin Letters
        /\ k \in 1..6 /\ Len(Line(c)) = (IF Long(c) THEN 7 ELSE 2)
        /\ x = "#" => k = Len(Line(c)) - 1
        /\ x = "," => k = 3 /\ Long(c)
        /\ \A d \in 1..4 : x = Digits[d] =>
              k \in {1, 2, 4, 5} /\ Long(c) /\ d - 1 = DigitAt(c, k)
    BY <1>1, <2>3, <2>4, Zenon
  <2>. QED
    BY <2>5 DEF x
<1>4. CASE Long(c)
  <2>1. k = 1 \/ k = 2 \/ k = 3 \/ k = 4 \/ k = 5 \/ k = 6
    BY <1>1, <1>4
  <2>2. /\ Line(c)[4] = "," /\ Line(c)[7] = "#"
        /\ Line(c)[2] = High(c.address) /\ Line(c)[3] = Low(c.address)
        /\ Line(c)[5] = High(c.number) /\ Line(c)[6] = Low(c.number)
    BY <1>4, LineOfLong
  <2>3. c.address \in 0..15 /\ c.number \in 0..15
    BY CommandFields
  <2>5. ASSUME NEW n \in 0..15
        PROVE  /\ High(n) \notin Letters /\ High(n) \notin {",", "#"}
               /\ Low(n) \notin Letters /\ Low(n) \notin {",", "#"}
               /\ \A d \in 1..4 : (High(n) = Digits[d]
                      => d - 1 = n \div 4) /\ (Low(n) = Digits[d] => d - 1 = n % 4)
    <3>0. PICK a \in 0..3, b \in 0..3 :
            a = n \div 4 /\ b = n % 4 /\ High(n) = Digits[a + 1] /\ Low(n) = Digits[b + 1]
      <4>1. /\ n \div 4 \in 0..3 /\ n % 4 \in 0..3
            /\ High(n) = Digits[(n \div 4) + 1] /\ Low(n) = Digits[(n % 4) + 1]
        BY NumberIs
      <4>. QED
        BY <4>1, Zenon
    <3>1. PICK h \in 1..4, l \in 1..4 :
            h - 1 = n \div 4 /\ l - 1 = n % 4 /\ High(n) = Digits[h] /\ Low(n) = Digits[l]
      <4>1. PICK h \in 1..4, l \in 1..4 : h = a + 1 /\ l = b + 1
        OBVIOUS
      <4>2. h - 1 = a /\ l - 1 = b
        BY <4>1
      <4>. QED
        BY <3>0, <4>1, <4>2, Zenon
    <3>2. \A d \in 1..4 : (High(n) = Digits[d] => d = h) /\ (Low(n) = Digits[d] => d = l)
      <4>1. ASSUME NEW d \in 1..4
            PROVE  (High(n) = Digits[d] => d = h) /\ (Low(n) = Digits[d] => d = l)
        <5>1. \A e, f \in 1..4 : Digits[e] = Digits[f] => e = f
          BY DigitsAre, Zenon
        <5>2. d \in 1..4 /\ h \in 1..4 /\ l \in 1..4
          OBVIOUS
        <5>. QED
          BY ONLY <3>1, <5>1, <5>2, Zenon
      <4>. QED
        BY ONLY <4>1
    <3>. QED
      BY <1>2, <3>1, <3>2
  <2> DEFINE x == Line(c)[k + 1]
  <2>12. Len(Line(c)) = 7 /\ k \in 1..6
    BY <1>1, <1>4
  <2>6. CASE k = 1
    <3>1. k + 1 = 2
      BY <2>6
    <3>2. x = High(c.address)
      BY <2>2, <3>1, Zenon
    <3>3. DigitAt(c, k) = (c.address \div 4)
      BY <2>6 DEF DigitAt
    <3>4. /\ x \notin Letters /\ x # "#" /\ x # ","
          /\ \A d \in 1..4 : x = Digits[d] => d - 1 = DigitAt(c, k)
      BY <2>3, <2>5, <3>2, <3>3
    <3>. HIDE DEF x
    <3>5. k \in {1, 2, 4, 5} /\ k \in 1..6
      BY <2>6
    <3>. QED
      BY <1>1, <1>4, <3>4, <3>5 DEF x
  <2>7. CASE k = 2
    <3>1. k + 1 = 3
      BY <2>7
    <3>2. x = Low(c.address)
      BY <2>2, <3>1, Zenon
    <3>3. DigitAt(c, k) = (c.address % 4)
      BY <2>7 DEF DigitAt
    <3>4. /\ x \notin Letters /\ x # "#" /\ x # ","
          /\ \A d \in 1..4 : x = Digits[d] => d - 1 = DigitAt(c, k)
      BY <2>3, <2>5, <3>2, <3>3
    <3>. HIDE DEF x
    <3>5. k \in {1, 2, 4, 5} /\ k \in 1..6
      BY <2>7
    <3>. QED
      BY <1>1, <1>4, <3>4, <3>5 DEF x
  <2>8. CASE k = 3
    <3>1. k + 1 = 4
      BY <2>8
    <3>2. x = ","
      BY <2>2, <3>1, Zenon
    <3>4. x \notin Letters /\ \A d \in 1..4 : x # Digits[d]
      BY <1>2, <3>2, LetterIs
    <3>5. x # "#"
      BY <3>2
    <3>6. k = 3 /\ 3 \in 1..6 /\ (k = 6 => k = Len(Line(c)) - 1)
      BY <2>12, <2>8
    <3>. QED
      BY <1>1, <1>4, <3>4, <3>5, <3>6
  <2>9. CASE k = 4
    <3>1. k + 1 = 5
      BY <2>9
    <3>2. x = High(c.number)
      BY <2>2, <3>1, Zenon
    <3>3. DigitAt(c, k) = (c.number \div 4)
      BY <2>9 DEF DigitAt
    <3>4. /\ x \notin Letters /\ x # "#" /\ x # ","
          /\ \A d \in 1..4 : x = Digits[d] => d - 1 = DigitAt(c, k)
      BY <2>3, <2>5, <3>2, <3>3
    <3>. HIDE DEF x
    <3>5. k \in {1, 2, 4, 5} /\ k \in 1..6
      BY <2>9
    <3>. QED
      BY <1>1, <1>4, <3>4, <3>5 DEF x
  <2>10. CASE k = 5
    <3>1. k + 1 = 6
      BY <2>10
    <3>2. x = Low(c.number)
      BY <2>2, <3>1, Zenon
    <3>3. DigitAt(c, k) = (c.number % 4)
      BY <2>10 DEF DigitAt
    <3>4. /\ x \notin Letters /\ x # "#" /\ x # ","
          /\ \A d \in 1..4 : x = Digits[d] => d - 1 = DigitAt(c, k)
      BY <2>3, <2>5, <3>2, <3>3
    <3>. HIDE DEF x
    <3>5. k \in {1, 2, 4, 5} /\ k \in 1..6
      BY <2>10
    <3>. QED
      BY <1>1, <1>4, <3>4, <3>5 DEF x
  <2>11. CASE k = 6
    <3>1. k + 1 = 7
      BY <2>11
    <3>2. x = "#"
      BY <2>2, <3>1, Zenon
    <3>4. x \notin Letters /\ \A d \in 1..4 : x # Digits[d]
      BY <1>2, <3>2, LetterIs
    <3>5. x # ","
      BY <3>2
    <3>6. k = 6 /\ 6 \in 1..6 /\ (k = 6 => k = Len(Line(c)) - 1)
      BY <2>12, <2>11
    <3>. QED
      BY <1>1, <1>4, <3>4, <3>5, <3>6
  <2>. QED
    BY <2>1, <2>6, <2>7, <2>8, <2>9, <2>10, <2>11, Zenon
<1>. QED
  BY <1>3, <1>4

\* Where the parser is when it takes a character.
LEMMA PlaceHead ==
  ASSUME FlushingHost, NextCharacters, Place, todo = 0, data # <<>>
  PROVE  \/ \E n \in 1..Len(script) :
              Between(n - 1) /\ script[n] \in Commands /\ Head(data) = script[n].command
         \/ \E n \in 1..Len(script) : \E k \in 1..Len(Line(script[n])) - 1 :
              InLine(n, k) /\ script[n] \in Commands /\ Head(data) = Line(script[n])[k + 1]
<1>1. script \in Seq(Commands) /\ Taken \in Nat /\ Taken < Len(Stream)
          /\ Head(data) = Stream[Taken + 1]
  BY HeadIs
<1>2. ASSUME NEW n \in 0..Len(script), Between(n)
      PROVE  \E m \in 1..Len(script) :
               Between(m - 1) /\ script[m] \in Commands /\ Head(data) = script[m].command
  <2>1. Taken = Len(First(n))
    BY <1>2 DEF Between
  <2>2. n + 1 \in 1..Len(script) /\ Stream[Len(First(n)) + 1] = script[n + 1].command
    BY <1>1, <2>1, NextCommand
  <2>3. n + 1 - 1 = n /\ script[n + 1] \in Commands
    BY <1>1, <2>2
  <2>. QED
    BY <1>1, <1>2, <2>1, <2>2, <2>3
<1>3. ASSUME NEW n \in 1..Len(script), NEW k \in 1..6, InLine(n, k)
      PROVE  /\ k \in 1..Len(Line(script[n])) - 1 /\ script[n] \in Commands
             /\ Head(data) = Line(script[n])[k + 1]
  <2>1. k \in 1..Len(Line(script[n])) - 1 /\ Taken = Len(First(n - 1)) + k
    BY <1>3 DEF InLine
  <2>2. PICK a \in Nat, l \in Nat :
          /\ a = Len(First(n - 1)) /\ l = Len(Line(script[n])) /\ script[n] \in Commands
          /\ \A j \in 1..l : Stream[a + j] = Line(script[n])[j]
    <3>1. /\ Len(First(n - 1)) \in Nat /\ script[n] \in Commands
          /\ Len(Line(script[n])) = (IF Long(script[n]) THEN 7 ELSE 2)
          /\ \A j \in 1..Len(Line(script[n])) : Stream[Len(First(n - 1)) + j] = Line(script[n])[j]
      BY <1>1, CommandInStream
    <3>2. Len(Line(script[n])) \in Nat
      BY <3>1
    <3>. QED
      BY <3>1, <3>2, Zenon
  <2>3. k + 1 \in 1..l /\ Taken + 1 = a + (k + 1)
    BY <2>1, <2>2
  <2>. QED
    BY <1>1, <2>1, <2>2, <2>3
<1>4. ASSUME NEW n \in 1..Len(script), NEW k \in 0..14, InBytes(n, k) PROVE FALSE
  <2>1. data = <<>>
    BY <1>4 DEF InBytes
  <2>. QED
    BY <2>1
<1>. QED
  BY <1>2, <1>3, <1>4 DEF Place

\* A digit is the next of its number,
LEMMA DigitKeeps ==
  ASSUME FlushingHost, NextCharacters, Place, ParseDigit
  PROVE  NextCharacters' /\ Place'
<1>1. PICK d \in 1..4 :
        /\ Parse(Digits[d]) /\ current_number' = (current_number * 4 + d - 1) % 16
        /\ data' = Tail(data) /\ UNCHANGED <<command, ptr_data, xmd, memory, answers>>
  BY DEF ParseDigit
<1>2. todo = 0 /\ data # <<>> /\ Head(data) = Digits[d] /\ UNCHANGED <<script, sent, bank>>
  BY <1>1 DEF Parse
<1>3. NextCharacters' /\ Taken' = Taken + 1
  BY <1>1, <1>2, HeadTaken
<1>4. script \in Seq(Commands) /\ Taken \in Nat
  BY HeadIs, <1>2
<1>5. \A n : After(n)' = After(n) /\ First(n)' = First(n)
  BY <1>2, SameScript
<1>6. ASSUME NEW n \in 1..Len(script), script[n] \in Commands, Head(data) = script[n].command
      PROVE  FALSE
  BY <1>2, <1>6, CommandFields, DigitsAre, LetterIs
<1>7. ASSUME NEW n \in 1..Len(script), NEW k \in 1..Len(Line(script[n])) - 1, InLine(n, k),
             script[n] \in Commands, Head(data) = Line(script[n])[k + 1]
      PROVE  Place'
  <2>1. PICK c \in Commands : c = script[n]
    BY <1>7
  <2>2. /\ k \in {1, 2, 4, 5} /\ Len(Line(c)) = 7
        /\ d - 1 = CASE k = 1 -> c.address \div 4 [] k = 2 -> c.address % 4
                     [] k = 4 -> c.number \div 4 [] OTHER -> c.number % 4
    <3>1. Line(c)[k + 1] = Digits[d] /\ k \in 1..Len(Line(c)) - 1
      BY <1>2, <1>7, <2>1, Zenon
    <3>2. k \in {1, 2, 4, 5} /\ Long(c) /\ d - 1 = DigitAt(c, k)
              /\ Len(Line(c)) = (IF Long(c) THEN 7 ELSE 2)
      <4>1. /\ \A e \in 1..4 : Line(c)[k + 1] = Digits[e] =>
                  k \in {1, 2, 4, 5} /\ Long(c) /\ e - 1 = DigitAt(c, k)
            /\ Len(Line(c)) = (IF Long(c) THEN 7 ELSE 2)
        BY <3>1, LineHeads
      <4>. QED
        BY <3>1, <4>1, Zenon
    <3>. QED
      BY <3>2 DEF DigitAt
  <2>3. /\ command = c.command /\ Taken = Len(First(n - 1)) + k /\ Done(n - 1)
        /\ k >= 4 => ptr_data = c.address
        /\ current_number = CASE k = 2 -> c.address \div 4 [] k = 3 -> c.address
                              [] k = 5 -> c.number \div 4 [] k = 6 -> c.number [] OTHER -> 0
    BY <1>7, <2>1 DEF InLine
  <2>4. /\ c.address \in 0..15 /\ c.address = 4 * (c.address \div 4) + (c.address % 4)
        /\ c.address \div 4 \in 0..3 /\ c.number \in 0..15 /\ c.number \div 4 \in 0..3
        /\ c.number = 4 * (c.number \div 4) + (c.number % 4) /\ c.address % 4 \in 0..3
        /\ c.number % 4 \in 0..3
    <3>1. c.address \in 0..15 /\ c.number \in 0..15
      BY CommandFields
    <3>. QED
      BY <3>1, NumberIs
  <2>5. current_number' = CASE k + 1 = 2 -> c.address \div 4 [] k + 1 = 3 -> c.address
                              [] k + 1 = 5 -> c.number \div 4 [] k + 1 = 6 -> c.number [] OTHER -> 0
    <3>1. CASE k \in {1, 4}
      <4>1. current_number = 0 /\ current_number * 4 + d - 1 = d - 1 /\ d - 1 \in 0..3
        BY <2>2, <2>3, <3>1
      <4>2. current_number' = d - 1
        <5>1. \A x \in 0..3 : x % 16 = x
          OBVIOUS
        <5>2. current_number' = (current_number * 4 + d - 1) % 16
          BY <1>1
        <5>. QED
          BY <4>1, <5>1, <5>2, Zenon
      <4>. QED
        BY <2>2, <3>1, <4>2
    <3>2. CASE k = 2
      <4>1. current_number = c.address \div 4 /\ d - 1 = c.address % 4
        BY <2>2, <2>3, <3>2
      <4>2. current_number * 4 + d - 1 = c.address
        BY <2>4, <4>1
      <4>3. c.address % 16 = c.address
        BY <2>4
      <4>. QED
        BY <1>1, <3>2, <4>2, <4>3
    <3>3. CASE k = 5
      <4>1. current_number = c.number \div 4 /\ d - 1 = c.number % 4
        BY <2>2, <2>3, <3>3
      <4>2. current_number * 4 + d - 1 = c.number
        BY <2>4, <4>1
      <4>3. c.number % 16 = c.number
        BY <2>4
      <4>. QED
        BY <1>1, <3>3, <4>2, <4>3
    <3>. QED
      BY <2>2, <3>1, <3>2, <3>3
  <2>6. InLine(n, k + 1)'
    <3>1. k + 1 \in 1..Len(Line(c)) - 1 /\ (k + 1 >= 4 => ptr_data = c.address)
      <4>1. Len(Line(c)) - 1 = 6 /\ k \in {1, 2, 4, 5}
        BY <2>2
      <4>2. k + 1 \in 1..6 /\ (k + 1 >= 4 => k >= 4)
        BY ONLY <4>1
      <4>. QED
        BY <2>3, <4>1, <4>2, Zenon
    <3>2. Taken' = Len(First(n - 1)) + (k + 1)
      <4>1. Len(First(n - 1)) \in Nat
        BY <1>4, CommandInStream
      <4>. QED
        BY <1>3, <2>3, <4>1
    <3>3. UNCHANGED <<script, command, ptr_data, todo, memory, answers>> /\ todo = 0
      BY <1>1, <1>2 DEF xmd
    <3>4. Done(n - 1)'
      BY <1>5, <2>3, <3>3 DEF Done
    <3>. QED
      BY <1>5, <2>1, <2>3, <2>5, <3>1, <3>2, <3>3, <3>4 DEF InLine
  <2>7. k + 1 \in 1..6
    BY <2>2
  <2>. QED
    BY <1>2, <2>6, <2>7 DEF Place
<1>. QED
  BY <1>2, <1>3, <1>6, <1>7, PlaceHead

\* a comma ends the address,
LEMMA CommaKeeps ==
  ASSUME FlushingHost, NextCharacters, Place, ParseComma
  PROVE  NextCharacters' /\ Place'
<1>1. /\ Parse(",") /\ ptr_data' = current_number /\ current_number' = 0
      /\ data' = Tail(data) /\ UNCHANGED <<command, xmd, memory, answers>>
  BY DEF ParseComma
<1>2. todo = 0 /\ data # <<>> /\ Head(data) = "," /\ UNCHANGED <<script, sent, bank>>
  BY <1>1 DEF Parse
<1>3. NextCharacters' /\ Taken' = Taken + 1
  BY <1>1, <1>2, HeadTaken
<1>4. script \in Seq(Commands) /\ Taken \in Nat
  BY HeadIs, <1>2
<1>5. \A n : After(n)' = After(n) /\ First(n)' = First(n)
  BY <1>2, SameScript
<1>6. ASSUME NEW n \in 1..Len(script), script[n] \in Commands, Head(data) = script[n].command
      PROVE  FALSE
  BY <1>2, <1>6, CommandFields, LetterIs
<1>7. ASSUME NEW n \in 1..Len(script), NEW k \in 1..Len(Line(script[n])) - 1, InLine(n, k),
             script[n] \in Commands, Head(data) = Line(script[n])[k + 1]
      PROVE  Place'
  <2>1. PICK c \in Commands : c = script[n]
    BY <1>7
  <2>2. k = 3 /\ Len(Line(c)) = 7
    <3>1. Line(c)[k + 1] = "," /\ k \in 1..Len(Line(c)) - 1
      BY <1>2, <1>7, <2>1, Zenon
    <3>2. k = 3 /\ Long(c) /\ Len(Line(c)) = (IF Long(c) THEN 7 ELSE 2)
      BY <3>1, LineHeads
    <3>. QED
      BY <3>2
  <2>3. command = c.command /\ Taken = Len(First(n - 1)) + 3 /\ Done(n - 1)
            /\ current_number = c.address
    BY <1>7, <2>1, <2>2 DEF InLine
  <2>6. InLine(n, 4)'
    <3>2. Taken' = Len(First(n - 1)) + 4
      <4>1. Len(First(n - 1)) \in Nat
        BY <1>4, CommandInStream
      <4>. QED
        BY <1>3, <2>3, <4>1
    <3>3. UNCHANGED <<script, command, todo, memory, answers>> /\ todo = 0
      BY <1>1, <1>2 DEF xmd
    <3>4. Done(n - 1)'
      BY <1>5, <2>3, <3>3 DEF Done
    <3>5. 4 \in 1..Len(Line(c)) - 1
      BY <2>2
    <3>6. PICK m \in 1..6 : m = 4
      OBVIOUS
    <3>7. current_number' = CASE m = 2 -> c.address \div 4 [] m = 3 -> c.address
                              [] m = 5 -> c.number \div 4 [] m = 6 -> c.number [] OTHER -> 0
      <4>1. m # 2 /\ m # 3 /\ m # 5 /\ m # 6
        BY <3>6
      <4>. QED
        BY <1>1, <4>1, Zenon
    <3>8. m >= 4 => ptr_data' = c.address
      BY <1>1, <2>3
    <3>9. m \in 1..Len(Line(c)) - 1 /\ Taken' = Len(First(n - 1)) + m
      BY <3>2, <3>5, <3>6
    <3>10. InLine(n, m)'
      BY <1>5, <2>1, <2>3, <3>3, <3>4, <3>7, <3>8, <3>9 DEF InLine
    <3>. QED
      BY <3>6, <3>10
  <2>7. 4 \in 1..6
    OBVIOUS
  <2>. QED
    BY <1>2, <2>6, <2>7 DEF Place
<1>. QED
  BY <1>2, <1>3, <1>6, <1>7, PlaceHead

\* and a letter begins the next command.
LEMMA CommandKeeps ==
  ASSUME FlushingHost, NextCharacters, Place, ParseCommand
  PROVE  NextCharacters' /\ Place'
<1>1. PICK l \in Letters : /\ Parse(l) /\ command' = l /\ current_number' = 0
                           /\ data' = Tail(data) /\ UNCHANGED <<ptr_data, xmd, memory, answers>>
  BY DEF ParseCommand
<1>2. todo = 0 /\ data # <<>> /\ Head(data) = l /\ UNCHANGED <<script, sent, bank>>
  BY <1>1 DEF Parse
<1>3. NextCharacters' /\ Taken' = Taken + 1
  BY <1>1, <1>2, HeadTaken
<1>4. script \in Seq(Commands) /\ Taken \in Nat
  BY HeadIs, <1>2
<1>5. \A n : After(n)' = After(n) /\ First(n)' = First(n)
  BY <1>2, SameScript
<1>6. ASSUME NEW n \in 1..Len(script), Between(n - 1), script[n] \in Commands,
             Head(data) = script[n].command
      PROVE  Place'
  <2>1. PICK c \in Commands : c = script[n]
    BY <1>6
  <2>2. Taken = Len(First(n - 1)) /\ Done(n - 1)
    BY <1>6 DEF Between
  <2>3. UNCHANGED <<script, todo, memory, answers>> /\ todo = 0
    BY <1>1, <1>2 DEF xmd
  <2>4. Done(n - 1)'
    BY <1>5, <2>2, <2>3 DEF Done
  <2>5. 1 \in 1..Len(Line(c)) - 1
    <3>1. Len(Line(c)) = IF Long(c) THEN 7 ELSE 2
      BY CharactersAre
    <3>. QED
      BY <3>1
  <2>6. InLine(n, 1)'
    BY <1>1, <1>2, <1>3, <1>5, <1>6, <2>1, <2>2, <2>3, <2>4, <2>5 DEF InLine
  <2>. QED
    BY <1>2, <2>6 DEF Place
<1>7. ASSUME NEW n \in 1..Len(script), NEW k \in 1..Len(Line(script[n])) - 1,
             script[n] \in Commands, Head(data) = Line(script[n])[k + 1]
      PROVE  FALSE
  <2>1. PICK c \in Commands : c = script[n]
    BY <1>7
  <2>2. Line(c)[k + 1] = l /\ k \in 1..Len(Line(c)) - 1
    BY <1>2, <1>7, <2>1, Zenon
  <2>. QED
    BY <1>1, <2>2, LineHeads
<1>. QED
  BY <1>2, <1>3, <1>6, <1>7, PlaceHead

\* What a command has done when it is executed,
LEMMA Effects ==
  ASSUME script \in Seq(Commands), NEW n \in 1..Len(script), NEW c \in Commands,
         c = script[n], Done(n - 1)
  PROVE  /\ memory \in [Address -> Character] /\ answers \in Seq(Answer)
         /\ c.command = "S" =>
              /\ After(n).memory = [a \in Address |-> IF a \in c.address .. c.address + c.number - 1
                                                      THEN c.bytes[a - c.address + 1]
                                                          ELSE memory[a]]
              /\ After(n).answers = answers
         /\ c.command = "O" => /\ After(n).memory = [memory EXCEPT ![c.address] = Low(c.number)]
                               /\ After(n).answers = answers
         /\ c.command = "o" => /\ After(n).memory = memory
                               /\ After(n).answers = Append(answers, memory[c.address])
         /\ c.command = "V" => /\ After(n).memory = memory
                               /\ After(n).answers = Append(answers, "version")
         /\ c.command = "?" => After(n).memory = memory /\ After(n).answers = answers
<1>1. PICK s \in States : s = After(n - 1) /\ After(n) = Effect(s, c)
  BY FirstSteps
<1>2. /\ s.memory = memory /\ s.answers = answers /\ s = [memory |-> memory, answers |-> answers]
      /\ memory \in [Address -> Character] /\ answers \in Seq(Answer)
  BY <1>1 DEF Done, States
<1>3. c.command = "S" => Effect(s, c) = [s EXCEPT !.memory =
                           [a \in Address |-> IF a \in c.address .. c.address + c.number - 1
                                              THEN c.bytes[a - c.address + 1] ELSE s.memory[a]]]
  BY DEF Effect
<1>4. c.command = "O" => Effect(s, c) = [s EXCEPT !.memory[c.address] = Low(c.number)]
  BY DEF Effect
<1>5. c.command = "o"
          => Effect(s, c) = [s EXCEPT !.answers = Append(s.answers, s.memory[c.address])]
  BY DEF Effect
<1>6. c.command = "V" => Effect(s, c) = [s EXCEPT !.answers = Append(s.answers, "version")]
  BY DEF Effect
<1>7. c.command = "?" => Effect(s, c) = s
  BY DEF Effect
<1>8. CASE c.command = "S"
  <2> DEFINE M == [a \in Address |-> IF a \in c.address .. c.address + c.number - 1
                                     THEN c.bytes[a - c.address + 1] ELSE memory[a]]
  <2>1. Effect(s, c) = [s EXCEPT !.memory = M]
    BY <1>2, <1>3, <1>8
  <2>. HIDE DEF M
  <2>2. After(n).memory = M /\ After(n).answers = answers
    BY <1>1, <1>2, <2>1
  <2>. QED
    BY <1>2, <1>8, <2>2 DEF M
<1>9. CASE c.command = "O"
  <2>1. After(n).memory = [memory EXCEPT ![c.address] = Low(c.number)]
            /\ After(n).answers = answers
    BY <1>1, <1>2, <1>4, <1>9
  <2>. QED
    BY <1>2, <1>9, <2>1
<1>10. CASE c.command = "o"
  <2>1. After(n).memory = memory /\ After(n).answers = Append(answers, memory[c.address])
    BY <1>1, <1>2, <1>5, <1>10
  <2>. QED
    BY <1>2, <1>10, <2>1
<1>11. CASE c.command = "V"
  <2>1. After(n).memory = memory /\ After(n).answers = Append(answers, "version")
    BY <1>1, <1>2, <1>6, <1>11
  <2>. QED
    BY <1>2, <1>11, <2>1
<1>12. CASE c.command = "?"
  BY <1>1, <1>2, <1>7, <1>12
<1>. QED
  <2>1. c.command \in {"S", "O", "o", "V", "?"}
    BY CommandFields, LetterIs
  <2>. QED
    BY <1>8, <1>9, <1>10, <1>11, <1>12, <2>1

\* where its end is, and that nothing is behind it in the buffer.
LEMMA HashIs ==
  ASSUME FlushingHost, NextCharacters, Place, Parse("#")
  PROVE  /\ script \in Seq(Commands)
         /\ \E n \in 1..Len(script) :
              /\ script[n] \in Commands /\ command = script[n].command /\ Done(n - 1)
              /\ Long(script[n])
                     => ptr_data = script[n].address /\ current_number = script[n].number
              /\ Taken + 1 = Len(First(n - 1)) + Len(Line(script[n]))
              /\ Len(data) = 1
<1>1. todo = 0 /\ data # <<>> /\ Head(data) = "#"
  BY DEF Parse
<1>2. script \in Seq(Commands) /\ Taken \in Nat /\ Len(data) >= 1
  BY <1>1, HeadIs
<1>3. ASSUME NEW n \in 1..Len(script), script[n] \in Commands, Head(data) = script[n].command
      PROVE  FALSE
  BY <1>1, <1>3, CommandFields, LetterIs
<1>4. ASSUME NEW n \in 1..Len(script), NEW k \in 1..Len(Line(script[n])) - 1, InLine(n, k),
             script[n] \in Commands, Head(data) = Line(script[n])[k + 1]
      PROVE  /\ script[n] \in Commands /\ command = script[n].command /\ Done(n - 1)
             /\ Long(script[n])
                    => ptr_data = script[n].address /\ current_number = script[n].number
             /\ Taken + 1 = Len(First(n - 1)) + Len(Line(script[n]))
             /\ Len(data) = 1
  <2>1. PICK c \in Commands : c = script[n]
    BY <1>4
  <2>2. k = Len(Line(c)) - 1 /\ Len(Line(c)) = (IF Long(c) THEN 7 ELSE 2)
    <3>1. Line(c)[k + 1] = "#" /\ k \in 1..Len(Line(c)) - 1
      BY <1>1, <1>4, <2>1, Zenon
    <3>. QED
      BY <3>1, LineHeads
  <2>3. /\ command = c.command /\ Done(n - 1) /\ Taken = Len(First(n - 1)) + k
        /\ k >= 4 => ptr_data = c.address
        /\ current_number = CASE k = 2 -> c.address \div 4 [] k = 3 -> c.address
                              [] k = 5 -> c.number \div 4 [] k = 6 -> c.number [] OTHER -> 0
    BY <1>4, <2>1 DEF InLine
  <2>4. Long(c) => ptr_data = c.address /\ current_number = c.number
    <3>1. Long(c) => k = 6
      BY <2>2
    <3>2. k = 6 => ptr_data = c.address
      BY <2>3
    <3>3. k = 6 => current_number = c.number
      <4>1. k = 6 => k # 2 /\ k # 3 /\ k # 5
        OBVIOUS
      <4>. QED
        BY <2>3, <4>1, Zenon
    <3>. QED
      BY <3>1, <3>2, <3>3
  <2>5. /\ Len(First(n - 1)) \in Nat /\ Len(First(n - 1)) + Len(Line(c)) \in Ends
    BY <1>2, <2>1, CommandInStream
  <2>6. Taken + 1 = Len(First(n - 1)) + Len(Line(c))
    <3>1. PICK f \in Nat, l \in Nat : f = Len(First(n - 1)) /\ l = Len(Line(c))
      <4>1. Len(Line(c)) \in Nat
        BY <2>2
      <4>. QED
        BY <2>5, <4>1
    <3>2. k = l - 1 /\ Taken = f + k
      BY <2>2, <2>3, <3>1, Zenon
    <3>. QED
      BY <3>1, <3>2
  <2>7. Len(data) = 1
    <3>1. Taken + 1 \in Ends
      BY <2>5, <2>6
    <3>2. Taken + 1 <= Taken \/ Taken + 1 >= Taken + Len(data)
      BY <3>1 DEF NextCharacters
    <3>3. Len(data) \in Nat
      BY DEF NextCharacters
    <3>4. PICK t \in Nat, d \in Nat : t = Taken /\ d = Len(data)
      BY <1>2, <3>3
    <3>. QED
      BY <1>2, <3>2, <3>4
  <2>. QED
    BY <2>1, <2>3, <2>4, <2>6, <2>7
<1>. QED
  BY <1>1, <1>2, <1>3, <1>4, PlaceHead

\* Nothing is behind the only element.
LEMMA TailOfOne == ASSUME NEW E, NEW x \in Seq(E), Len(x) = 1 PROVE Tail(x) = <<>>
<1>1. Tail(x) \in Seq(E) /\ Len(Tail(x)) = 0
  OBVIOUS
<1>2. \A y \in Seq(E) : Len(y) = 0 => y = <<>>
  OBVIOUS
<1>. QED
  BY <1>1, <1>2

\* A command that is done and has no bytes is followed by the next:
LEMMA CommandDone ==
  ASSUME FlushingHost, NextCharacters, Place, Parse("#"), data' = <<>>,
         command' = "z", current_number' = 0,
         todo' = 0, NEW n \in 1..Len(script), Len(script[n].bytes) = 0,
         Taken + 1 = Len(First(n - 1)) + Len(Line(script[n])), Len(data) = 1,
         memory' = After(n).memory, answers' = After(n).answers
  PROVE  NextCharacters' /\ Place'
<1>1. data # <<>> /\ UNCHANGED <<script, sent, bank>>
  BY DEF Parse
<1>2. Tail(data) = <<>>
  <2>1. data \in Seq(Character)
    BY DEF NextCharacters
  <2>. QED
    BY <2>1, TailOfOne
<1>3. NextCharacters' /\ Taken' = Taken + 1
  BY <1>1, <1>2, HeadTaken
<1>4. Len(First(n)) = Len(First(n - 1)) + Len(Line(script[n]))
  <2>1. script \in Seq(Commands)
    BY <1>1, HeadIs
  <2>2. /\ Len(First(n - 1)) \in Nat /\ Len(Line(script[n])) = (IF Long(script[n]) THEN 7 ELSE 2)
        /\ Len(First(n)) = Len(First(n - 1)) + Len(Line(script[n])) + Len(script[n].bytes)
    BY <2>1, CommandInStream
  <2>. QED
    BY <2>2
<1>5. \A m : After(m)' = After(m) /\ First(m)' = First(m)
  BY <1>1, SameScript
<1>6. Between(n)'
  BY <1>3, <1>4, <1>5 DEF Between, Done
<1>7. n \in 0..Len(script)'
  <2>1. Len(script) \in Nat
    BY <1>1, HeadIs
  <2>. QED
    BY <1>1, <2>1
<1>. QED
  BY <1>3, <1>6, <1>7 DEF Place

\* O,
LEMMA ExecuteOKeeps ==
  ASSUME FlushingHost, NextCharacters, Place, ExecuteO
  PROVE  NextCharacters' /\ Place'
<1>1. /\ Parse("#") /\ command = "O" /\ command' = "z" /\ current_number' = 0
      /\ memory' = [memory EXCEPT ![ptr_data] = Low(current_number)] /\ data' = Tail(data)
      /\ UNCHANGED <<xmd, answers>> /\ todo = 0
  BY DEF ExecuteO, Execute, Parse
<1>2. PICK n \in 1..Len(script) :
        /\ script[n] \in Commands /\ command = script[n].command /\ Done(n - 1)
        /\ Long(script[n]) => ptr_data = script[n].address /\ current_number = script[n].number
        /\ Taken + 1 = Len(First(n - 1)) + Len(Line(script[n]))
        /\ Len(data) = 1
  BY <1>1, HashIs
<1>3. PICK c \in Commands : c = script[n]
  BY <1>2
<1>4. c.command = "O" /\ Len(c.bytes) = 0 /\ ptr_data = c.address /\ current_number = c.number
  BY <1>1, <1>2, <1>3, CommandFields DEF Long
<1>5. script \in Seq(Commands)
  BY <1>1, HashIs
<1>6. memory' = After(n).memory /\ answers' = After(n).answers
  BY <1>1, <1>2, <1>3, <1>4, <1>5, Effects
<1>7. todo' = 0 /\ data' = <<>>
  <2>1. data \in Seq(Character)
    BY DEF NextCharacters
  <2>. QED
    BY <1>1, <1>2, <2>1 DEF xmd
<1>. QED
  BY <1>1, <1>2, <1>3, <1>4, <1>6, <1>7, CommandDone

\* o,
LEMMA Execute_oKeeps ==
  ASSUME FlushingHost, NextCharacters, Place, Execute_o
  PROVE  NextCharacters' /\ Place'
<1>1. /\ Parse("#") /\ command = "o" /\ command' = "z" /\ current_number' = 0
      /\ answers' = Append(answers, memory[ptr_data]) /\ data' = Tail(data)
      /\ UNCHANGED <<xmd, memory>> /\ todo = 0
  BY DEF Execute_o, Execute, Parse
<1>2. PICK n \in 1..Len(script) :
        /\ script[n] \in Commands /\ command = script[n].command /\ Done(n - 1)
        /\ Long(script[n]) => ptr_data = script[n].address /\ current_number = script[n].number
        /\ Taken + 1 = Len(First(n - 1)) + Len(Line(script[n]))
        /\ Len(data) = 1
  BY <1>1, HashIs
<1>3. PICK c \in Commands : c = script[n]
  BY <1>2
<1>4. c.command = "o" /\ Len(c.bytes) = 0 /\ ptr_data = c.address
  BY <1>1, <1>2, <1>3, CommandFields DEF Long
<1>5. script \in Seq(Commands)
  BY <1>1, HashIs
<1>6. memory' = After(n).memory /\ answers' = After(n).answers
  BY <1>1, <1>2, <1>3, <1>4, <1>5, Effects
<1>7. todo' = 0 /\ data' = <<>>
  <2>1. data \in Seq(Character)
    BY DEF NextCharacters
  <2>. QED
    BY <1>1, <1>2, <2>1 DEF xmd
<1>. QED
  BY <1>1, <1>2, <1>3, <1>4, <1>6, <1>7, CommandDone

\* V,
LEMMA ExecuteVKeeps ==
  ASSUME FlushingHost, NextCharacters, Place, ExecuteV
  PROVE  NextCharacters' /\ Place'
<1>1. /\ Parse("#") /\ command = "V" /\ command' = "z" /\ current_number' = 0
      /\ answers' = Append(answers, "version") /\ data' = <<>>
      /\ UNCHANGED <<xmd, memory>> /\ todo = 0
  BY DEF ExecuteV, Execute, Parse
<1>2. PICK n \in 1..Len(script) :
        /\ script[n] \in Commands /\ command = script[n].command /\ Done(n - 1)
        /\ Taken + 1 = Len(First(n - 1)) + Len(Line(script[n]))
        /\ Len(data) = 1
  BY <1>1, HashIs
<1>3. PICK c \in Commands : c = script[n]
  BY <1>2
<1>4. c.command = "V" /\ Len(c.bytes) = 0
  BY <1>1, <1>2, <1>3, CommandFields
<1>5. script \in Seq(Commands)
  BY <1>1, HashIs
<1>6. memory' = After(n).memory /\ answers' = After(n).answers
  BY <1>1, <1>2, <1>3, <1>4, <1>5, Effects
<1>7. todo' = 0
  BY <1>1 DEF xmd
<1>. QED
  BY <1>1, <1>2, <1>3, <1>4, <1>6, <1>7, CommandDone

\* and one that is not known.
LEMMA ExecuteNoneKeeps ==
  ASSUME FlushingHost, NextCharacters, Place, ExecuteNone
  PROVE  NextCharacters' /\ Place'
<1>1. /\ Parse("#") /\ command \in {"z", "?"} /\ command' = "z" /\ current_number' = 0
      /\ data' = Tail(data) /\ UNCHANGED <<xmd, memory, answers>> /\ todo = 0
  BY DEF ExecuteNone, Execute, Parse
<1>2. PICK n \in 1..Len(script) :
        /\ script[n] \in Commands /\ command = script[n].command /\ Done(n - 1)
        /\ Taken + 1 = Len(First(n - 1)) + Len(Line(script[n]))
        /\ Len(data) = 1
  BY <1>1, HashIs
<1>3. PICK c \in Commands : c = script[n]
  BY <1>2
<1>4. c.command = "?" /\ Len(c.bytes) = 0
  <2>1. c.command # "z"
    BY CommandFields, LetterIs
  <2>. QED
    BY <1>1, <1>2, <1>3, <2>1, CommandFields
<1>5. script \in Seq(Commands)
  BY <1>1, HashIs
<1>6. memory' = After(n).memory /\ answers' = After(n).answers
  BY <1>1, <1>2, <1>3, <1>4, <1>5, Effects
<1>7. todo' = 0 /\ data' = <<>>
  <2>1. data \in Seq(Character)
    BY DEF NextCharacters
  <2>. QED
    BY <1>1, <1>2, <2>1 DEF xmd
<1>. QED
  BY <1>1, <1>2, <1>3, <1>4, <1>6, <1>7, CommandDone

\* No bytes leave memory as it is,
LEMMA NothingStored ==
  ASSUME NEW a \in Nat, NEW bytes, Len(bytes) = 0, memory \in [Address -> Character]
  PROVE  Stored(a, bytes) = memory
<1>1. \A x \in Address : x \notin a .. a + Len(bytes) - 1
  BY DEF Address
<1>2. Stored(a, bytes) = [x \in Address |-> memory[x]]
  BY <1>1 DEF Stored
<1>. QED
  BY <1>2

\* which is what S finds in the buffer: it waits for its bytes,
LEMMA ExecuteSKeeps ==
  ASSUME FlushingHost, NextCharacters, Place, ExecuteS
  PROVE  NextCharacters' /\ Place'
<1>1. /\ Parse("#") /\ command = "S" /\ command' = "z" /\ current_number' = 0
      /\ UNCHANGED answers /\ todo = 0
  BY DEF ExecuteS, Execute, Parse
<1>2. PICK n \in 1..Len(script) :
        /\ script[n] \in Commands /\ command = script[n].command /\ Done(n - 1)
        /\ Long(script[n]) => ptr_data = script[n].address /\ current_number = script[n].number
        /\ Taken + 1 = Len(First(n - 1)) + Len(Line(script[n]))
        /\ Len(data) = 1
  BY <1>1, HashIs
<1>3. PICK c \in Commands : c = script[n]
  BY <1>2
<1>4. /\ c.command = "S" /\ Len(c.bytes) = c.number /\ ptr_data = c.address
      /\ current_number = c.number
      /\ c.address \in 0..3 /\ c.number \in 0..15
  BY <1>1, <1>2, <1>3, CommandFields DEF Long
<1>5. script \in Seq(Commands)
  BY <1>1, HashIs
<1>6. Least(Len(data) - 1, current_number) = 0
  BY <1>2, <1>4 DEF Least
<1>7. /\ memory' = Stored(c.address, SubSeq(data, 2, 1)) /\ todo' = c.number /\ dst' = c.address
      /\ data' = SubSeq(data, 2, 1)
  <2>1. /\ memory' = Stored(ptr_data, SubSeq(data, 2, 0 + 1))
        /\ todo' = current_number - 0 /\ dst' = ptr_data
        /\ data' = SubSeq(data, 0 + 2, Len(data))
    BY <1>6 DEF ExecuteS
  <2>. QED
    BY <1>2, <1>4, <2>1
<1>8. SubSeq(data, 2, 1) = <<>> /\ Tail(data) = <<>> /\ data # <<>>
  <2>1. data \in Seq(Character)
    BY DEF NextCharacters
  <2>2. PICK x \in Seq(Character) : x = data /\ Len(x) = 1
    BY <1>2, <2>1
  <2>3. SubSeq(x, 2, 1) \in Seq(Character) /\ Len(SubSeq(x, 2, 1)) = 0
    OBVIOUS
  <2>4. \A y \in Seq(Character) : Len(y) = 0 => y = <<>>
    OBVIOUS
  <2>5. SubSeq(x, 2, 1) = <<>>
    BY <2>3, <2>4
  <2>6. Tail(x) = <<>>
    BY <2>2, TailOfOne
  <2>7. data # <<>>
    BY <1>1 DEF Parse
  <2>. QED
    BY <2>2, <2>5, <2>6, <2>7
<1>9. memory' = memory /\ data' = <<>>
  <2>1. memory \in [Address -> Character]
    BY <1>2, <1>3, <1>5, Effects
  <2>3. c.address \in Nat
    BY <1>4
  <2>2. Len(<<>>) = 0
    OBVIOUS
  <2>. QED
    BY <1>7, <1>8, <2>1, <2>2, <2>3, NothingStored
<1>10. After(n).answers = answers /\ After(n).memory =
         [a \in Address |-> IF a \in c.address .. c.address + c.number - 1
                            THEN c.bytes[a - c.address + 1] ELSE memory[a]]
  BY <1>2, <1>3, <1>4, <1>5, Effects
<1>11. memory \in [Address -> Character] /\ memory = After(n - 1).memory
           /\ answers = After(n - 1).answers
  BY <1>2, <1>3, <1>5, Effects DEF Done
<1>12. CASE c.number = 0
  <2>1. After(n).memory = memory
    <3>1. \A a \in Address : a \notin c.address .. c.address + c.number - 1
      BY <1>4, <1>12 DEF Address
    <3>2. After(n).memory = [a \in Address |-> memory[a]]
      BY <1>10, <3>1
    <3>. QED
      BY <1>11, <3>2
  <2>. QED
    BY <1>1, <1>2, <1>3, <1>4, <1>7, <1>9, <1>10, <1>12, <2>1, CommandDone
<1>13. CASE c.number > 0
  <2>1. UNCHANGED <<script, sent, bank>>
    BY <1>1 DEF Parse
  <2>2. NextCharacters' /\ Taken' = Taken + 1
    BY <1>8, <1>9, <2>1, HeadTaken
  <2>3. \A m : After(m)' = After(m) /\ First(m)' = First(m)
    BY <2>1, SameScript
  <2>4. Taken' = Len(First(n - 1)) + 7 + 0
    <3>1. Len(First(n - 1)) \in Nat /\ Len(Line(c)) = (IF Long(c) THEN 7 ELSE 2)
      BY <1>3, <1>5, CommandInStream
    <3>2. Len(Line(c)) = 7
      BY <1>4, <3>1 DEF Long
    <3>3. PICK f \in Nat : f = Len(First(n - 1))
      BY <3>1
    <3>4. Taken + 1 = f + 7 /\ Taken' = Taken + 1
      BY <1>2, <1>3, <2>2, <3>2, <3>3, Zenon
    <3>. QED
      BY <3>3, <3>4
  <2>5. 0 \in 0..Len(c.bytes) - 1 /\ todo' = Len(c.bytes) - 0 /\ dst' = c.address + 0
    BY <1>4, <1>7, <1>13
  <2>6. memory' = [x \in Address |->
          IF x \in c.address .. c.address + 0 - 1
          THEN c.bytes[x - c.address + 1] ELSE After(n - 1).memory[x]]
    <3>1. \A x \in Address : x \notin c.address .. c.address + 0 - 1
      BY <1>4 DEF Address
    <3>2. memory' = [x \in Address |-> memory[x]]
      BY <1>9, <1>11
    <3>. QED
      BY <1>11, <3>1, <3>2
  <2>7. InBytes(n, 0)'
    BY <1>1, <1>3, <1>4, <1>9, <1>11, <2>1, <2>3, <2>4, <2>5, <2>6 DEF InBytes
  <2>8. 0 \in 0..14
    OBVIOUS
  <2>. QED
    BY <2>1, <2>2, <2>7, <2>8 DEF Place
<1>. QED
  BY <1>4, <1>12, <1>13

\* and a packet has the next of them, and no more.
LEMMA ReadXmdKeeps ==
  ASSUME FlushingHost, NextCharacters, Place, ReadXmd
  PROVE  NextCharacters' /\ Place'
<1>1. /\ bank # <<>> /\ todo > 0
      /\ memory' = Stored(dst, SubSeq(bank, 1, Least(Len(bank), todo)))
      /\ todo' = todo - Least(Len(bank), todo) /\ dst' = dst + Least(Len(bank), todo)
      /\ bank' = <<>> /\ UNCHANGED <<script, sent, data, parser, answers>>
  BY DEF ReadXmd, NextDst
<1>2. /\ script \in Seq(Commands) /\ script \in Scripts /\ sent \in 0..Len(Stream)
      /\ Taken \in Nat
      /\ bank \in Seq(Character) /\ Len(bank) <= MaxPacket
      /\ \A i \in 1..Len(bank) : bank[i] = Stream[sent - Len(bank) + i]
      /\ \A e \in Ends : e <= sent - Len(bank) \/ e >= sent
      /\ data \in Seq(Character) /\ Len(data) <= MaxPacket
  BY ScriptIs DEF NextCharacters
<1>3. PICK n \in 1..Len(script), k \in 0..14 : InBytes(n, k)
  <2>1. todo # 0
    BY <1>1
  <2>. QED
    BY <2>1 DEF Place, Between, InLine
<1>4. PICK c \in Commands : c = script[n]
  BY <1>2, CommandInStream
<1>5. /\ c.command = "S" /\ k \in 0..Len(c.bytes) - 1 /\ command = "z" /\ current_number = 0
      /\ data = <<>>
      /\ todo = Len(c.bytes) - k /\ dst = c.address + k
      /\ Taken = Len(First(n - 1)) + 7 + k /\ answers = After(n - 1).answers
      /\ memory = [x \in Address |->
           IF x \in c.address .. c.address + k - 1
           THEN c.bytes[x - c.address + 1] ELSE After(n - 1).memory[x]]
  BY <1>3, <1>4 DEF InBytes
<1>6. PICK b \in Nat, s \in Nat, t \in Nat, f \in Nat, l \in 0..15, a \in 0..3 :
        /\ b = Len(bank) /\ s = sent /\ t = Taken /\ f = Len(First(n - 1))
        /\ l = Len(c.bytes) /\ a = c.address /\ c.number = l
  <2>1. /\ Len(bank) \in Nat /\ sent \in Nat /\ Taken \in Nat /\ Len(First(n - 1)) \in Nat
        /\ Len(c.bytes) \in 0..15 /\ c.address \in 0..3 /\ c.number = Len(c.bytes)
    <3>1. Len(First(n - 1)) \in Nat
      BY <1>2, CommandInStream
    <3>2. Len(bank) \in Nat /\ sent \in Nat /\ Taken \in Nat
      <4>1. Len(Stream) \in Nat
        BY <1>2, StreamIs
      <4>. QED
        BY <1>2, <4>1
    <3>3. Len(c.bytes) \in 0..15 /\ c.address \in 0..3 /\ c.number = Len(c.bytes)
      BY <1>5, CommandFields
    <3>. QED
      BY <3>1, <3>2, <3>3
  <2>. QED
    BY <2>1, Zenon
<1>7. /\ t = s - b /\ t = f + 7 + k /\ k \in 0..l - 1 /\ todo = l - k /\ dst = a + k
  BY <1>5, <1>6 DEF Taken
<1>8. /\ Len(First(n)) = f + 7 + l /\ Len(First(n)) \in Ends
      /\ \A j \in 1..l : Stream[f + 7 + j] = c.bytes[j]
  <2>1. /\ Len(Line(c)) = (IF Long(c) THEN 7 ELSE 2)
        /\ Len(First(n)) = Len(First(n - 1)) + Len(Line(c)) + Len(c.bytes)
        /\ \A j \in 1..Len(c.bytes) : Stream[Len(First(n - 1)) + Len(Line(c)) + j] = c.bytes[j]
        /\ Len(First(n)) \in Ends
    BY <1>2, <1>4, CommandInStream
  <2>2. Len(Line(c)) = 7
    BY <1>5, <2>1 DEF Long
  <2>. QED
    BY <1>6, <2>1, <2>2
<1>9. b <= l - k /\ b \in 1..15
  <2>1. f + 7 + l <= s - b \/ f + 7 + l >= s
    BY <1>2, <1>6, <1>8
  <2>2. b # 0
    BY <1>1, <1>2, <1>6
  <2>3. /\ b \in Nat /\ s \in Nat /\ t \in Nat /\ f \in Nat /\ l \in 0..15 /\ k \in 0..l - 1
        /\ t = s - b /\ t = f + 7 + k
    BY <1>6, <1>7, Zenon
  <2>. QED
    BY ONLY <2>1, <2>2, <2>3
<1>10. Least(Len(bank), todo) = b /\ SubSeq(bank, 1, b) = bank
  <2>1. Least(Len(bank), todo) = b
    <3>1. Len(bank) = b /\ todo = l - k
      BY <1>6, <1>7
    <3>2. b < l - k \/ b = l - k
      <4>1. b \in Nat /\ l \in 0..15 /\ k \in 0..l - 1
        BY <1>7, Zenon
      <4>. QED
        BY ONLY <4>1, <1>9
    <3>. QED
      BY <3>1, <3>2, Zenon DEF Least
  <2>2. \A x \in Seq(Character) : SubSeq(x, 1, Len(x)) = x
    OBVIOUS
  <2>. QED
    BY <1>2, <1>6, <2>1, <2>2
<1>11. \A i \in 1..b : bank[i] = c.bytes[k + i]
  <2>1. ASSUME NEW i \in 1..b PROVE bank[i] = c.bytes[k + i]
    <3>1. bank[i] = Stream[s - b + i]
      BY <1>2, <1>6
    <3>2. s - b + i = f + 7 + (k + i) /\ k + i \in 1..l
      BY <1>7, <1>9
    <3>. QED
      BY <1>8, <3>1, <3>2
  <2>. QED
    BY <2>1
<1>12. memory' = [x \in Address |->
          IF x \in a .. a + (k + b) - 1 THEN c.bytes[x - a + 1] ELSE After(n - 1).memory[x]]
  <2>1. memory' = [x \in Address |->
           IF x \in a + k .. a + k + b - 1 THEN bank[x - (a + k) + 1] ELSE memory[x]]
    BY <1>1, <1>6, <1>7, <1>10 DEF Stored
  <2>2. ASSUME NEW x \in Address
        PROVE  (IF x \in a + k .. a + k + b - 1 THEN bank[x - (a + k) + 1] ELSE memory[x]) =
               (IF x \in a .. a + (k + b) - 1 THEN c.bytes[x - a + 1] ELSE After(n - 1).memory[x])
    <3>1. x \in Nat
      BY DEF Address
    <3>2. memory[x] = IF x \in a .. a + k - 1 THEN c.bytes[x - a + 1] ELSE After(n - 1).memory[x]
      BY <1>5, <1>6
    <3>3. CASE x \in a + k .. a + k + b - 1
      <4>1. x - (a + k) + 1 \in 1..b /\ k + (x - (a + k) + 1) = x - a + 1
                /\ x \in a .. a + (k + b) - 1
        BY <3>1, <3>3
      <4>. QED
        BY <1>11, <3>3, <4>1
    <3>4. CASE x \notin a + k .. a + k + b - 1
      <4>1. x \in a .. a + k - 1 <=> x \in a .. a + (k + b) - 1
        BY <3>1, <3>4
      <4>. QED
        BY <3>2, <3>4, <4>1
    <3>. QED
      BY <3>3, <3>4
  <2>. QED
    BY <2>1, <2>2
<1>13. todo' = l - (k + b) /\ dst' = a + (k + b)
  BY <1>1, <1>7, <1>10
<1>14. Stream' = Stream /\ Ends' = Ends /\ \A m : After(m)' = After(m) /\ First(m)' = First(m)
  BY <1>1, SameScript
<1>15. Taken' = s /\ s = f + 7 + (k + b)
  <2>1. Len(bank') = 0 /\ Len(data') = 0 /\ sent' = s
    <3>1. Len(<<>>) = 0
      OBVIOUS
    <3>. QED
      BY <1>1, <1>5, <1>6, <3>1
  <2>. QED
    BY <1>7, <2>1 DEF Taken
<1>16. NextCharacters'
  <2>1. <<>> \in Seq(Character) /\ Len(<<>>) = 0 /\ 0 <= MaxPacket
    BY DEF FlushingHost, MonitorAssumption
  <2>2. data' = <<>> /\ bank' = <<>> /\ script' = script /\ sent' = sent
    BY <1>1, <1>5
  <2>3. \A e \in Ends : e \in Int
    BY <1>2, EndsAre
  <2>4. /\ \A i \in 1..0 : data'[i] = Stream[Taken' + i]
        /\ \A i \in 1..0 : bank'[i] = Stream[sent' - 0 + i]
        /\ \A e \in Ends : e <= s \/ e >= s + 0
        /\ \A e \in Ends : e <= s - 0 \/ e >= s
    BY <1>6, <2>3
  <2>. QED
    BY <1>2, <1>6, <1>14, <1>15, <2>1, <2>2, <2>4 DEF NextCharacters
<1>17. UNCHANGED <<script, command, current_number>> /\ data' = <<>> /\ answers' = answers
  BY <1>1, <1>5 DEF parser
<1>18. CASE k + b < l
  <2>1. PICK m \in 0..14 : m = k + b
    <3>1. b \in 1..15 /\ l \in 0..15 /\ k \in 0..l - 1
      BY <1>6, <1>7, <1>9, Zenon
    <3>2. k + b \in 0..14
      BY ONLY <1>18, <3>1
    <3>. QED
      BY <3>2
  <2>2. m \in 0..l - 1
    BY <1>18, <2>1
  <2>3. InBytes(n, m)'
    BY <1>4, <1>5, <1>6, <1>12, <1>13, <1>14, <1>15, <1>17, <2>1, <2>2 DEF InBytes
  <2>. QED
    BY <1>16, <1>17, <2>3 DEF Place
<1>19. CASE k + b = l
  <2>1. Taken' = Len(First(n)) /\ todo' = 0
    BY <1>8, <1>13, <1>15, <1>19
  <2>2. memory' = After(n).memory /\ answers' = After(n).answers
    <3>1. PICK st \in States : st = After(n - 1) /\ After(n) = Effect(st, c)
      BY <1>2, <1>4, FirstSteps
    <3>2. Effect(st, c) = [st EXCEPT !.memory =
            [x \in Address |-> IF x \in a .. a + l - 1 THEN c.bytes[x - a + 1] ELSE st.memory[x]]]
      BY <1>5, <1>6 DEF Effect
    <3>3. memory' = [x \in Address |-> IF x \in a .. a + l - 1 THEN c.bytes[x - a + 1]
              ELSE st.memory[x]]
      BY <1>12, <1>19, <3>1
    <3>4. After(n).memory = memory' /\ After(n).answers = st.answers
      <4>1. Effect(st, c) = [st EXCEPT !.memory = memory']
        BY <3>2, <3>3
      <4>. QED
        BY <3>1, <4>1 DEF States
    <3>. QED
      BY <1>5, <1>17, <3>1, <3>4
  <2>3. Between(n)'
    BY <1>5, <1>14, <1>17, <2>1, <2>2 DEF Between, Done
  <2>4. n \in 0..Len(script)
    BY <1>2
  <2>. QED
    BY <1>16, <1>17, <2>3, <2>4 DEF Place
<1>. QED
  BY <1>7, <1>9, <1>18, <1>19

\* The invariant holds at the start.
LEMMA MonitorStarts == FlushingHost /\ Init => MonInv
<1>1. SUFFICES ASSUME FlushingHost, Init PROVE MonInv
  OBVIOUS
<1>2. /\ script \in Scripts /\ sent = 0 /\ bank = <<>> /\ data = <<>> /\ command = "z"
      /\ current_number = 0
      /\ ptr_data = 0 /\ todo = 0 /\ dst = 0 /\ memory = [a \in Address |-> "0"] /\ answers = <<>>
  BY <1>1 DEF Init
<1>3. script \in Seq(Commands)
  BY <1>1, <1>2, ScriptIs
<1>4. /\ Len(bank) = 0 /\ Len(data) = 0 /\ bank \in Seq(Character) /\ data \in Seq(Character)
  <2>1. <<>> \in Seq(Character) /\ Len(<<>>) = 0
    OBVIOUS
  <2>. QED
    BY <1>2, <2>1
<1>5. Taken = 0
  <2>1. sent = 0 /\ Len(bank) = 0 /\ Len(data) = 0
    BY <1>2, <1>4, Zenon
  <2>. QED
    BY <2>1 DEF Taken
<1>6. NextCharacters
  <2>1. 0 \in 0..Len(Stream) /\ MaxPacket \in Nat
    <3>1. Stream \in Seq(Character)
      BY <1>3, StreamIs
    <3>. QED
      BY <1>1, <3>1 DEF FlushingHost, MonitorAssumption
  <2>2. \A e \in Ends : e <= 0 \/ e >= 0 + 0
    BY <1>3, EndsAre
  <2>. QED
    BY <1>2, <1>4, <1>5, <2>1, <2>2 DEF NextCharacters
<1>7. Between(0) /\ 0 \in 0..Len(script)
  <2>1. After(0) = Start /\ Len(First(0)) = 0
    BY <1>3, FirstSteps, StreamIs
  <2>2. Start.memory = memory /\ Start.answers = answers
    BY <1>2 DEF Start
  <2>. QED
    BY <1>2, <1>3, <1>5, <2>1, <2>2 DEF Between, Done
<1>. QED
  BY <1>2, <1>6, <1>7 DEF MonInv, Place

\* The address and the target stay numbers.
LEMMA NumbersKept ==
  ASSUME FlushingHost, NextCharacters, Place, ptr_data \in 0..15, dst \in Nat, Next
  PROVE  ptr_data' \in 0..15 /\ dst' \in Nat
<1>1. CASE Send
  BY <1>1 DEF Send, parser, xmd
<1>2. CASE Read
  BY <1>2 DEF Read, parser, xmd
<1>3. CASE ReadXmd
  <2>1. bank \in Seq(Character) /\ bank # <<>> /\ todo > 0
    BY <1>3 DEF NextCharacters, ReadXmd
  <2>2. todo \in Nat
    <3>1. PICK n \in 1..Len(script), k \in 0..14 : InBytes(n, k)
      BY <2>1 DEF Place, Between, InLine
    <3>2. k \in 0..Len(script[n].bytes) - 1 /\ todo = Len(script[n].bytes) - k
      BY <3>1 DEF InBytes
    <3>3. Len(script[n].bytes) \in Nat
      <4>1. script \in Seq(Commands)
        BY ScriptIs DEF NextCharacters
      <4>. QED
        BY <4>1, CommandInStream, CommandFields
    <3>. QED
      BY <3>2, <3>3
  <2>3. Least(Len(bank), todo) \in Nat
    <3>1. Len(bank) \in Nat
      BY <2>1
    <3>. QED
      BY <2>2, <3>1 DEF Least
  <2>. QED
    BY <1>3, <2>3 DEF ReadXmd, NextDst, parser
<1>4. CASE ParseDigit
  BY <1>4 DEF ParseDigit, xmd
<1>5. CASE ParseCommand
  BY <1>5 DEF ParseCommand, xmd
<1>6. CASE ParseComma
  <2>1. /\ todo = 0 /\ data # <<>> /\ Head(data) = "," /\ ptr_data' = current_number /\ dst' = dst
    BY <1>6 DEF ParseComma, Parse, xmd
  <2>2. ASSUME NEW n \in 1..Len(script), script[n] \in Commands, Head(data) = script[n].command
        PROVE  FALSE
    BY <2>1, <2>2, CommandFields, LetterIs
  <2>3. ASSUME NEW n \in 1..Len(script), NEW k \in 1..Len(Line(script[n])) - 1, InLine(n, k),
               script[n] \in Commands, Head(data) = Line(script[n])[k + 1]
        PROVE  current_number \in 0..15
    <3>1. PICK c \in Commands : c = script[n]
      BY <2>3
    <3>2. Line(c)[k + 1] = "," /\ k \in 1..Len(Line(c)) - 1
      BY <2>1, <2>3, <3>1, Zenon
    <3>3. k = 3
      BY <3>2, LineHeads
    <3>4. current_number = c.address
      BY <2>3, <3>1, <3>3 DEF InLine
    <3>. QED
      BY <3>4, CommandFields
  <2>. QED
    BY <2>1, <2>2, <2>3, PlaceHead
<1>7. CASE ExecuteS
  BY <1>7 DEF ExecuteS, Execute
<1>8. CASE ExecuteO
  BY <1>8 DEF ExecuteO, Execute, xmd
<1>9. CASE Execute_o
  BY <1>9 DEF Execute_o, Execute, xmd
<1>10. CASE ExecuteV
  BY <1>10 DEF ExecuteV, Execute, xmd
<1>11. CASE ExecuteNone
  BY <1>11 DEF ExecuteNone, Execute, xmd
<1>. QED
  BY <1>1, <1>2, <1>3, <1>4, <1>5, <1>6, <1>7, <1>8, <1>9, <1>10, <1>11 DEF Next, Loop

\* Every step keeps the invariant,
LEMMA MonitorSteps == FlushingHost /\ MonInv /\ Next => MonInv'
<1>1. SUFFICES ASSUME FlushingHost, NextCharacters, Place, ptr_data \in 0..15, dst \in Nat, Next
               PROVE  NextCharacters' /\ Place'
  BY NumbersKept DEF MonInv, Place
<1>. QED
  BY <1>1, SendKeeps, ReadKeeps, ReadXmdKeeps, DigitKeeps, CommaKeeps, CommandKeeps,
     ExecuteSKeeps,
     ExecuteOKeeps, Execute_oKeeps, ExecuteVKeeps, ExecuteNoneKeeps DEF Next, Loop

\* as does a step that changes nothing.
LEMMA MonitorStutters == FlushingHost /\ MonInv /\ UNCHANGED vars => MonInv'
<1>1. SUFFICES ASSUME FlushingHost, MonInv, UNCHANGED vars PROVE MonInv'
  OBVIOUS
<1>2. UNCHANGED <<script, sent, bank, data, parser, xmd, memory, answers, ptr_data, dst>>
  BY <1>1 DEF vars, parser, xmd
<1>3. Stream' = Stream /\ Ends' = Ends /\ script \in Seq(Commands)
  BY <1>1, <1>2, SameScript, ScriptIs DEF MonInv, NextCharacters
<1>4. NextCharacters' /\ Taken' = Taken
  BY <1>1, <1>2, <1>3 DEF MonInv, NextCharacters, Taken
<1>5. Place'
  BY <1>1, <1>2, <1>3, <1>4, PlaceKept DEF MonInv
<1>. QED
  BY <1>1, <1>2, <1>4, <1>5 DEF MonInv, Place

\* The inductive invariant of the monitor (sam_ba_monitor.c): where in the script the parser and
\* the data of S are, for every script, wherever a host that flushes cuts its packets.
THEOREM MonitorInvariance == ASSUME MonitorAssumption, Flushes PROVE Spec => []MonInv
<1>1. Init => MonInv
  BY MonitorStarts DEF FlushingHost
<1>2. MonInv /\ [Next]_vars => MonInv'
  BY MonitorSteps, MonitorStutters DEF FlushingHost
<1>. QED
  BY <1>1, <1>2, PTL DEF Spec

\* It gives what the commands do,
LEMMA PlacesAgree == FlushingHost /\ MonInv => AsCommanded
<1>1. SUFFICES ASSUME FlushingHost, NextCharacters, Place, command = "z", todo = 0
               PROVE  \E n \in 0..Len(script) :
                        /\ sent - Len(bank) - Len(data) = Len(First(n))
                        /\ memory = After(n).memory /\ answers = After(n).answers
  BY DEF MonInv, AsCommanded
<1>2. script \in Seq(Commands)
  BY <1>1, ScriptIs DEF NextCharacters
<1>3. ASSUME NEW n \in 1..Len(script), NEW k \in 1..6, InLine(n, k) PROVE FALSE
  <2>1. script[n].command \in Letters /\ command = script[n].command
    BY <1>2, <1>3, CommandInStream, CommandFields DEF InLine
  <2>. QED
    BY <1>1, <2>1, LetterIs
<1>4. ASSUME NEW n \in 1..Len(script), NEW k \in 0..14, InBytes(n, k) PROVE FALSE
  <2>1. k \in 0..Len(script[n].bytes) - 1 /\ todo = Len(script[n].bytes) - k
    BY <1>4 DEF InBytes
  <2>2. Len(script[n].bytes) \in Nat
    BY <1>2, CommandInStream, CommandFields
  <2>. QED
    BY <1>1, <2>1, <2>2
<1>. QED
  BY <1>1, <1>3, <1>4 DEF Place, Between, Done, Taken

\* Memory and answers are what the commands taken so far make of them, in their order, for every
\* script of the host, every size of a packet and wherever a host that flushes cuts them.
THEOREM DoesAsCommanded == ASSUME MonitorAssumption, Flushes PROVE Spec => []AsCommanded
<1>1. MonInv => AsCommanded
  BY PlacesAgree DEF FlushingHost
<1>. QED
  BY <1>1, MonitorInvariance, PTL

\* and the types.
LEMMA PlacesTyped == FlushingHost /\ MonInv => TypeOK
<1>1. SUFFICES ASSUME FlushingHost, NextCharacters, Place, ptr_data \in 0..15, dst \in Nat
               PROVE  TypeOK
  BY DEF MonInv
<1>2. script \in Seq(Commands)
  BY <1>1, ScriptIs DEF NextCharacters
<1>3. sent \in 0..Len(Stream) /\ Len(bank) <= MaxPacket /\ Len(data) <= MaxPacket
  BY <1>1 DEF NextCharacters
<1>4. command \in Letters \cup {"z"} /\ current_number \in 0..15 /\ todo \in 0..15
  <2>1. ASSUME NEW n \in 0..Len(script), Between(n)
        PROVE  command \in Letters \cup {"z"} /\ current_number \in 0..15 /\ todo \in 0..15
    BY <2>1 DEF Between
  <2>2. ASSUME NEW n \in 1..Len(script), NEW k \in 1..6, InLine(n, k)
        PROVE  command \in Letters \cup {"z"} /\ current_number \in 0..15 /\ todo \in 0..15
    <3>1. PICK c \in Commands : c = script[n]
      BY <1>2, CommandInStream
    <3>2. c.command \in Letters /\ c.address \in 0..15 /\ c.number \in 0..15
      BY CommandFields
    <3>3. c.address \div 4 \in 0..15 /\ c.number \div 4 \in 0..15
      <4>1. c.address \div 4 \in 0..3 /\ c.number \div 4 \in 0..3
        BY <3>2, NumberIs
      <4>. QED
        BY <4>1
    <3>4. /\ command = c.command /\ todo = 0
          /\ current_number = CASE k = 2 -> c.address \div 4 [] k = 3 -> c.address
                                [] k = 5 -> c.number \div 4 [] k = 6 -> c.number [] OTHER -> 0
      BY <2>2, <3>1 DEF InLine
    <3>5. current_number \in 0..15
      BY <3>2, <3>3, <3>4
    <3>. QED
      BY <3>2, <3>4, <3>5
  <2>3. ASSUME NEW n \in 1..Len(script), NEW k \in 0..14, InBytes(n, k)
        PROVE  command \in Letters \cup {"z"} /\ current_number \in 0..15 /\ todo \in 0..15
    <3>1. /\ k \in 0..Len(script[n].bytes) - 1 /\ todo = Len(script[n].bytes) - k
          /\ command = "z" /\ current_number = 0
      BY <2>3 DEF InBytes
    <3>2. PICK l \in 0..15 : l = Len(script[n].bytes)
      BY <1>2, CommandInStream, CommandFields
    <3>3. todo \in 0..15
      <4>1. l \in 0..15 /\ k \in 0..l - 1 /\ todo = l - k
        BY <3>1, <3>2, Zenon
      <4>. QED
        BY ONLY <4>1
    <3>. QED
      BY <3>1, <3>3
  <2>. QED
    BY <1>1, <2>1, <2>2, <2>3 DEF Place
<1>. QED
  BY <1>1, <1>3, <1>4 DEF TypeOK

\* The types; the data of S that is waited for and the current number have 15 at most.
THEOREM MonitorTypes == ASSUME MonitorAssumption, Flushes PROVE Spec => []TypeOK
<1>1. MonInv => TypeOK
  BY PlacesTyped DEF FlushingHost
<1>. QED
  BY <1>1, MonitorInvariance, PTL
=============================================================================
