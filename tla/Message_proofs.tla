--------------------------- MODULE Message_proofs ---------------------------
(***************************************************************************)
(* What holds of every message that is taken, divided and changed by       *)
(* plugins, proved for lines of any length: it is taken for the command    *)
(* with the longest keyword that it begins with; its division loses and    *)
(* doubles no letter, and finds an error only where there is one; a plugin *)
(* that replaces one field leaves the rest as its author sent it.          *)
(***************************************************************************)
EXTENDS Message, Sums_proofs, FiniteSetTheorems, TLAPS

-----------------------------------------------------------------------------
(* Message: which command a message is taken for *)

Names == [i \in DOMAIN Commands |-> Commands[i][1]]
Words == [i \in DOMAIN Commands |-> Commands[i][2]]
Rows  == 1 .. 21
KeyLetters ==
    {"$ConnectToMe", "$RevConnectToMe", "$SR", "$Search", "Hub:", "$SA", "$SP", "$MyINFO", "$ExtJSON",
     "$Key", "$To:", "$GetINFO", "$OpForceMove", "$MultiSearch", "$MCTo:", "$Ban", "$TempBan", "$MyIP",
     "$Lock", "$IN"}

\* The rows of the table, and what they begin with.
LEMMA TableRows ==
    /\ \A i \in DOMAIN Commands : Commands[i] = <<Names[i], Words[i]>>
    /\ DOMAIN Commands = Rows
    /\ \A i \in Rows : Words[i] \in Seq(KeyLetters)
    /\ \A i \in Rows : Len(Words[i]) = IF i \in {4, 14} THEN 2 ELSE 1
    /\ \A i \in Rows : Words[i][1] # "<"
    /\ \A i \in Rows : i < 4 => Words[i][1] # Words[4][1]
    /\ \A i \in Rows : i < 14 => Words[i][1] # Words[14][1]
    /\ \A i \in Rows : Names[i] \notin {"Chat", Unknown}
    /\ \A i, j \in Rows : Names[i] = Names[j] => i = j
  <1> DEFINE n == Names
             w == Words
  <1>1. DOMAIN Commands = Rows
    BY DEF Commands, Rows
  <1>2. /\ n[1] = "ConnectToMe" /\ n[2] = "RevConnectToMe" /\ n[3] = "SR" /\ n[4] = "SearchPas"
        /\ n[5] = "Search" /\ n[6] = "SA" /\ n[7] = "SP" /\ n[8] = "MyINFO" /\ n[9] = "ExtJSON"
        /\ n[10] = "OneParameter" /\ n[11] = "To" /\ n[12] = "GetINFO" /\ n[13] = "OpForceMove"
        /\ n[14] = "MSearchPas" /\ n[15] = "MSearch" /\ n[16] = "MCTo" /\ n[17] = "Ban"
        /\ n[18] = "TempBan" /\ n[19] = "MyIP" /\ n[20] = "Lock" /\ n[21] = "IN"
    BY DEF Commands, Names
  <1>3. /\ w[1] = <<"$ConnectToMe">> /\ w[2] = <<"$RevConnectToMe">> /\ w[3] = <<"$SR">>
        /\ w[4] = <<"$Search", "Hub:">> /\ w[5] = <<"$Search">> /\ w[6] = <<"$SA">>
        /\ w[7] = <<"$SP">> /\ w[8] = <<"$MyINFO">> /\ w[9] = <<"$ExtJSON">>
        /\ w[10] = <<"$Key">> /\ w[11] = <<"$To:">> /\ w[12] = <<"$GetINFO">>
        /\ w[13] = <<"$OpForceMove">> /\ w[14] = <<"$MultiSearch", "Hub:">>
        /\ w[15] = <<"$MultiSearch">> /\ w[16] = <<"$MCTo:">> /\ w[17] = <<"$Ban">>
        /\ w[18] = <<"$TempBan">> /\ w[19] = <<"$MyIP">> /\ w[20] = <<"$Lock">>
        /\ w[21] = <<"$IN">>
    BY DEF Commands, Words
  <1> HIDE DEF n, w
  <1>0. \A i \in Rows : i \in {1, 2, 3, 4, 5, 6, 7, 8, 9, 10, 11, 12, 13, 14, 15, 16, 17, 18, 19, 20, 21}
    BY DEF Rows
  <1>4. \A i \in Rows : w[i] \in Seq(KeyLetters) /\ Len(w[i]) = IF i \in {4, 14} THEN 2 ELSE 1
    <2>1. /\ "$ConnectToMe" \in KeyLetters /\ "$RevConnectToMe" \in KeyLetters /\ "$SR" \in KeyLetters
          /\ "$Search" \in KeyLetters /\ "Hub:" \in KeyLetters /\ "$SA" \in KeyLetters
          /\ "$SP" \in KeyLetters /\ "$MyINFO" \in KeyLetters /\ "$ExtJSON" \in KeyLetters
          /\ "$Key" \in KeyLetters /\ "$To:" \in KeyLetters /\ "$GetINFO" \in KeyLetters
          /\ "$OpForceMove" \in KeyLetters /\ "$MultiSearch" \in KeyLetters /\ "$MCTo:" \in KeyLetters
          /\ "$Ban" \in KeyLetters /\ "$TempBan" \in KeyLetters /\ "$MyIP" \in KeyLetters
          /\ "$Lock" \in KeyLetters /\ "$IN" \in KeyLetters
      BY DEF KeyLetters
    <2> DEFINE one(s) == s \in Seq(KeyLetters) /\ Len(s) = 1
    <2>2. /\ one(w[1]) /\ one(w[2]) /\ one(w[3]) /\ one(w[5]) /\ one(w[6]) /\ one(w[7])
          /\ one(w[8]) /\ one(w[9]) /\ one(w[10]) /\ one(w[11]) /\ one(w[12]) /\ one(w[13])
          /\ one(w[15]) /\ one(w[16]) /\ one(w[17]) /\ one(w[18]) /\ one(w[19]) /\ one(w[20])
          /\ one(w[21])
      BY <1>3, <2>1
    <2>3. /\ w[4] \in Seq(KeyLetters) /\ Len(w[4]) = 2
          /\ w[14] \in Seq(KeyLetters) /\ Len(w[14]) = 2
      BY <1>3, <2>1
    <2> QED
      BY <1>0, <2>2, <2>3
  <1>5. /\ \A i \in Rows : w[i][1] # "<"
        /\ \A i \in Rows : i < 4 => w[i][1] # w[4][1]
        /\ \A i \in Rows : i < 14 => w[i][1] # w[14][1]
    <2>1. ASSUME NEW i \in Rows PROVE w[i][1] # "<"
      BY <1>0, <1>3, <2>1
    <2>2. ASSUME NEW i \in Rows, i < 4 PROVE w[i][1] # w[4][1]
      BY <1>0, <1>3, <2>2
    <2>3. ASSUME NEW i \in Rows, i < 14 PROVE w[i][1] # w[14][1]
      BY <1>0, <1>3, <2>3
    <2> QED
      BY <2>1, <2>2, <2>3
  <1>6. \A i \in Rows : n[i] \notin {"Chat", Unknown}
    BY <1>0, <1>2 DEF Unknown
  <1>7. ASSUME NEW i \in Rows, NEW j \in Rows, n[i] = n[j] PROVE i = j
    BY <1>0, <1>2, <1>7
  <1>8. \A i \in DOMAIN Commands : Commands[i] = <<Names[i], Words[i]>>
    <2>1. \A i \in Rows : Names[i] = Commands[i][1] /\ Words[i] = Commands[i][2]
      BY <1>1 DEF Names, Words
    <2>2. ASSUME NEW i \in Rows PROVE Commands[i] = <<Commands[i][1], Commands[i][2]>>
      BY <1>0, <2>2 DEF Commands
    <2> QED
      BY <1>1, <2>1, <2>2
  <1> QED
    BY <1>1, <1>4, <1>5, <1>6, <1>7, <1>8 DEF n, w

\* A word that a message begins with is a part of it.
LEMMA BeginsWith ==
    ASSUME NEW S, NEW s \in Seq(S), NEW T, NEW k \in Seq(T), AreYou(s, k)
    PROVE  Len(k) <= Len(s) /\ \A i \in 1 .. Len(k) : s[i] = k[i]
  <1>1. Len(k) \in Nat /\ Len(k) <= Len(s)
    BY DEF AreYou, IsPrefix
  <1>2. SubSeq(k, 1, Len(k)) = SubSeq(s, 1, Len(k))
    BY DEF AreYou, IsPrefix
  <1>3. ASSUME NEW i \in 1 .. Len(k)
        PROVE  SubSeq(k, 1, Len(k))[i] = k[i] /\ SubSeq(s, 1, Len(k))[i] = s[i]
    BY <1>1, <1>3
  <1> QED
    BY <1>1, <1>2, <1>3

LEMMA BeginsSo ==
    ASSUME NEW S, NEW s \in Seq(S), NEW T, NEW k \in Seq(T), Len(k) <= Len(s),
           \A i \in 1 .. Len(k) : s[i] = k[i]
    PROVE  AreYou(s, k)
  <1>1. Len(k) \in Nat /\ Len(s) \in Nat
    OBVIOUS
  <1>2. SubSeq(k, 1, Len(k)) = [i \in 1 .. Len(k) |-> k[i]]
    BY <1>1
  <1>3. SubSeq(s, 1, Len(k)) = [i \in 1 .. Len(k) |-> s[i]]
    BY <1>1
  <1> QED
    BY <1>2, <1>3 DEF AreYou, IsPrefix

\* Every command has its keyword, and no two have the same name.
LEMMA KeywordOf ==
    /\ Keyword["Chat"] = <<"<">>
    /\ \A i \in Rows : Names[i] \in Known /\ Keyword[Names[i]] = Words[i]
    /\ \A t \in Known : t = "Chat" \/ \E i \in Rows : t = Names[i]
  <1>0. \A i \in Rows : Commands[i] = <<Names[i], Words[i]>>
    BY TableRows
  <1>1. Range(Commands) = {<<Names[i], Words[i]>> : i \in Rows}
    <2>1. Range(Commands) = {Commands[i] : i \in Rows}
      BY TableRows DEF Range
    <2> QED
      BY <1>0, <2>1
  <1>2. Known = {Names[i] : i \in Rows} \cup {"Chat"}
    <2> DEFINE N == {c[1] : c \in Range(Commands)}
    <2>1. Known = N \cup {"Chat"}
      BY DEF Known
    <2>2. ASSUME NEW i \in Rows PROVE Names[i] \in N
      <3>1. PICK c \in Range(Commands) : c = <<Names[i], Words[i]>>
        BY <1>1
      <3> QED
        BY <3>1
    <2>3. \A x \in N : \E i \in Rows : x = Names[i]
      BY <1>1
    <2> HIDE DEF N
    <2> QED
      BY <2>1, <2>2, <2>3
  <1>3. ASSUME NEW i \in Rows PROVE Keyword[Names[i]] = Words[i]
    <2>1. \A c \in Range(Commands) : c[1] = Names[i] => c = <<Names[i], Words[i]>>
      BY <1>1, TableRows
    <2>2. <<Names[i], Words[i]>> \in Range(Commands) /\ <<Names[i], Words[i]>>[1] = Names[i]
      BY <1>1
    <2>3. (CHOOSE c \in Range(Commands) : c[1] = Names[i]) = <<Names[i], Words[i]>>
      BY <2>1, <2>2
    <2>4. Names[i] # "Chat" /\ Names[i] \in Known
      BY <1>2, TableRows
    <2> QED
      BY <2>3, <2>4 DEF Keyword
  <1> QED
    BY <1>2, <1>3 DEF Keyword

\* The first row that fits is the longest: what begins as another row does and
\* is longer stands before it.
LEMMA FirstIsLongest ==
    ASSUME NEW S, NEW s \in Seq(S), Recognise(s) # Unknown
    PROVE  /\ Recognise(s) \in Known /\ AreYou(s, Keyword[Recognise(s)])
           /\ \A t \in Known : AreYou(s, Keyword[t]) => Len(Keyword[t]) <= Len(Keyword[Recognise(s)])
  <1>0. s # <<>> /\ Len(s) \in Nat /\ Len(s) >= 1 /\ Head(s) = s[1]
    BY DEF Recognise
  <1>1. CASE Head(s) = "<"
    <2>1. Recognise(s) = "Chat" /\ "Chat" \in Known
      BY <1>0, <1>1 DEF Recognise, Known
    <2>2. Len(Keyword["Chat"]) = 1
      BY KeywordOf
    <2>3. AreYou(s, Keyword["Chat"])
      <3>1. /\ Keyword["Chat"] \in Seq({"<"}) /\ Len(Keyword["Chat"]) = 1
            /\ Keyword["Chat"][1] = "<"
        BY KeywordOf
      <3> QED
        BY <1>0, <1>1, <3>1, BeginsSo
    <2>4. ASSUME NEW i \in Rows, AreYou(s, Words[i]) PROVE FALSE
      <3>1. Words[i] \in Seq(KeyLetters) /\ Len(Words[i]) >= 1 /\ Words[i][1] # "<"
        BY TableRows
      <3> QED
        BY <1>0, <1>1, <2>4, <3>1, BeginsWith
    <2>5. ASSUME NEW t \in Known, AreYou(s, Keyword[t]) PROVE t = "Chat"
      BY <2>4, <2>5, KeywordOf
    <2>6. ASSUME NEW t \in Known, AreYou(s, Keyword[t])
          PROVE  Len(Keyword[t]) <= Len(Keyword[Recognise(s)])
      <3>1. t = "Chat"
        BY <2>5, <2>6
      <3>2. Keyword[t] = Keyword["Chat"] /\ Keyword[Recognise(s)] = Keyword["Chat"]
        BY <2>1, <3>1
      <3>3. Len(Keyword[t]) = 1 /\ Len(Keyword[Recognise(s)]) = 1
        BY <2>2, <3>2
      <3> QED
        BY <3>3
    <2>7. AreYou(s, Keyword[Recognise(s)])
      BY <2>1, <2>3
    <2> QED
      BY <2>1, <2>6, <2>7
  <1>2. CASE Head(s) # "<"
    <2> DEFINE mine == {i \in DOMAIN Commands : AreYou(s, Commands[i][2])}
    <2>1. mine # {} /\ Recognise(s) = Commands[Min(mine)][1]
      BY <1>0, <1>2 DEF Recognise
    <2>2. mine = {i \in Rows : AreYou(s, Words[i])}
      BY TableRows
    <2> HIDE DEF mine
    <2>3. PICK f \in mine : \A j \in mine : f <= j
      <3>1. mine \in SUBSET Nat
        BY <2>2 DEF Rows
      <3> QED
        BY <2>1, <3>1, SmallestNumber
    <2>4. Min(mine) \in mine /\ \A j \in mine : Min(mine) <= j
      BY <2>3 DEF Min
    <2> DEFINE m == Min(mine)
    <2>5. m \in Rows /\ AreYou(s, Words[m]) /\ \A j \in Rows : AreYou(s, Words[j]) => m <= j
      BY <2>2, <2>4
    <2> HIDE DEF m
    <2>6. Recognise(s) = Names[m] /\ Names[m] \in Known /\ Keyword[Names[m]] = Words[m]
      <3>1. Recognise(s) = Commands[m][1]
        BY <2>1 DEF m
      <3> QED
        BY <2>5, <3>1, TableRows, KeywordOf
    <2>7. ~AreYou(s, Keyword["Chat"])
      <3>1. Keyword["Chat"] \in Seq({"<"}) /\ Len(Keyword["Chat"]) = 1 /\ Keyword["Chat"][1] = "<"
        BY KeywordOf
      <3> QED
        BY <1>0, <1>2, <3>1, BeginsWith
    <2>8. ASSUME NEW j \in Rows, AreYou(s, Words[j]) PROVE Len(Words[j]) <= Len(Words[m])
      <3>1. m <= j /\ m \in Rows
        BY <2>5, <2>8
      <3>2. /\ Words[j] \in Seq(KeyLetters) /\ Len(Words[j]) >= 1
            /\ Words[m] \in Seq(KeyLetters) /\ Len(Words[m]) >= 1
        BY <3>1, TableRows
      <3>3. Words[j][1] = s[1] /\ Words[m][1] = s[1]
        BY <2>5, <2>8, <3>2, BeginsWith
      <3>4. CASE j \in {4, 14}
        <4>1. ~(m < j)
          BY <3>1, <3>3, <3>4, TableRows
        <4>2. m = j
          BY <3>1, <4>1 DEF Rows
        <4> QED
          BY <3>2, <4>2
      <3>5. CASE j \notin {4, 14}
        <4>1. Len(Words[j]) = 1
          BY <3>5, TableRows
        <4> QED
          BY <3>2, <4>1
      <3> QED
        BY <3>4, <3>5
    <2> QED
      BY <2>5, <2>6, <2>7, <2>8, KeywordOf
  <1> QED
    BY <1>1, <1>2

AllLetters ==
    KeyLetters \cup {"<", "$What", "a", Null} \cup UNION {Letters(t) : t \in Known}

\* Whatever arrives is made of those letters.
LEMMA LinesAreTexts == Lines \subseteq Seq(AllLetters)
  <1>1. ASSUME NEW t \in Known PROVE Keyword[t] \in Seq(AllLetters)
    <2>1. CASE t = "Chat"
      <3>1. "<" \in AllLetters
        BY DEF AllLetters
      <3> QED
        BY <2>1, <3>1, KeywordOf
    <2>2. CASE \E i \in Rows : t = Names[i]
      <3>1. PICK i \in Rows : t = Names[i]
        BY <2>2
      <3>2. Keyword[t] \in Seq(KeyLetters)
        BY <3>1, KeywordOf, TableRows
      <3>3. KeyLetters \subseteq AllLetters
        BY DEF AllLetters
      <3> HIDE DEF AllLetters
      <3> QED
        BY <3>2, <3>3
    <2> QED
      BY <2>1, <2>2, KeywordOf
  <1>2. ASSUME NEW t \in Known, NEW k \in 0 .. BodyLength[t], NEW b \in [1 .. k -> Letters(t)]
        PROVE  Keyword[t] \o b \in Seq(AllLetters)
    <2>1. Letters(t) \subseteq AllLetters
      BY DEF AllLetters
    <2> DEFINE L == Letters(t)
    <2> HIDE DEF L
    <2>2. k \in Nat /\ b \in [1 .. k -> L] /\ L \subseteq AllLetters
      BY <1>2, <2>1 DEF L
    <2>3. b \in Seq(AllLetters)
      BY <2>2
    <2> QED
      BY <1>1, <2>3
  <1>3. <<>> \in Seq(AllLetters)
    OBVIOUS
  <1>4. <<"$What", "a", Null>> \in Seq(AllLetters)
    <2>1. "$What" \in AllLetters /\ "a" \in AllLetters /\ Null \in AllLetters
      BY DEF AllLetters
    <2> QED
      BY <2>1
  <1>5. ASSUME NEW s \in Lines PROVE s \in Seq(AllLetters)
    <2> DEFINE whole == UNION {{Keyword[t] \o b : b \in UNION {[1 .. k -> Letters(t)] : k \in 0 .. BodyLength[t]}} :
                                 t \in Known}
           others == {<<>>, <<"$What", "a", Null>>}
    <2>1. s \in whole \/ s = <<>> \/ s = <<"$What", "a", Null>>
      <3>1. Lines = whole \cup others
        BY ONLY DEF Lines
      <3>2. \A x \in others : x = <<>> \/ x = <<"$What", "a", Null>>
        OBVIOUS
      <3> HIDE DEF whole, others
      <3> QED
        BY <1>5, <3>1, <3>2
    <2>2. ASSUME s \in whole PROVE s \in Seq(AllLetters)
      <3>1. PICK t \in Known : s \in {Keyword[t] \o b : b \in UNION {[1 .. k -> Letters(t)] : k \in 0 .. BodyLength[t]}}
        BY <2>2
      <3>2. PICK b \in UNION {[1 .. k -> Letters(t)] : k \in 0 .. BodyLength[t]} : s = Keyword[t] \o b
        BY <3>1
      <3>3. PICK k \in 0 .. BodyLength[t] : b \in [1 .. k -> Letters(t)]
        BY <3>2
      <3> QED
        BY <1>2, <3>2, <3>3
    <2> QED
      BY <1>3, <1>4, <2>1, <2>2
  <1> QED
    BY <1>5

\* What is left of a message with null characters is a part of it.
LEMMA KeptIsText ==
    ASSUME NEW S, NEW s \in Seq(S)
    PROVE  SubSeq(s, 1, UntilNull(s)) \in Seq(S) /\ Trimmed(s) \in Seq(S)
  <1>1. UntilNull(s) \in Int /\ UntilNull(s) <= Len(s)
    <2> DEFINE nulls == {i \in 1 .. Len(s) : s[i] = Null}
    <2>1. UntilNull(s) = (IF nulls # {} THEN Min(nulls) ELSE 0) - 1
      BY DEF UntilNull, SelectInSeq
    <2>2. CASE nulls # {}
      <3>1. nulls \in SUBSET Nat
        OBVIOUS
      <3>2. PICK f \in nulls : \A j \in nulls : f <= j
        BY <2>2, <3>1, SmallestNumber
      <3>3. Min(nulls) \in nulls
        BY <3>2 DEF Min
      <3> HIDE DEF nulls
      <3>4. Min(nulls) \in 1 .. Len(s)
        BY <3>3 DEF nulls
      <3> QED
        BY <2>1, <2>2, <3>4
    <2>3. CASE nulls = {}
      BY <2>1, <2>3
    <2> QED
      BY <2>2, <2>3
  <1>2. \E n \in 0 .. Len(s) : Trimmed(s) = SubSeq(s, 1, n)
    <2> DEFINE ends == {i \in 0 .. Len(s) : \A j \in (i + 1) .. Len(s) : s[j] = Null}
    <2>1. Len(s) \in ends /\ ends \in SUBSET Nat
      OBVIOUS
    <2>2. Trimmed(s) = SubSeq(s, 1, CHOOSE i \in ends : \A j \in ends : i <= j)
      BY DEF Trimmed
    <2>3. ends \subseteq 0 .. Len(s)
      OBVIOUS
    <2> HIDE DEF ends
    <2>4. PICK f \in ends : \A j \in ends : f <= j
      BY <2>1, SmallestNumber
    <2>5. (CHOOSE i \in ends : \A j \in ends : i <= j) \in ends
      BY <2>4
    <2> QED
      BY <2>2, <2>3, <2>5
  <1>3. ASSUME NEW n \in Int, n <= Len(s) PROVE SubSeq(s, 1, n) \in Seq(S)
    BY <1>3
  <1> QED
    BY <1>1, <1>2, <1>3

LEMMA LongestWinsInit == ParserInit => LongestWins
  BY DEF ParserInit, LongestWins

LEMMA LongestWinsNext == LongestWins /\ [ParserNext]_parserVars => LongestWins'
  <1>1. ASSUME NEW s \in Lines, TakeMessage(s) PROVE LongestWins'
    <2>1. s \in Seq(AllLetters)
      BY LinesAreTexts
    <2> HIDE DEF AllLetters
    <2>2. ASSUME NEW k \in Seq(AllLetters), Parse(k), ~HasNull(k) \/ Recognise(k) = Unknown
          PROVE  LongestWins'
      <3>1. CASE Recognise(k) = Unknown
        BY <2>2, <3>1 DEF Parse, LongestWins
      <3>2. CASE Recognise(k) # Unknown
        <4>1. mStr' = k /\ mType' = Recognise(k) /\ mKWSize' = Len(Keyword[Recognise(k)])
          BY <2>2, <3>2 DEF Parse
        <4>2. /\ AreYou(k, Keyword[Recognise(k)])
              /\ \A t \in Known : AreYou(k, Keyword[t]) => Len(Keyword[t]) <= Len(Keyword[Recognise(k)])
          BY <3>2, FirstIsLongest
        <4>3. ~HasNull(k)
          BY <2>2, <3>2
        <4> HIDE DEF Known, Keyword, AreYou, HasNull, Recognise
        <4>4. ~HasNull(mStr') /\ AreYou(mStr', Keyword[mType'])
          BY <4>1, <4>2, <4>3
        <4>5. \A t \in Known : AreYou(mStr', Keyword[t]) => Len(Keyword[t]) <= mKWSize'
          BY <4>1, <4>2
        <4> QED
          BY <4>4, <4>5 DEF LongestWins
      <3> QED
        BY <3>1, <3>2
    <2>3. CASE HasNull(s) /\ Recognise(s) # Unknown
      <3> DEFINE kept == IF Recognise(s) = "Lock" THEN SubSeq(s, 1, UntilNull(s)) ELSE Trimmed(s)
      <3>1. Parse(kept) /\ stage' = IF kept = s \/ HasNull(kept) THEN "closed" ELSE "parsed"
        BY <1>1, <2>3 DEF TakeMessage
      <3>2. kept \in Seq(AllLetters)
        BY <2>1, KeptIsText
      <3> HIDE DEF kept
      <3>3. CASE HasNull(kept) \/ kept = s
        <4>1. stage' = "closed"
          BY <3>1, <3>3
        <4> QED
          BY <4>1 DEF LongestWins
      <3>4. CASE ~HasNull(kept)
        BY <2>2, <3>1, <3>2, <3>4
      <3> QED
        BY <3>3, <3>4
    <2>4. CASE ~(HasNull(s) /\ Recognise(s) # Unknown)
      <3>1. Parse(s)
        BY <1>1, <2>4 DEF TakeMessage
      <3> QED
        BY <2>1, <2>2, <2>4, <3>1
    <2> QED
      BY <2>3, <2>4
  <1>2. ASSUME ReInit \/ SplitMessage \/ ReadFields \/ SplitAgain PROVE LongestWins'
    <2>1. stage' # "parsed"
      BY <1>2 DEF ReInit, SplitMessage, ReadFields, SplitAgain
    <2> QED
      BY <2>1 DEF LongestWins
  <1>3. ASSUME NEW n, NEW wording, stage = "read", Rewrite(n, wording) PROVE LongestWins'
    <2>1. stage' # "parsed"
      BY <1>3 DEF Rewrite
    <2> QED
      BY <2>1 DEF LongestWins
  <1>4. ASSUME LongestWins, UNCHANGED parserVars PROVE LongestWins'
    BY <1>4 DEF parserVars, LongestWins
  <1> QED
    BY <1>1, <1>2, <1>3, <1>4 DEF ParserNext

-----------------------------------------------------------------------------
(* Message: where a delimiter stands *)

Mark1(lim) == Len(lim) \in 1 .. 2

LEMMA IsWithin ==
    ASSUME NEW S, NEW s \in Seq(S), NEW T, NEW lim \in Seq(T), NEW i \in Int, Is(s, lim, i)
    PROVE  i >= 0 /\ i + Len(lim) <= Len(s)
  BY DEF Is

LEMMA SameLetters ==
    ASSUME NEW S, NEW s \in Seq(S), NEW t \in Seq(S), Len(s) = Len(t),
           \A k \in 1 .. Len(s) : s[k] = t[k]
    PROVE  s = t
  <1>1. s = [k \in 1 .. Len(s) |-> s[k]] /\ t = [k \in 1 .. Len(t) |-> t[k]]
    OBVIOUS
  <1> QED
    BY <1>1

LEMMA SubSeqOfOne ==
    ASSUME NEW S, NEW s \in Seq(S), NEW h \in 1 .. Len(s)
    PROVE  SubSeq(s, h, h) = <<s[h]>>
  <1> DEFINE q == SubSeq(s, h, h)
             t == <<s[h]>>
  <1>1. q \in Seq(S) /\ Len(q) = 1 /\ q[1] = s[h]
    OBVIOUS
  <1>2. t \in Seq(S) /\ Len(t) = 1 /\ t[1] = s[h]
    OBVIOUS
  <1> HIDE DEF q, t
  <1>3. \A k \in 1 .. Len(q) : q[k] = t[k]
    BY <1>1, <1>2
  <1>4. q = t
    BY <1>1, <1>2, <1>3, SameLetters
  <1> QED
    BY <1>4 DEF q, t

\* A delimiter of one letter stands where the letter does.
LEMMA IsLetter ==
    ASSUME NEW S, NEW s \in Seq(S), NEW c, NEW i \in Int
    PROVE  Is(s, <<c>>, i) <=> i >= 0 /\ i < Len(s) /\ s[i + 1] = c
  <1>1. Len(<<c>>) = 1 /\ <<c>>[1] = c
    OBVIOUS
  <1>2. ASSUME i >= 0, i < Len(s) PROVE SubSeq(s, i + 1, i + 1) = <<s[i + 1]>>
    <2>1. i + 1 \in 1 .. Len(s)
      BY <1>2
    <2>2. SubSeq(s, i + 1, i + 1) = <<s[i + 1]>>
      BY <2>1, SubSeqOfOne
    <2> QED
      BY <2>2
  <1>3. i < Len(s) <=> i + 1 <= Len(s)
    OBVIOUS
  <1>4. CASE i >= 0 /\ i < Len(s)
    <2>1. Is(s, <<c>>, i) <=> SubSeq(s, i + 1, i + 1) = <<c>>
      BY <1>1, <1>3, <1>4 DEF Is
    <2>2. <<s[i + 1]>> = <<c>> <=> s[i + 1] = c
      OBVIOUS
    <2> QED
      BY <1>2, <1>4, <2>1, <2>2
  <1>5. CASE ~(i >= 0 /\ i < Len(s))
    BY <1>1, <1>3, <1>5 DEF Is
  <1> QED
    BY <1>4, <1>5

\* A set of numbers from one place on has a smallest one, and one up to a place
\* a greatest.
LEMMA SmallestFrom ==
    ASSUME NEW lo \in Int, NEW T, \A x \in T : x \in Int /\ lo <= x, T # {}
    PROVE  \E f \in T : \A x \in T : f <= x
  <1> DEFINE U == {n \in Nat : lo + n \in T}
  <1>1. PICK x \in T : TRUE
    OBVIOUS
  <1>2. x - lo \in U
    BY <1>1
  <1>3. U \in SUBSET Nat
    OBVIOUS
  <1>4. PICK f \in U : \A n \in U : f <= n
    <2> HIDE DEF U
    <2> QED
      BY <1>2, <1>3, SmallestNumber
  <1>5. ASSUME NEW y \in T PROVE lo + f <= y
    <2>1. y - lo \in U /\ f \in Nat /\ y \in Int
      BY <1>4, <1>5
    <2> QED
      BY <1>4, <2>1
  <1> QED
    BY <1>4, <1>5

LEMMA GreatestUpTo ==
    ASSUME NEW hi \in Int, NEW T, \A x \in T : x \in Int /\ x <= hi, T # {}
    PROVE  \E f \in T : \A x \in T : x <= f
  <1> DEFINE U == {n \in Nat : hi - n \in T}
  <1>1. PICK x \in T : TRUE
    OBVIOUS
  <1>2. hi - x \in U
    BY <1>1
  <1>3. U \in SUBSET Nat
    OBVIOUS
  <1>4. PICK f \in U : \A n \in U : f <= n
    <2> HIDE DEF U
    <2> QED
      BY <1>2, <1>3, SmallestNumber
  <1>5. ASSUME NEW y \in T PROVE y <= hi - f
    <2>1. hi - y \in U /\ f \in Nat /\ y \in Int
      BY <1>4, <1>5
    <2>2. f <= hi - y
      BY <1>4, <2>1
    <2> QED
      BY <2>1, <2>2
  <1> QED
    BY <1>4, <1>5

\* The first place from x on, or there is none.
FirstAt(s, lim, x, i) ==
    /\ i \in Int /\ x <= i /\ Is(s, lim, i)
    /\ \A j \in Int : x <= j /\ j < i => ~Is(s, lim, j)
LastAt(s, lim, x, i) ==
    /\ i \in Int /\ i <= x /\ Is(s, lim, i)
    /\ \A j \in Int : i < j /\ j <= x => ~Is(s, lim, j)
NoneFrom(s, lim, x) == \A j \in Int : x <= j => ~Is(s, lim, j)

LEMMA FindIs ==
    ASSUME NEW S, NEW s \in Seq(S), NEW T, NEW lim \in Seq(T), NEW x \in Nat
    PROVE  \/ Find(s, lim, x) = -1 /\ NoneFrom(s, lim, x)
           \/ FirstAt(s, lim, x, Find(s, lim, x)) /\ Find(s, lim, x) # -1
  <1> DEFINE F == Found0(s, lim, x)
             f == CHOOSE i \in F : \A j \in F : i <= j
  <1>1. \A j \in Int : j \in F <=> x <= j /\ Is(s, lim, j)
    BY IsWithin DEF Found0
  <1>2. \A j \in F : j \in Int
    BY DEF Found0
  <1>3. Find(s, lim, x) = IF F = {} THEN -1 ELSE f
    BY DEF Find
  <1> HIDE DEF F
  <1>4. CASE F = {}
    BY <1>1, <1>3, <1>4 DEF NoneFrom
  <1>5. CASE F # {}
    <2>1. \A j \in F : j \in Int /\ x <= j
      BY <1>1, <1>2
    <2>2. \E i \in F : \A j \in F : i <= j
      BY <1>5, <2>1, SmallestFrom
    <2>3. f \in F /\ \A j \in F : f <= j
      BY <2>2
    <2> HIDE DEF f
    <2>4. FirstAt(s, lim, x, f) /\ f # -1
      BY <1>1, <2>1, <2>3 DEF FirstAt
    <2> QED
      BY <1>3, <1>5, <2>4
  <1> QED
    BY <1>4, <1>5

LEMMA RFindIs ==
    ASSUME NEW S, NEW s \in Seq(S), NEW T, NEW lim \in Seq(T), NEW x \in Int
    PROVE  \/ RFind(s, lim, x) = -1 /\ \A j \in Int : j <= x => ~Is(s, lim, j)
           \/ LastAt(s, lim, x, RFind(s, lim, x)) /\ RFind(s, lim, x) # -1
  <1> DEFINE F == {i \in Found0(s, lim, 0) : i <= x}
             f == CHOOSE i \in F : \A j \in F : j <= i
  <1>1. \A j \in Int : j \in F <=> j <= x /\ Is(s, lim, j)
    BY IsWithin DEF Found0
  <1>2. \A j \in F : j \in Int /\ j >= 0
    BY DEF Found0
  <1>3. RFind(s, lim, x) = IF F = {} THEN -1 ELSE f
    BY DEF RFind
  <1> HIDE DEF F
  <1>4. CASE F = {}
    BY <1>1, <1>3, <1>4
  <1>5. CASE F # {}
    <2>1. \A j \in F : j \in Int /\ j <= x
      BY <1>1, <1>2
    <2>2. \E i \in F : \A j \in F : j <= i
      BY <1>5, <2>1, GreatestUpTo
    <2>3. f \in F /\ \A j \in F : j <= f
      BY <2>2
    <2> HIDE DEF f
    <2>4. LastAt(s, lim, x, f) /\ f # -1
      BY <1>1, <1>2, <2>1, <2>3 DEF LastAt
    <2> QED
      BY <1>3, <1>5, <2>4
  <1> QED
    BY <1>4, <1>5

-----------------------------------------------------------------------------
(* Message: one step of a division *)

IsDivision(d) == d = [ch |-> d.ch, err |-> d.err] /\ d.err \in BOOLEAN
At2(d, n, x, y) == n \in DOMAIN d.ch /\ d.ch[n] = <<x, y>>
Keeps2(d, r, names) == \A n, x, y : n \notin names /\ At2(d, n, x, y) => At2(r, n, x, y)

LEMMA ChunkSet ==
    ASSUME NEW d, IsDivision(d), NEW n, NEW x, NEW y
    PROVE  LET r == SetChunk(d, n, x, y) IN
           IsDivision(r) /\ At2(r, n, x, y) /\ r.err = d.err /\ Keeps2(d, r, {n})
  <1> DEFINE r == SetChunk(d, n, x, y)
             v == <<x, y>>
  <1>1. r = [ch |-> With(d.ch, n, v), err |-> d.err]
    BY DEF IsDivision, SetChunk
  <1>2. r.ch = With(d.ch, n, v) /\ r.err = d.err
    BY <1>1
  <1> HIDE DEF r, v
  <1>3. IsDivision(r)
    BY <1>1, <1>2 DEF IsDivision
  <1>4. n \in DOMAIN r.ch /\ r.ch[n] = v
    BY <1>2 DEF With
  <1>5. ASSUME NEW k, k # n, k \in DOMAIN d.ch PROVE k \in DOMAIN r.ch /\ r.ch[k] = d.ch[k]
    BY <1>2, <1>5 DEF With
  <1>6. Keeps2(d, r, {n})
    BY <1>5 DEF Keeps2, At2
  <1>7. At2(r, n, x, y)
    BY <1>4 DEF At2, v
  <1> QED
    BY <1>2, <1>3, <1>6, <1>7 DEF r

LEMMA ErrorSet ==
    ASSUME NEW c, NEW e, NEW v
    PROVE  LET d == [ch |-> c, err |-> e] IN [d EXCEPT !.err = v] = [ch |-> c, err |-> v] /\ d.ch = c
  OBVIOUS

LEMMA FailedIs ==
    ASSUME NEW d, IsDivision(d)
    PROVE  IsDivision(Failed(d)) /\ Failed(d).err = TRUE /\ Failed(d).ch = d.ch
  <1> DEFINE r == Failed(d)
  <1>a. PICK c, e : d = [ch |-> c, err |-> e]
    BY DEF IsDivision
  <1>b. [d EXCEPT !.err = TRUE] = [ch |-> c, err |-> TRUE] /\ d.ch = c
    BY <1>a, ErrorSet
  <1>1. r = [ch |-> d.ch, err |-> TRUE]
    BY <1>b DEF Failed
  <1>2. r.ch = d.ch /\ r.err = TRUE
    BY <1>1
  <1> HIDE DEF r
  <1>3. IsDivision(r)
    BY <1>1, <1>2 DEF IsDivision
  <1> QED
    BY <1>2, <1>3 DEF r

LEMMA KeepsBoth ==
    ASSUME NEW d, NEW e, NEW r, NEW M, NEW N, Keeps2(d, e, M), Keeps2(e, r, N)
    PROVE  Keeps2(d, r, M \cup N)
  BY DEF Keeps2

\* The text that is divided: the length may be that of an older, longer one.
IsText(m, s, n, kw) == m = [s |-> s, len |-> n, kw |-> kw] /\ n \in Nat /\ Len(s) <= n

\* A chunk that goes to the end of the message is divided at the first
\* delimiter in it, or nothing is changed but the error.
SplitsAt(d, r, s, n, x, lim, a, b, i) ==
    /\ FirstAt(s, lim, x, i) /\ r.err = d.err
    /\ At2(r, a, x, i - x) /\ At2(r, b, i + Len(lim), n - i - Len(lim))
    /\ Keeps2(d, r, {a, b})
SplitsNot(d, r, s, x, lim) == r.err = TRUE /\ r.ch = d.ch /\ NoneFrom(s, lim, x)
Splits(d, r, s, n, x, lim, a, b) ==
    IsDivision(r) /\ (SplitsNot(d, r, s, x, lim) \/ \E i : SplitsAt(d, r, s, n, x, lim, a, b, i))

LEMMA SplitAtIs ==
    ASSUME NEW S, NEW s \in Seq(S), NEW T, NEW lim \in Seq(T), Len(lim) >= 1, NEW n, NEW kw, NEW m,
           IsText(m, s, n, kw), NEW d, IsDivision(d), NEW x \in 0 .. n, NEW length \in {0, n - x},
           NEW a, NEW b, a # b
    PROVE  Splits(d, SplitAt(d, m, x, lim, a, b, length, TRUE), s, n, x, lim, a, b)
  <1> DEFINE r == SplitAt(d, m, x, lim, a, b, length, TRUE)
             i == Find(s, lim, x)
             len == IF length = 0 THEN n ELSE length
             none == i = -1 \/ (len >= 0 /\ i - x >= len)
             one == SetChunk(d, a, x, i - x)
             two == SetChunk(one, b, i + Len(lim), n - i - Len(lim))
  <1>1. m.s = s /\ m.len = n /\ n \in Nat /\ Len(s) \in Nat /\ Len(s) <= n /\ x \in Nat /\ Len(lim) \in Nat
    BY DEF IsText
  <1>2. r = IF none THEN Failed(d) ELSE two
    BY <1>1 DEF SplitAt
  <1>3. CASE i = -1
    <2>1. NoneFrom(s, lim, x)
      BY <1>1, <1>3, FindIs DEF FirstAt
    <2>2. r = Failed(d)
      BY <1>2, <1>3
    <2>3. Splits(d, Failed(d), s, n, x, lim, a, b)
      BY <2>1, FailedIs DEF Splits, SplitsNot
    <2> QED
      BY <2>2, <2>3
  <1>4. CASE i # -1
    <2>1. FirstAt(s, lim, x, i)
      BY <1>1, <1>4, FindIs
    <2> HIDE DEF i
    <2>2. i \in Int /\ x <= i /\ i + Len(lim) <= Len(s)
      BY <2>1, IsWithin DEF FirstAt
    <2>3. ~none
      BY <1>1, <1>4, <2>2
    <2>4. r = two
      BY <1>2, <2>3
    <2> HIDE DEF none, len, r
    <2>5. IsDivision(one) /\ At2(one, a, x, i - x) /\ one.err = d.err /\ Keeps2(d, one, {a})
      BY ChunkSet
    <2> HIDE DEF one
    <2>6. /\ IsDivision(two) /\ At2(two, b, i + Len(lim), n - i - Len(lim)) /\ two.err = one.err
          /\ Keeps2(one, two, {b})
      BY <2>5, ChunkSet
    <2> HIDE DEF two
    <2>7. At2(two, a, x, i - x)
      BY <2>5, <2>6 DEF Keeps2
    <2>8. Keeps2(d, two, {a, b})
      <3>1. {a} \cup {b} = {a, b}
        OBVIOUS
      <3>2. Keeps2(d, two, {a} \cup {b})
        BY <2>5, <2>6, KeepsBoth
      <3> QED
        BY <3>1, <3>2
    <2>9. SplitsAt(d, r, s, n, x, lim, a, b, i)
      BY <2>1, <2>4, <2>5, <2>6, <2>7, <2>8 DEF SplitsAt
    <2>x. IsDivision(r)
      BY <2>4, <2>6
    <2>y. Splits(d, r, s, n, x, lim, a, b)
      BY <2>x, <2>9 DEF Splits
    <2> QED
      BY <2>y DEF r
  <1> QED
    BY <1>3, <1>4

LEMMA SplitKeeps ==
    ASSUME NEW d, IsDivision(d), NEW m, NEW step
    PROVE  LET r == SplitOnTwo(d, m, step) IN
           IsDivision(r) /\ (d.err = TRUE => r.err = TRUE) /\ Keeps2(d, r, {step.a, step.b})
  <1> DEFINE r == SplitOnTwo(d, m, step)
  <1>1. \E x, y, u, v : r \in {Failed(d), SetChunk(SetChunk(d, step.a, x, y), step.b, u, v)}
    BY DEF SplitOnTwo, SplitAt
  <1>2. PICK x, y, u, v : r \in {Failed(d), SetChunk(SetChunk(d, step.a, x, y), step.b, u, v)}
    BY <1>1
  <1> HIDE DEF r
  <1>3. CASE r = Failed(d)
    <2>1. IsDivision(r) /\ r.err = TRUE /\ r.ch = d.ch
      BY <1>3, FailedIs
    <2> QED
      BY <2>1 DEF Keeps2, At2, r
  <1>4. CASE r = SetChunk(SetChunk(d, step.a, x, y), step.b, u, v)
    <2> DEFINE e == SetChunk(d, step.a, x, y)
    <2>1. IsDivision(e) /\ e.err = d.err /\ Keeps2(d, e, {step.a})
      BY ChunkSet
    <2>2. r = SetChunk(e, step.b, u, v)
      BY <1>4
    <2> HIDE DEF e
    <2>3. IsDivision(r) /\ r.err = e.err /\ Keeps2(e, r, {step.b})
      BY <2>1, <2>2, ChunkSet
    <2>4. {step.a} \cup {step.b} = {step.a, step.b}
      OBVIOUS
    <2>5. Keeps2(d, r, {step.a} \cup {step.b})
      BY <2>1, <2>3, KeepsBoth
    <2> QED
      BY <2>1, <2>3, <2>4, <2>5 DEF r
  <1> QED
    BY <1>2, <1>3, <1>4

LEMMA PlainSplit ==
    ASSUME NEW d, IsDivision(d), NEW m, NEW step, step.do = "split"
    PROVE  IsDivision(Divide(d, m, step)) /\ (d.err = TRUE => Divide(d, m, step).err = TRUE)
  <1>1. Divide(d, m, step) = SplitOnTwo(d, m, step)
    BY DEF Divide
  <1>2. IsDivision(SplitOnTwo(d, m, step)) /\ (d.err = TRUE => SplitOnTwo(d, m, step).err = TRUE)
    BY SplitKeeps
  <1> QED
    BY <1>1, <1>2

\* A step after one that failed leaves the error.
LEMMA ErrorStays ==
    ASSUME NEW d, IsDivision(d), NEW m, NEW step
    PROVE  IsDivision(Divide(d, m, step)) /\ (d.err = TRUE => Divide(d, m, step).err = TRUE)
  <1>1. CASE step.do = "split"
    BY <1>1, PlainSplit
  <1>2. CASE step.do = "skip"
    <2>1. Divide(d, m, step) \in {Failed(d), SetChunk(d, step.of, Chunk(d, step.of)[1] + step.amount,
                                                      Chunk(d, step.of)[2] - step.amount)}
      BY <1>2 DEF Divide, ChunkRedLeft
    <2> DEFINE e == SetChunk(d, step.of, Chunk(d, step.of)[1] + step.amount,
                             Chunk(d, step.of)[2] - step.amount)
    <2>a. \A x, y : IsDivision(SetChunk(d, step.of, x, y)) /\ SetChunk(d, step.of, x, y).err = d.err
      BY ChunkSet
    <2>2. IsDivision(e) /\ e.err = d.err
      BY <2>a
    <2>3. IsDivision(Failed(d)) /\ Failed(d).err = TRUE
      BY FailedIs
    <2> HIDE DEF e
    <2>4. Divide(d, m, step) = Failed(d) \/ Divide(d, m, step) = e
      BY <2>1 DEF e
    <2> QED
      BY <2>2, <2>3, <2>4
  <1>3. CASE step.do \notin {"split", "skip"}
    <2>1. Divide(d, m, step) = SetChunk(d, step.of, Chunk(d, step.of)[1], Chunk(d, step.of)[2] - step.amount)
      BY <1>3 DEF Divide, ChunkRedRight
    <2> DEFINE e == SetChunk(d, step.of, Chunk(d, step.of)[1], Chunk(d, step.of)[2] - step.amount)
    <2>a. \A x, y : IsDivision(SetChunk(d, step.of, x, y)) /\ SetChunk(d, step.of, x, y).err = d.err
      BY ChunkSet
    <2>2. IsDivision(e) /\ e.err = d.err
      BY <2>a
    <2> HIDE DEF e
    <2>3. Divide(d, m, step) = e
      BY <2>1 DEF e
    <2> QED
      BY <2>2, <2>3
  <1> QED
    BY <1>1, <1>2, <1>3

LEMMA ChunkAt ==
    ASSUME NEW d, NEW n, NEW x, NEW y, At2(d, n, x, y)
    PROVE  Chunk(d, n)[1] = x /\ Chunk(d, n)[2] = y
  BY DEF At2, Chunk

\* The chunk "of" begins at x and goes to the end, or is the whole message.
Nameless == ""
Named(of) == of # Nameless
Stands(d, of, x, n, kw) == IF of = Nameless THEN x = kw ELSE At2(d, of, x, n - x)

LEMMA NamedStands ==
    ASSUME NEW d, NEW of, Named(of), NEW x, NEW n, NEW kw
    PROVE  Stands(d, of, x, n, kw) <=> At2(d, of, x, n - x)
  BY Zenon DEF Named, Stands

LEMMA WholeStands ==
    ASSUME NEW d, NEW x, NEW n, NEW kw
    PROVE  Stands(d, Nameless, x, n, kw) <=> x = kw
  BY Zenon DEF Stands

LEMMA StartIs ==
    ASSUME NEW lim, NEW a, NEW b
    PROVE  Start(lim, a, b) = Split(Nameless, lim, a, b)
  BY Zenon DEF Start, Split, Nameless

\* A step that divides the chunk that goes to the end, or the whole message.
LEMMA SplitIs ==
    ASSUME NEW S, NEW s \in Seq(S), NEW T, NEW lim \in Seq(T), Len(lim) >= 1, NEW n, NEW kw, NEW m,
           IsText(m, s, n, kw), NEW d, IsDivision(d), NEW x \in 0 .. n,
           NEW a, NEW b, a # b, NEW of,
           Stands(d, of, x, n, kw)
    PROVE  Splits(d, Divide(d, m, Split(of, lim, a, b)), s, n, x, lim, a, b)
  <1> DEFINE step == Split(of, lim, a, b)
  <1>1. /\ step.do = "split" /\ step.of = of /\ step.lim = lim /\ step.a = a /\ step.b = b
        /\ step.left = TRUE
    BY DEF Split
  <1> HIDE DEF step
  <1>2. Divide(d, m, step) = SplitOnTwo(d, m, step)
    BY <1>1 DEF Divide
  <1>3. CASE of = Nameless
    <2>z. x = kw
      BY <1>3, WholeStands
    <2>0. m.kw = kw
      BY DEF IsText
    <2>1. SplitOnTwo(d, m, step) = SplitAt(d, m, x, lim, a, b, 0, TRUE)
      BY <1>1, <1>3, <2>0, <2>z DEF SplitOnTwo, Nameless
    <2>2. Splits(d, SplitAt(d, m, x, lim, a, b, 0, TRUE), s, n, x, lim, a, b)
      BY SplitAtIs
    <2> QED
      BY <1>2, <2>1, <2>2 DEF step
  <1>4. CASE of # Nameless
    <2>0. At2(d, of, x, n - x)
      BY <1>4, NamedStands DEF Named
    <2>1. SplitOnTwo(d, m, step) = SplitAt(d, m, x, lim, a, b, n - x, TRUE)
      BY <1>1, <1>4, <2>0, ChunkAt DEF SplitOnTwo, Nameless
    <2>2. Splits(d, SplitAt(d, m, x, lim, a, b, n - x, TRUE), s, n, x, lim, a, b)
      BY SplitAtIs
    <2> QED
      BY <1>2, <2>1, <2>2 DEF step
  <1> QED
    BY <1>3, <1>4

\* The division after each of its steps.
Chain(g, q, m, d0) ==
    /\ g[0] = d0 /\ \A i \in 1 .. Len(q) : g[i] = Divide(g[i - 1], m, q[i])
    /\ DivideBy(q, m, d0) = g[Len(q)]

LEMMA DividedBy ==
    ASSUME NEW q, NEW n \in 0 .. 7, Len(q) = n, NEW m, NEW d0
    PROVE  \E g : Chain(g, q, m, d0)
  <1> DEFINE solves(f) == f = [i \in 0 .. n |-> IF i = 0 THEN d0 ELSE Divide(f[i - 1], m, q[i])]
             g == CHOOSE f : solves(f)
             e1 == Divide(d0, m, q[1])
             e2 == Divide(e1, m, q[2])
             e3 == Divide(e2, m, q[3])
             e4 == Divide(e3, m, q[4])
             e5 == Divide(e4, m, q[5])
             e6 == Divide(e5, m, q[6])
             e7 == Divide(e6, m, q[7])
             all7 == <<e1, e2, e3, e4, e5, e6, e7>>
             e == [i \in 0 .. n |-> IF i = 0 THEN d0 ELSE all7[i]]
  <1>1. DivideBy(q, m, d0) = g[n]
    BY DEF DivideBy
  <1>2. n \in Nat /\ n <= 7
    OBVIOUS
  <1> HIDE DEF e1, e2, e3, e4, e5, e6, e7
  <1>3. ASSUME NEW i \in 0 .. n, i # 0 PROVE e[i] = Divide(e[i - 1], m, q[i])
    <2>1. i \in {1, 2, 3, 4, 5, 6, 7} /\ i - 1 \in 0 .. n
      BY <1>2, <1>3
    <2>2. e[i] = all7[i] /\ e[i - 1] = IF i = 1 THEN d0 ELSE all7[i - 1]
      BY <1>3, <2>1
    <2> HIDE DEF e
    <2>3. CASE i = 1
      BY <2>2, <2>3 DEF e1
    <2>4. CASE i = 2
      BY <2>2, <2>4 DEF e2
    <2>5. CASE i = 3
      BY <2>2, <2>5 DEF e3
    <2>6. CASE i = 4
      BY <2>2, <2>6 DEF e4
    <2>7. CASE i = 5
      BY <2>2, <2>7 DEF e5
    <2>8. CASE i = 6
      BY <2>2, <2>8 DEF e6
    <2>9. CASE i = 7
      BY <2>2, <2>9 DEF e7
    <2> QED
      BY <2>1, <2>3, <2>4, <2>5, <2>6, <2>7, <2>8, <2>9
  <1>4. e[0] = d0 /\ DOMAIN e = 0 .. n
    BY <1>2
  <1>5. solves(e)
    <2>1. e = [i \in 0 .. n |-> e[i]]
      OBVIOUS
    <2> HIDE DEF e
    <2>2. \A i \in 0 .. n : e[i] = IF i = 0 THEN d0 ELSE Divide(e[i - 1], m, q[i])
      BY <1>3, <1>4
    <2> QED
      BY <2>1, <2>2
  <1>6. solves(g)
    <2> HIDE DEF solves, e
    <2> QED
      BY <1>5
  <1>7. g[0] = d0 /\ \A i \in 1 .. n : g[i] = Divide(g[i - 1], m, q[i])
    <2>1. g = [i \in 0 .. n |-> IF i = 0 THEN d0 ELSE Divide(g[i - 1], m, q[i])]
      BY <1>6
    <2> HIDE DEF g
    <2> QED
      BY <1>2, <2>1
  <1> HIDE DEF g
  <1> QED
    BY <1>1, <1>7 DEF Chain

LEMMA ChainOf ==
    ASSUME NEW q, NEW n \in 0 .. 7, Len(q) = n, NEW m, NEW d0
    PROVE  \E g : /\ g[0] = d0 /\ DivideBy(q, m, d0) = g[n]
                  /\ \A i \in 0 .. n - 1 : g[i + 1] = Divide(g[i], m, q[i + 1])
  <1>1. PICK g : Chain(g, q, m, d0)
    BY DividedBy
  <1>2. ASSUME NEW i \in 0 .. n - 1 PROVE g[i + 1] = Divide(g[i], m, q[i + 1])
    <2>1. i + 1 \in 1 .. n /\ i + 1 - 1 = i
      OBVIOUS
    <2>2. g[i + 1] = Divide(g[i + 1 - 1], m, q[i + 1])
      BY <1>1, <2>1 DEF Chain
    <2> QED
      BY <2>1, <2>2
  <1>3. g[0] = d0 /\ DivideBy(q, m, d0) = g[n]
    BY <1>1 DEF Chain
  <1> QED
    BY <1>2, <1>3

-----------------------------------------------------------------------------
(* Message: the fields of a layout, one after the other *)

LimLetters == {Space, "F", "$<", ">", "$", ":", "?", "5", "/"}

IsLayout(l, k) ==
    /\ k \in Nat
    /\ \A i \in 1 .. k : /\ l[i].d \in Seq(LimLetters) /\ Len(l[i].d) >= 1
                         /\ l[i].skip \in Nat
    /\ \A i, j \in 1 .. k : l[i].n = l[j].n => i = j

\* Where the j-th field begins, and what follows the j-th delimiter.
FieldFrom(pos, l, kw, j) == IF j = 1 THEN kw ELSE pos[j - 1] + Len(l[j - 1].d) + l[j - 1].skip
Past(pos, l, kw, j)      == IF j = 0 THEN kw ELSE pos[j] + Len(l[j].d)
SkipAt(l, j)             == IF j = 0 THEN 0 ELSE l[j].skip

\* The first j fields are divided off at the first delimiters.
CutInto(d, s, kw, l, j, pos) ==
    \A i \in 1 .. j : /\ FirstAt(s, l[i].d, FieldFrom(pos, l, kw, i), pos[i])
                      /\ At2(d, l[i].n, FieldFrom(pos, l, kw, i), pos[i] - FieldFrom(pos, l, kw, i))

\* So they are, and the rest, without z letters at its beginning, is a chunk.
CutSoFar(d, s, n, kw, l, j, z, rest) ==
    /\ d.err = FALSE
    /\ \E pos : LET x == Past(pos, l, kw, j) + z IN
                /\ CutInto(d, s, kw, l, j, pos)
                /\ x \in kw .. n
                /\ Stands(d, rest, x, n, kw)

CanDivide(s, kw, l, k) ==
    \E p \in [1 .. k -> kw .. Len(s)] :
        \A i \in 1 .. k :
           /\ Is(s, l[i].d, p[i])
           /\ i < k => p[i] + Len(l[i].d) + l[i].skip <= p[i + 1]
           /\ i = k /\ l[i].skip > 0 => p[i] + Len(l[i].d) + l[i].skip < Len(s)

\* Wherever a message can be divided, the first delimiters come no later.
LEMMA Earliest ==
    ASSUME NEW S, NEW s \in Seq(S), NEW l, NEW k, IsLayout(l, k), NEW kw \in Nat,
           NEW j \in 0 .. k, NEW d, NEW pos, CutInto(d, s, kw, l, j, pos),
           NEW p \in [1 .. k -> kw .. Len(s)],
           \A i \in 1 .. k : Is(s, l[i].d, p[i]),
           \A i \in 1 .. k : i < k => p[i] + Len(l[i].d) + l[i].skip <= p[i + 1]
    PROVE  \A i \in 1 .. j : pos[i] \in Int /\ pos[i] <= p[i]
  <1> DEFINE T == {i \in 1 .. j : ~(pos[i] <= p[i])}
  <1>1. \A i \in 1 .. j : pos[i] \in Int
    BY DEF CutInto, FirstAt
  <1>2. j \in Nat /\ k \in Nat /\ j <= k /\ \A i \in 1 .. j : i \in 1 .. k
    BY DEF IsLayout
  <1>3. ASSUME T # {} PROVE FALSE
    <2>1. T \in SUBSET Nat
      BY <1>2
    <2>2. PICK i \in T : \A h \in T : i <= h
      BY <1>3, <2>1, SmallestNumber
    <2>3. i \in 1 .. j /\ p[i] < pos[i] /\ p[i] \in Int /\ p[i] >= kw
      BY <1>1, <1>2, <2>2
    <2>4. FieldFrom(pos, l, kw, i) <= p[i]
      <3>1. CASE i = 1
        BY <2>3, <3>1 DEF FieldFrom
      <3>2. CASE i # 1
        <4>1. i - 1 \in 1 .. j /\ i - 1 \in 1 .. k /\ i - 1 < k /\ i - 1 + 1 = i
          BY <1>2, <2>3, <3>2
        <4>2. pos[i - 1] <= p[i - 1]
          <5>1. i - 1 \notin T
            BY <2>2, <2>3
          <5> QED
            BY <4>1, <5>1
        <4>3. p[i - 1] + Len(l[i - 1].d) + l[i - 1].skip <= p[i]
          BY <4>1
        <4>4. Len(l[i - 1].d) \in Nat /\ l[i - 1].skip \in Nat /\ p[i - 1] \in Int /\ pos[i - 1] \in Int
          BY <1>1, <4>1 DEF IsLayout
        <4>5. p[i] \in Int
          BY <2>3
        <4>6. pos[i - 1] + Len(l[i - 1].d) + l[i - 1].skip <= p[i]
          <5> DEFINE px == pos[i - 1]
                     py == p[i - 1]
                     pu == Len(l[i - 1].d)
                     pv == l[i - 1].skip
                     pz == p[i]
          <5>1. px <= py /\ py + pu + pv <= pz /\ {px, py, pu, pv, pz} \subseteq Int
            BY <4>2, <4>3, <4>4, <4>5
          <5> HIDE DEF px, py, pu, pv, pz
          <5>2. px + pu + pv <= pz
            BY <5>1
          <5> QED
            BY <5>2 DEF px, pu, pv, pz
        <4> QED
          BY <3>2, <4>6 DEF FieldFrom
      <3> QED
        BY <3>1, <3>2
    <2>5. ~Is(s, l[i].d, p[i])
      BY <2>3, <2>4 DEF CutInto, FirstAt
    <2> QED
      BY <1>2, <2>3, <2>5
  <1>4. \A i \in 1 .. j : pos[i] <= p[i]
    BY <1>3
  <1> QED
    BY <1>1, <1>4

\* No delimiter is left for the next field: the message cannot be divided.
LEMMA NoneLeft ==
    ASSUME NEW S, NEW s \in Seq(S), NEW l, NEW k, IsLayout(l, k), NEW kw \in Nat,
           NEW j \in 0 .. k, NEW d, NEW pos, CutInto(d, s, kw, l, j, pos),
           NEW x, x = Past(pos, l, kw, j) + SkipAt(l, j), j < k => NoneFrom(s, l[j + 1].d, x),
           j = k => l[k].skip > 0 /\ Len(s) <= x /\ k # 0
    PROVE  ~CanDivide(s, kw, l, k)
  <1> SUFFICES ASSUME NEW p \in [1 .. k -> kw .. Len(s)],
                      \A i \in 1 .. k :
                         /\ Is(s, l[i].d, p[i])
                         /\ i < k => p[i] + Len(l[i].d) + l[i].skip <= p[i + 1]
                         /\ i = k /\ l[i].skip > 0 => p[i] + Len(l[i].d) + l[i].skip < Len(s)
               PROVE  FALSE
    BY DEF CanDivide
  <1>1. \A i \in 1 .. j : pos[i] \in Int /\ pos[i] <= p[i]
    BY Earliest
  <1>2. j \in Nat /\ k \in Nat /\ \A i \in 1 .. k : Len(l[i].d) \in Nat /\ l[i].skip \in Nat /\ p[i] \in Int
    BY DEF IsLayout
  <1>3. CASE j < k
    <2>1. j + 1 \in 1 .. k /\ Is(s, l[j + 1].d, p[j + 1]) /\ p[j + 1] \in Int /\ p[j + 1] >= kw
      BY <1>2, <1>3
    <2>2. x <= p[j + 1]
      <3>1. CASE j = 0
        BY <2>1, <3>1 DEF Past, SkipAt
      <3>2. CASE j # 0
        <4>1. j \in 1 .. j /\ j \in 1 .. k
          BY <1>2, <1>3, <3>2
        <4>2. p[j] + Len(l[j].d) + l[j].skip <= p[j + 1]
          BY <1>3, <4>1
        <4>3. x = pos[j] + Len(l[j].d) + l[j].skip
          BY <3>2 DEF Past, SkipAt
        <4>4. /\ pos[j] \in Int /\ pos[j] <= p[j] /\ Len(l[j].d) \in Nat /\ l[j].skip \in Nat
              /\ p[j] \in Int /\ p[j + 1] \in Int
          BY <1>1, <1>2, <2>1, <4>1
        <4>5. pos[j] + Len(l[j].d) + l[j].skip <= p[j + 1]
          <5> DEFINE px == pos[j]
                     py == p[j]
                     pu == Len(l[j].d)
                     pv == l[j].skip
                     pz == p[j + 1]
          <5>1. px <= py /\ py + pu + pv <= pz /\ {px, py, pu, pv, pz} \subseteq Int
            BY <4>2, <4>4
          <5> HIDE DEF px, py, pu, pv, pz
          <5>2. px + pu + pv <= pz
            BY <5>1
          <5> QED
            BY <5>2 DEF px, pu, pv, pz
        <4> QED
          BY <4>3, <4>5
      <3> QED
        BY <3>1, <3>2
    <2> QED
      BY <1>3, <2>1, <2>2 DEF NoneFrom
  <1>4. CASE j = k
    <2>1. k \in 1 .. k /\ l[k].skip > 0 /\ Len(s) <= x /\ x = pos[k] + Len(l[k].d) + l[k].skip
      BY <1>2, <1>4 DEF Past, SkipAt
    <2>2. p[k] + Len(l[k].d) + l[k].skip < Len(s)
      BY <2>1
    <2>3. /\ pos[k] \in Int /\ pos[k] <= p[k] /\ Len(l[k].d) \in Nat /\ l[k].skip \in Nat
          /\ p[k] \in Int /\ Len(s) \in Int
      BY <1>1, <1>2, <1>4, <2>1
    <2>4. x < Len(s) /\ x \in Int
      <3> DEFINE px == pos[k]
                 py == p[k]
                 pu == Len(l[k].d)
                 pv == l[k].skip
                 pz == Len(s)
      <3>1. px <= py /\ py + pu + pv < pz /\ {px, py, pu, pv, pz} \subseteq Int /\ x = px + pu + pv
        BY <2>1, <2>2, <2>3
      <3> HIDE DEF px, py, pu, pv, pz
      <3>2. x < pz /\ x \in Int
        BY <3>1
      <3> QED
        BY <3>2 DEF pz
    <2> QED
      BY <2>1, <2>3, <2>4
  <1> QED
    BY <1>2, <1>3, <1>4

\* What has been divided off stays so, whatever is set beside it.
LEMMA CutStays ==
    ASSUME NEW d, NEW r, NEW s, NEW kw, NEW l, NEW j, NEW pos, CutInto(d, s, kw, l, j, pos),
           NEW N, Keeps2(d, r, N), \A i \in 1 .. j : l[i].n \notin N
    PROVE  CutInto(r, s, kw, l, j, pos)
  BY DEF CutInto, Keeps2

\* One field more, or it is shown that there is none.
LEMMA OneFieldMore ==
    ASSUME NEW S, NEW s \in Seq(S), NEW n, NEW m, NEW kw \in Nat, IsText(m, s, n, kw),
           NEW l, NEW k, IsLayout(l, k), NEW j \in 0 .. k, j < k, NEW d, IsDivision(d),
           NEW of, CutSoFar(d, s, n, kw, l, j, SkipAt(l, j), of),
           NEW b, Named(b), \A i \in 1 .. j + 1 : l[i].n # b
    PROVE  LET r == Divide(d, m, Split(of, l[j + 1].d, l[j + 1].n, b)) IN
           /\ IsDivision(r)
           /\ \/ CutSoFar(r, s, n, kw, l, j + 1, 0, b)
              \/ r.err = TRUE /\ ~CanDivide(s, kw, l, k)
  <1> DEFINE lim == l[j + 1].d
             a == l[j + 1].n
             r == Divide(d, m, Split(of, lim, a, b))
  <1>1. PICK pos : LET x == Past(pos, l, kw, j) + SkipAt(l, j) IN
                   /\ CutInto(d, s, kw, l, j, pos)
                   /\ x \in kw .. n
                   /\ Stands(d, of, x, n, kw)
    BY DEF CutSoFar
  <1> DEFINE x == Past(pos, l, kw, j) + SkipAt(l, j)
  <1>2. /\ CutInto(d, s, kw, l, j, pos) /\ x \in kw .. n
        /\ Stands(d, of, x, n, kw)
    BY <1>1
  <1>3. /\ j \in Nat /\ k \in Nat /\ j + 1 \in 1 .. k /\ n \in Nat /\ j + 1 \in 1 .. j + 1
        /\ \A i \in 1 .. j + 1 : i # j + 1 => i \in 1 .. j
    BY DEF IsLayout, IsText
  <1>4. lim \in Seq(LimLetters) /\ Len(lim) >= 1 /\ a # b
    BY <1>3 DEF IsLayout
  <1>5. x = FieldFrom(pos, l, kw, j + 1)
    BY <1>3 DEF Past, SkipAt, FieldFrom
  <1>6. x \in 0 .. n /\ x \in Int
    BY <1>2, <1>3
  <1> DEFINE xx == x
  <1>x. xx = x
    OBVIOUS
  <1> HIDE DEF x, xx
  <1>7. Splits(d, r, s, n, x, lim, a, b)
    <2> HIDE DEF lim, a
    <2> QED
      BY <1>2, <1>4, <1>6, SplitIs
  <1> HIDE DEF r
  <1>8. CASE SplitsNot(d, r, s, x, lim)
    <2>1. NoneFrom(s, l[j + 1].d, x) /\ r.err = TRUE
      BY <1>8 DEF SplitsNot
    <2>2. j # k
      BY <1>3
    <2>3. ~CanDivide(s, kw, l, k)
      BY <1>2, <2>1, <2>2, NoneLeft DEF x
    <2> QED
      BY <1>7, <2>1, <2>3 DEF Splits, r
  <1>9. ASSUME NEW i0, SplitsAt(d, r, s, n, x, lim, a, b, i0)
        PROVE  CutSoFar(r, s, n, kw, l, j + 1, 0, b)
    <2> DEFINE pos2 == [i \in 1 .. j + 1 |-> IF i = j + 1 THEN i0 ELSE pos[i]]
    <2>1. pos2[j + 1] = i0 /\ \A i \in 1 .. j : pos2[i] = pos[i]
      BY <1>3
    <2> HIDE DEF pos2
    <2>2. \A i \in 1 .. j + 1 : FieldFrom(pos2, l, kw, i) = FieldFrom(pos, l, kw, i)
      <3> SUFFICES ASSUME NEW i \in 1 .. j + 1, i # 1 PROVE pos2[i - 1] = pos[i - 1]
        BY DEF FieldFrom
      <3>1. i - 1 \in 1 .. j
        BY <1>3
      <3> QED
        BY <2>1, <3>1
    <2>3. /\ FirstAt(s, lim, x, i0) /\ r.err = d.err /\ At2(r, a, x, i0 - x)
          /\ At2(r, b, i0 + Len(lim), n - i0 - Len(lim)) /\ Keeps2(d, r, {a, b})
      BY <1>9 DEF SplitsAt
    <2>4. \A i \in 1 .. j : l[i].n \notin {a, b}
      <3> SUFFICES ASSUME NEW i \in 1 .. j PROVE l[i].n # a /\ l[i].n # b
        OBVIOUS
      <3>1. i \in 1 .. k /\ i \in 1 .. j + 1 /\ i # j + 1
        BY <1>3
      <3> QED
        BY <1>3, <3>1 DEF IsLayout
    <2>5. CutInto(r, s, kw, l, j, pos)
      BY <1>2, <2>3, <2>4, CutStays
    <2>6. CutInto(r, s, kw, l, j + 1, pos2)
      <3> SUFFICES ASSUME NEW i \in 1 .. j + 1
                   PROVE  /\ FirstAt(s, l[i].d, FieldFrom(pos2, l, kw, i), pos2[i])
                          /\ At2(r, l[i].n, FieldFrom(pos2, l, kw, i), pos2[i] - FieldFrom(pos2, l, kw, i))
        BY DEF CutInto
      <3>1. CASE i = j + 1
        BY <1>3, <1>5, <2>1, <2>2, <2>3, <3>1
      <3>2. CASE i # j + 1
        <4>1. i \in 1 .. j
          BY <1>3, <3>2
        <4> QED
          BY <2>1, <2>2, <2>5, <4>1 DEF CutInto
      <3> QED
        BY <3>1, <3>2
    <2>7. Past(pos2, l, kw, j + 1) + 0 = i0 + Len(lim) /\ i0 + Len(lim) \in kw .. n
      <3>1. i0 \in Int /\ x <= i0 /\ i0 + Len(lim) <= Len(s) /\ Len(s) <= n /\ Len(lim) \in Nat
        BY <1>4, <2>3, IsWithin DEF FirstAt, IsText
      <3>2. Past(pos2, l, kw, j + 1) = i0 + Len(lim)
        BY <1>3, <2>1 DEF Past
      <3> QED
        BY <1>2, <1>3, <3>1, <3>2
    <2>8. At2(r, b, i0 + Len(lim), n - (i0 + Len(lim)))
      <3>1. n - i0 - Len(lim) = n - (i0 + Len(lim))
        BY <1>3, <1>4, <2>3 DEF FirstAt
      <3> QED
        BY <2>3, <3>1
    <2>9. d.err = FALSE
      BY DEF CutSoFar
    <2> HIDE DEF lim
    <2>10. Stands(r, b, i0 + Len(lim), n, kw)
      BY <2>8, NamedStands
    <2> QED
      BY <2>3, <2>6, <2>7, <2>9, <2>10 DEF CutSoFar
  <1> QED
    BY <1>7, <1>8, <1>9 DEF Splits, r

\* A fixed text after a delimiter is skipped, if there is room for it.
LEMMA SkipIs ==
    ASSUME NEW S, NEW s \in Seq(S), NEW n, NEW m, NEW kw \in Nat, IsText(m, s, n, kw),
           NEW l, NEW k, IsLayout(l, k), NEW j \in 1 .. k, l[j].skip > 0, NEW d, IsDivision(d),
           NEW of, Named(of), CutSoFar(d, s, n, kw, l, j, 0, of), \A i \in 1 .. j : l[i].n # of
    PROVE  LET r == Divide(d, m, Skip(of, l[j].skip)) IN
           /\ IsDivision(r)
           /\ \/ CutSoFar(r, s, n, kw, l, j, SkipAt(l, j), of)
              \/ r.err = TRUE /\ ~CanDivide(s, kw, l, k)
  <1> DEFINE amount == l[j].skip
             r == Divide(d, m, Skip(of, amount))
  <1>1. PICK pos : LET x == Past(pos, l, kw, j) + 0 IN
                   /\ CutInto(d, s, kw, l, j, pos)
                   /\ x \in kw .. n
                   /\ Stands(d, of, x, n, kw)
    BY DEF CutSoFar
  <1> DEFINE x == Past(pos, l, kw, j)
  <1>2. j \in 1 .. j /\ k \in Nat /\ j \in Nat /\ n \in Nat /\ amount \in Nat /\ Len(l[j].d) \in Nat /\ Len(s) <= n
    BY DEF IsLayout, IsText
  <1>3. x \in Int
    BY <1>1, <1>2 DEF CutInto, FirstAt, Past
  <1>4. CutInto(d, s, kw, l, j, pos) /\ x \in kw .. n /\ At2(d, of, x, n - x)
    <2>1. x + 0 = x
      BY <1>3
    <2> HIDE DEF x
    <2>2. Stands(d, of, x, n, kw)
      BY <1>1, <2>1 DEF x
    <2> QED
      BY <1>1, <2>1, <2>2, NamedStands DEF x
  <1>5. r = IF x + amount < n THEN SetChunk(d, of, x + amount, n - x - amount) ELSE Failed(d)
    <2>1. Skip(of, amount).do = "skip" /\ Skip(of, amount).of = of /\ Skip(of, amount).amount = amount
      BY DEF Skip
    <2>2. r = ChunkRedLeft(d, m, of, amount)
      BY <2>1 DEF Divide
    <2>3. Chunk(d, of)[1] = x /\ Chunk(d, of)[2] = n - x /\ m.len = n
      BY <1>4, ChunkAt DEF IsText
    <2> HIDE DEF x, r, amount
    <2> QED
      BY <2>2, <2>3 DEF ChunkRedLeft
  <1>6. x + amount = Past(pos, l, kw, j) + SkipAt(l, j)
    BY <1>2 DEF SkipAt
  <1> HIDE DEF x, r, amount
  <1>7. CASE x + amount < n
    <2>1. r = SetChunk(d, of, x + amount, n - x - amount)
      BY <1>5, <1>7
    <2>2. /\ IsDivision(r) /\ At2(r, of, x + amount, n - x - amount) /\ r.err = d.err
          /\ Keeps2(d, r, {of})
      BY <2>1, ChunkSet
    <2>3. CutInto(r, s, kw, l, j, pos)
      BY <1>4, <2>2, CutStays
    <2>4. n - x - amount = n - (x + amount) /\ x + amount \in kw .. n
      BY <1>2, <1>3, <1>4, <1>7
    <2>5. d.err = FALSE
      BY DEF CutSoFar
    <2>a. Stands(r, of, x + amount, n, kw)
      BY <2>2, <2>4, NamedStands
    <2>6. CutSoFar(r, s, n, kw, l, j, SkipAt(l, j), of)
      BY <2>a, <1>6, <2>2, <2>3, <2>4, <2>5 DEF CutSoFar
    <2> QED
      BY <2>2, <2>6 DEF r, amount
  <1>8. CASE ~(x + amount < n)
    <2>1. r = Failed(d) /\ x + amount >= n
      BY <1>2, <1>3, <1>5, <1>8
    <2>2. j < k => NoneFrom(s, l[j + 1].d, x + amount)
      <3> SUFFICES ASSUME j < k, NEW h \in Int, x + amount <= h, Is(s, l[j + 1].d, h) PROVE FALSE
        BY DEF NoneFrom
      <3>1. j + 1 \in 1 .. k
        BY <1>2
      <3>2. l[j + 1].d \in Seq(LimLetters) /\ Len(l[j + 1].d) >= 1 /\ Len(l[j + 1].d) \in Nat
        BY <3>1 DEF IsLayout
      <3>3. h + Len(l[j + 1].d) <= Len(s)
        BY <3>2, IsWithin
      <3> QED
        BY <1>2, <1>3, <2>1, <3>2, <3>3
    <2>3. Len(s) <= x + amount /\ l[j].skip > 0 /\ j # 0
      BY <1>2, <1>3, <2>1
    <2>4. j \in 0 .. k
      BY <1>2
    <2>5. ~CanDivide(s, kw, l, k)
      BY <1>4, <1>6, <2>2, <2>3, <2>4, NoneLeft
    <2> QED
      BY <2>1, <2>5, FailedIs DEF r, amount
  <1> QED
    BY <1>7, <1>8
-----------------------------------------------------------------------------
(* Message: the whole division of a message without fixed texts at its end *)

\* After some steps: j fields are divided off, or the message cannot be divided.
Cuts(r, s, n, kw, l, j, z, of, k) ==
    /\ IsDivision(r)
    /\ \/ CutSoFar(r, s, n, kw, l, j, z, of)
       \/ r.err = TRUE /\ ~CanDivide(s, kw, l, k)

LEMMA CutNothing ==
    ASSUME NEW d, IsDivision(d), d.err = FALSE, NEW s, NEW n \in Nat, NEW kw \in 0 .. n, NEW l, NEW k
    PROVE  Cuts(d, s, n, kw, l, 0, SkipAt(l, 0), Nameless, k)
  <1> DEFINE pos == <<>>
  <1>1. CutInto(d, s, kw, l, 0, pos)
    BY DEF CutInto
  <1>2. Past(pos, l, kw, 0) + SkipAt(l, 0) = kw /\ kw \in kw .. n
    BY DEF Past, SkipAt
  <1> HIDE DEF pos
  <1>3. Stands(d, Nameless, Past(pos, l, kw, 0) + SkipAt(l, 0), n, kw)
    <2> DEFINE x == Past(pos, l, kw, 0) + SkipAt(l, 0)
    <2>1. x = kw
      BY <1>2
    <2> HIDE DEF x
    <2>2. Stands(d, Nameless, x, n, kw)
      BY <2>1, WholeStands
    <2> QED
      BY <2>2 DEF x
  <1>4. CutSoFar(d, s, n, kw, l, 0, SkipAt(l, 0), Nameless)
    BY <1>1, <1>2, <1>3 DEF CutSoFar
  <1> QED
    BY <1>4 DEF Cuts

LEMMA NextField ==
    ASSUME NEW S, NEW s \in Seq(S), NEW n, NEW m, NEW kw \in Nat, IsText(m, s, n, kw),
           NEW l, NEW k, IsLayout(l, k), NEW j \in 0 .. k, j < k, NEW d,
           NEW of, Cuts(d, s, n, kw, l, j, SkipAt(l, j), of, k),
           NEW b, Named(b), \A i \in 1 .. j + 1 : l[i].n # b
    PROVE  Cuts(Divide(d, m, Split(of, l[j + 1].d, l[j + 1].n, b)), s, n, kw, l, j + 1, 0, b, k)
  <1> DEFINE step == Split(of, l[j + 1].d, l[j + 1].n, b)
             r == Divide(d, m, step)
  <1>1. IsDivision(d)
    BY DEF Cuts
  <1>2. CASE CutSoFar(d, s, n, kw, l, j, SkipAt(l, j), of)
    BY <1>1, <1>2, OneFieldMore DEF Cuts
  <1>3. CASE d.err = TRUE /\ ~CanDivide(s, kw, l, k)
    <2> HIDE DEF step
    <2>1. IsDivision(r) /\ r.err = TRUE
      BY <1>1, <1>3, ErrorStays
    <2> QED
      BY <1>3, <2>1 DEF Cuts, step
  <1> QED
    BY <1>2, <1>3 DEF Cuts

LEMMA NextSkip ==
    ASSUME NEW S, NEW s \in Seq(S), NEW n, NEW m, NEW kw \in Nat, IsText(m, s, n, kw),
           NEW l, NEW k, IsLayout(l, k), NEW j \in 1 .. k, l[j].skip > 0, NEW d,
           NEW of, Named(of), Cuts(d, s, n, kw, l, j, 0, of, k), \A i \in 1 .. j : l[i].n # of
    PROVE  Cuts(Divide(d, m, Skip(of, l[j].skip)), s, n, kw, l, j, SkipAt(l, j), of, k)
  <1> DEFINE step == Skip(of, l[j].skip)
             r == Divide(d, m, step)
  <1>1. IsDivision(d)
    BY DEF Cuts
  <1>2. CASE CutSoFar(d, s, n, kw, l, j, 0, of)
    BY <1>1, <1>2, SkipIs DEF Cuts
  <1>3. CASE d.err = TRUE /\ ~CanDivide(s, kw, l, k)
    <2> HIDE DEF step
    <2>1. IsDivision(r) /\ r.err = TRUE
      BY <1>1, <1>3, ErrorStays
    <2> QED
      BY <1>3, <2>1 DEF Cuts, step
  <1> QED
    BY <1>2, <1>3 DEF Cuts

\* Each field that was divided off is text of the message, up to its delimiter.
LEMMA CutTiles ==
    ASSUME NEW S, mStr \in Seq(S), mKWSize \in 0 .. Len(mStr), NEW l, NEW k, IsLayout(l, k),
           NEW d, d.ch = chunk, NEW pos, CutInto(d, mStr, mKWSize, l, k, pos)
    PROVE  \A i \in 1 .. k :
              /\ Valid(chunk[l[i].n]) /\ chunk[l[i].n][1] = FieldFrom(pos, l, mKWSize, i)
              /\ EndOf(l[i].n) = pos[i] /\ pos[i] \in Nat /\ pos[i] + Len(l[i].d) <= Len(mStr)
              /\ Is(mStr, l[i].d, EndOf(l[i].n))
              /\ \A j \in chunk[l[i].n][1] .. (EndOf(l[i].n) - 1) : ~Is(mStr, l[i].d, j)
  <1> DEFINE from(i) == FieldFrom(pos, l, mKWSize, i)
  <1>1. k \in Nat /\ Len(mStr) \in Nat /\ mKWSize \in Nat
    BY DEF IsLayout
  <1>2. ASSUME NEW i \in 1 .. k
        PROVE  /\ FirstAt(mStr, l[i].d, from(i), pos[i])
               /\ chunk[l[i].n][1] = from(i) /\ chunk[l[i].n][2] = pos[i] - from(i)
               /\ Len(l[i].d) \in Nat /\ l[i].skip \in Nat
               /\ pos[i] \in Int /\ from(i) <= pos[i] /\ pos[i] >= 0 /\ pos[i] + Len(l[i].d) <= Len(mStr)
    <2>1. FirstAt(mStr, l[i].d, from(i), pos[i]) /\ At2(d, l[i].n, from(i), pos[i] - from(i))
      BY DEF CutInto
    <2>2. l[i].d \in Seq(LimLetters) /\ Len(l[i].d) \in Nat /\ l[i].skip \in Nat
      BY DEF IsLayout
    <2> HIDE DEF from
    <2>3. pos[i] \in Int /\ from(i) <= pos[i] /\ Is(mStr, l[i].d, pos[i])
      BY <2>1 DEF FirstAt
    <2>4. pos[i] >= 0 /\ pos[i] + Len(l[i].d) <= Len(mStr)
      BY <2>2, <2>3, IsWithin
    <2> QED
      BY <2>1, <2>2, <2>3, <2>4 DEF At2
  <1>3. ASSUME NEW i \in 1 .. k PROVE from(i) \in Int /\ from(i) >= 0
    <2>1. CASE i = 1
      BY <1>1, <2>1 DEF FieldFrom
    <2>2. CASE i # 1
      <3>1. i - 1 \in 1 .. k
        BY <1>1, <2>2
      <3> DEFINE px == pos[i - 1]
                 pu == Len(l[i - 1].d)
                 pv == l[i - 1].skip
      <3>2. px \in Int /\ px >= 0 /\ pu \in Nat /\ pv \in Nat
        BY <1>2, <3>1
      <3>3. from(i) = px + pu + pv
        BY <2>2 DEF FieldFrom
      <3> HIDE DEF px, pu, pv, from
      <3> QED
        BY <3>2, <3>3
    <2> QED
      BY <2>1, <2>2
  <1>4. \A i \in 1 .. k : chunk[l[i].n][1] \in Int /\ EndOf(l[i].n) = pos[i]
    <2> SUFFICES ASSUME NEW i \in 1 .. k PROVE chunk[l[i].n][1] \in Int /\ EndOf(l[i].n) = pos[i]
      OBVIOUS
    <2> DEFINE a == from(i)
               b == pos[i]
               c == chunk[l[i].n]
    <2>1. a \in Int /\ b \in Int /\ c[1] = a /\ c[2] = b - a
      BY <1>2, <1>3
    <2> HIDE DEF a, b, c
    <2>2. c[1] + c[2] = b /\ c[1] \in Int
      BY <2>1
    <2> QED
      BY <2>2 DEF EndOf, b, c
  <1> HIDE DEF from
  <1>6. \A i \in 1 .. k : Valid(chunk[l[i].n])
    <2> SUFFICES ASSUME NEW i \in 1 .. k PROVE Valid(chunk[l[i].n])
      OBVIOUS
    <2> DEFINE a == from(i)
               b == pos[i]
               u == Len(l[i].d)
               c == chunk[l[i].n]
    <2>1. /\ a \in Int /\ b \in Int /\ c[1] = a /\ c[2] = b - a /\ a >= 0 /\ a <= b /\ u \in Nat
          /\ b + u <= Len(mStr)
      BY <1>2, <1>3
    <2> HIDE DEF a, b, c, u
    <2>2. c[1] >= 0 /\ c[2] >= 0 /\ c[1] <= Len(mStr) /\ c[2] <= Len(mStr)
      BY <1>1, <2>1
    <2>3. Valid(c)
      BY <2>2 DEF Valid
    <2> QED
      BY <2>3 DEF c
  <1>11. ASSUME NEW i \in 1 .. k
         PROVE  /\ Is(mStr, l[i].d, EndOf(l[i].n))
                /\ \A j \in chunk[l[i].n][1] .. (EndOf(l[i].n) - 1) : ~Is(mStr, l[i].d, j)
    <2> DEFINE a == from(i)
               b == pos[i]
               lim == l[i].d
    <2>1. FirstAt(mStr, lim, a, b) /\ chunk[l[i].n][1] = a /\ EndOf(l[i].n) = b
      BY <1>2, <1>4
    <2> HIDE DEF a, b, lim
    <2>2. Is(mStr, lim, b) /\ \A j \in a .. (b - 1) : ~Is(mStr, lim, j)
      <3>1. b \in Int
        BY <2>1 DEF FirstAt
      <3>2. a \in Int
        BY <1>3 DEF a
      <3> QED
        BY <2>1, <3>1, <3>2 DEF FirstAt
    <2> QED
      BY <2>1, <2>2 DEF lim
  <1>12. \A i \in 1 .. k : chunk[l[i].n][1] = from(i) /\ pos[i] \in Nat /\ pos[i] + Len(l[i].d) <= Len(mStr)
    BY <1>2
  <1> QED
    BY <1>4, <1>6, <1>11, <1>12 DEF from

\* Fields that have been divided off at their delimiters tile the message.
LEMMA TilesAre ==
    ASSUME NEW S, mStr \in Seq(S), mKWSize \in 0 .. Len(mStr), NEW l, NEW k, IsLayout(l, k),
           Len(l) = k + 1, NEW d, d.ch = chunk, NEW pos, CutInto(d, mStr, mKWSize, l, k, pos),
           NEW x, x = Past(pos, l, mKWSize, k) + SkipAt(l, k), x \in mKWSize .. Len(mStr),
           At2(d, l[k + 1].n, x, Len(mStr) - x - TailOf(mType))
    PROVE  /\ Tiled(l)
           /\ \A i \in 1 .. k : Valid(chunk[l[i].n])
           /\ TailOf(mType) = 0 => Valid(chunk[l[k + 1].n])
  <1> DEFINE from(i) == FieldFrom(pos, l, mKWSize, i)
             tail == TailOf(mType)
  <1>1. k \in Nat /\ Len(mStr) \in Nat /\ mKWSize \in Nat /\ x \in Nat /\ tail \in {0, 1}
    BY DEF IsLayout, TailOf
  <1>2. \A i \in 1 .. k : chunk[l[i].n][1] = from(i) /\ EndOf(l[i].n) = pos[i] /\ Valid(chunk[l[i].n])
    BY CutTiles
  <1>5. chunk[l[k + 1].n][1] = x /\ chunk[l[k + 1].n][2] = Len(mStr) - x - tail
    BY DEF At2
  <1> HIDE DEF from, tail
  <1>6. \A i \in 1 .. k : Valid(chunk[l[i].n])
    BY <1>2
  <1>7. tail = 0 => Valid(chunk[l[k + 1].n])
    <2> DEFINE c == chunk[l[k + 1].n]
    <2>1. c[1] = x /\ c[2] = Len(mStr) - x - tail
      BY <1>5
    <2> HIDE DEF c
    <2>2. tail = 0 => c[1] >= 0 /\ c[2] >= 0 /\ c[1] <= Len(mStr) /\ c[2] <= Len(mStr)
      BY <1>1, <2>1
    <2>3. tail = 0 => Valid(c)
      BY <2>2 DEF Valid
    <2> QED
      BY <2>3 DEF c
  <1>8. EndOf(Last(l).n) + tail = Len(mStr)
    <2>1. Last(l) = l[k + 1]
      BY DEF Last
    <2>2. x + (Len(mStr) - x - tail) + tail = Len(mStr)
      BY <1>1
    <2> QED
      BY <1>5, <2>1, <2>2 DEF EndOf
  <1>9. \A i \in 1 .. k : chunk[l[i + 1].n][1] = EndOf(l[i].n) + Len(l[i].d) + l[i].skip
    <2> SUFFICES ASSUME NEW i \in 1 .. k
                 PROVE  chunk[l[i + 1].n][1] = pos[i] + Len(l[i].d) + l[i].skip
      BY <1>2
    <2>1. CASE i = k
      BY <1>1, <1>5, <2>1 DEF Past, SkipAt
    <2>2. CASE i # k
      <3>1. i + 1 \in 1 .. k /\ i + 1 # 1 /\ i + 1 - 1 = i
        BY <1>1, <2>2
      <3>2. chunk[l[i + 1].n][1] = from(i + 1)
        BY <1>2, <3>1
      <3>3. from(i + 1) = pos[i] + Len(l[i].d) + l[i].skip
        BY <3>1 DEF FieldFrom, from
      <3> QED
        BY <3>2, <3>3
    <2> QED
      BY <2>1, <2>2
  <1>10. chunk[l[1].n][1] = mKWSize
    <2>1. CASE k = 0
      BY <1>1, <1>5, <2>1 DEF Past, SkipAt
    <2>2. CASE k # 0
      <3>1. 1 \in 1 .. k
        BY <1>1, <2>2
      <3> QED
        BY <1>2, <3>1 DEF FieldFrom, from
    <2> QED
      BY <2>1, <2>2
  <1>11. ASSUME NEW i \in 1 .. k
         PROVE  /\ Is(mStr, l[i].d, EndOf(l[i].n))
                /\ \A j \in chunk[l[i].n][1] .. (EndOf(l[i].n) - 1) : ~Is(mStr, l[i].d, j)
    BY CutTiles
  <1>12. Len(l) - 1 = k
    BY <1>1
  <1>13. Tiled(l)
    BY <1>8, <1>9, <1>10, <1>11, <1>12 DEF Tiled, tail
  <1> QED
    BY <1>6, <1>7, <1>13 DEF tail
-----------------------------------------------------------------------------
(* Message: the divisions at one, at two and at three places *)

IsMark(lim) == lim \in Seq(LimLetters) /\ Len(lim) >= 1
Apart(names) == \A i, j \in DOMAIN names : names[i] = names[j] => i = j

\* What a division says of the whole message, all of whose fields it knows.
Whole(r, s, n, kw, l, k) ==
    /\ IsDivision(r)
    /\ r.err = TRUE => ~CanDivide(s, kw, l, k)
    /\ r.err = FALSE => CutSoFar(r, s, n, kw, l, k, SkipAt(l, k), l[k + 1].n)

LEMMA CutsWhole ==
    ASSUME NEW r, NEW s, NEW n, NEW kw, NEW l, NEW k, Cuts(r, s, n, kw, l, k, SkipAt(l, k), l[k + 1].n, k)
    PROVE  Whole(r, s, n, kw, l, k)
  BY DEF Cuts, Whole, CutSoFar

LEMMA FieldIs ==
    ASSUME NEW a, NEW x
    PROVE  Field(a, x).n = a /\ Field(a, x).d = x /\ Field(a, x).skip = 0
  BY DEF Field

LEMMA OneSplit ==
    ASSUME NEW S, NEW s \in Seq(S), NEW n, NEW m, NEW kw \in Nat, IsText(m, s, n, kw), kw <= n,
           NEW d, IsDivision(d), d.err = FALSE,
           NEW x, IsMark(x), NEW a, NEW b, Named(b), a # b
    PROVE  LET l == <<Field(a, x), Field(b, <<>>)>> IN
           /\ IsLayout(l, 1) /\ Len(l) = 2
           /\ Whole(DivideBy(<<Start(x, a, b)>>, m, d), s, n, kw, l, 1)
  <1> DEFINE l == <<Field(a, x), Field(b, <<>>)>>
             q == <<Start(x, a, b)>>
  <1>1. Len(l) = 2 /\ l[1].n = a /\ l[1].d = x /\ l[1].skip = 0 /\ l[2].n = b
    BY FieldIs
  <1>2. Len(q) = 1 /\ q[1] = Split(Nameless, x, a, b)
    BY StartIs
  <1> HIDE DEF l, q
  <1>3. IsLayout(l, 1)
    <2>1. \A i \in 1 .. 1 : i = 1
      OBVIOUS
    <2> QED
      BY <1>1, <2>1 DEF IsLayout, IsMark
  <1>5. DivideBy(q, m, d) = Divide(d, m, Split(Nameless, x, a, b))
    <2>1. 1 \in 0 .. 7 /\ 0 \in 0 .. 1 - 1
      OBVIOUS
    <2>2. PICK g : /\ g[0] = d /\ DivideBy(q, m, d) = g[1]
                   /\ \A i \in 0 .. 1 - 1 : g[i + 1] = Divide(g[i], m, q[i + 1])
      BY <1>2, <2>1, ChainOf
    <2>3. g[0 + 1] = Divide(g[0], m, q[0 + 1])
      BY <2>1, <2>2
    <2> QED
      BY <1>2, <2>2, <2>3
  <1>6. n \in Nat /\ kw \in 0 .. n
    BY DEF IsText
  <1>7. Cuts(d, s, n, kw, l, 0, SkipAt(l, 0), Nameless, 1)
    BY <1>6, CutNothing
  <1>8. Cuts(Divide(d, m, Split(Nameless, x, a, b)), s, n, kw, l, 1, 0, b, 1)
    <2>1. 0 \in 0 .. 1 /\ 0 + 1 = 1 /\ 0 < 1 /\ \A i \in 1 .. 1 : l[i].n # b
      BY <1>1
    <2>2. Cuts(Divide(d, m, Split(Nameless, l[0 + 1].d, l[0 + 1].n, b)), s, n, kw, l, 0 + 1, 0, b, 1)
      BY <1>3, <1>7, <2>1, NextField
    <2> QED
      BY <1>1, <2>1, <2>2
  <1>9. SkipAt(l, 1) = 0 /\ 1 + 1 = 2
    BY <1>1 DEF SkipAt
  <1>10. Whole(DivideBy(q, m, d), s, n, kw, l, 1)
    BY <1>1, <1>5, <1>8, <1>9, CutsWhole
  <1> QED
    BY <1>1, <1>3, <1>10 DEF l, q

LEMMA TwoSplits ==
    ASSUME NEW S, NEW s \in Seq(S), NEW n, NEW m, NEW kw \in Nat, IsText(m, s, n, kw), kw <= n,
           NEW d, IsDivision(d), d.err = FALSE,
           NEW x, IsMark(x), NEW y, IsMark(y), NEW a, NEW b, NEW c, NEW b0,
           Named(b0), Named(c), a # b, a # c, b # c, a # b0
    PROVE  LET l == <<Field(a, x), Field(b, y), Field(c, <<>>)>> IN
           /\ IsLayout(l, 2) /\ Len(l) = 3
           /\ Whole(DivideBy(<<Start(x, a, b0), Split(b0, y, b, c)>>, m, d), s, n, kw, l, 2)
  <1> DEFINE l == <<Field(a, x), Field(b, y), Field(c, <<>>)>>
             q == <<Start(x, a, b0), Split(b0, y, b, c)>>
  <1>1. /\ Len(l) = 3 /\ l[1].n = a /\ l[1].d = x /\ l[1].skip = 0
        /\ l[2].n = b /\ l[2].d = y /\ l[2].skip = 0 /\ l[3].n = c
    BY FieldIs
  <1>2. Len(q) = 2 /\ q[1] = Split(Nameless, x, a, b0) /\ q[2] = Split(b0, y, b, c)
    BY StartIs
  <1> HIDE DEF l, q
  <1>3. IsLayout(l, 2)
    <2>1. \A i \in 1 .. 2 : i = 1 \/ i = 2
      OBVIOUS
    <2> QED
      BY <1>1, <2>1 DEF IsLayout, IsMark
  <1>4. PICK g : /\ g[0] = d /\ DivideBy(q, m, d) = g[2]
                 /\ \A i \in 0 .. 2 - 1 : g[i + 1] = Divide(g[i], m, q[i + 1])
    <2>1. 2 \in 0 .. 7
      OBVIOUS
    <2> QED
      BY <1>2, <2>1, ChainOf
  <1>5. n \in Nat /\ kw \in 0 .. n
    BY DEF IsText
  <1>6. Cuts(d, s, n, kw, l, 0, SkipAt(l, 0), Nameless, 2)
    BY <1>5, CutNothing
  <1>7. Cuts(g[1], s, n, kw, l, 1, 0, b0, 2)
    <2>1. 0 \in 0 .. 2 /\ 0 \in 0 .. 2 - 1 /\ 0 + 1 = 1 /\ 0 < 2 /\ \A i \in 1 .. 1 : l[i].n # b0
      BY <1>1
    <2>2. Cuts(Divide(d, m, Split(Nameless, l[0 + 1].d, l[0 + 1].n, b0)), s, n, kw, l, 0 + 1, 0, b0, 2)
      BY <1>3, <1>6, <2>1, NextField
    <2> QED
      BY <1>1, <1>2, <1>4, <2>1, <2>2
  <1>8. Cuts(g[2], s, n, kw, l, 2, 0, c, 2)
    <2>1. 1 \in 0 .. 2 /\ 1 \in 0 .. 2 - 1 /\ 1 + 1 = 2 /\ 1 < 2 /\ \A i \in 1 .. 2 : l[i].n # c
      <3>1. \A i \in 1 .. 2 : i = 1 \/ i = 2
        OBVIOUS
      <3> QED
        BY <1>1, <3>1
    <2>2. SkipAt(l, 1) = 0
      BY <1>1 DEF SkipAt
    <2>3. Cuts(Divide(g[1], m, Split(b0, l[1 + 1].d, l[1 + 1].n, c)), s, n, kw, l, 1 + 1, 0, c, 2)
      BY <1>3, <1>7, <2>1, <2>2, NextField
    <2> QED
      BY <1>1, <1>2, <1>4, <2>1, <2>3
  <1>9. SkipAt(l, 2) = 0 /\ 2 + 1 = 3
    BY <1>1 DEF SkipAt
  <1>10. Whole(DivideBy(q, m, d), s, n, kw, l, 2)
    BY <1>1, <1>4, <1>8, <1>9, CutsWhole
  <1> QED
    BY <1>1, <1>3, <1>10 DEF l, q

LEMMA ThreeSplits ==
    ASSUME NEW S, NEW s \in Seq(S), NEW n, NEW m, NEW kw \in Nat, IsText(m, s, n, kw), kw <= n,
           NEW d, IsDivision(d), d.err = FALSE,
           NEW x, IsMark(x), NEW y, IsMark(y), NEW z, IsMark(z),
           NEW a, NEW b, NEW c, NEW e, NEW b0, NEW c0,
           Named(b0), Named(c0), Named(e), a # b, a # c, a # e, b # c, b # e, c # e,
           a # b0, a # c0, b # c0
    PROVE  LET l == <<Field(a, x), Field(b, y), Field(c, z), Field(e, <<>>)>>
               q == <<Start(x, a, b0), Split(b0, y, b, c0), Split(c0, z, c, e)>>
           IN IsLayout(l, 3) /\ Len(l) = 4 /\ Whole(DivideBy(q, m, d), s, n, kw, l, 3)
  <1> DEFINE l == <<Field(a, x), Field(b, y), Field(c, z), Field(e, <<>>)>>
             q == <<Start(x, a, b0), Split(b0, y, b, c0), Split(c0, z, c, e)>>
  <1>1. /\ Len(l) = 4 /\ l[1].n = a /\ l[1].d = x /\ l[1].skip = 0
        /\ l[2].n = b /\ l[2].d = y /\ l[2].skip = 0
        /\ l[3].n = c /\ l[3].d = z /\ l[3].skip = 0 /\ l[4].n = e
    BY FieldIs
  <1>2. Len(q) = 3 /\ q[1] = Split(Nameless, x, a, b0) /\ q[2] = Split(b0, y, b, c0) /\ q[3] = Split(c0, z, c, e)
    BY StartIs
  <1> HIDE DEF l, q
  <1>n. (\A i \in 1 .. 2 : i = 1 \/ i = 2) /\ \A i \in 1 .. 3 : i = 1 \/ i = 2 \/ i = 3
    OBVIOUS
  <1>3. IsLayout(l, 3)
    BY <1>1, <1>n DEF IsLayout, IsMark
  <1>4. PICK g : /\ g[0] = d /\ DivideBy(q, m, d) = g[3]
                 /\ \A i \in 0 .. 3 - 1 : g[i + 1] = Divide(g[i], m, q[i + 1])
    <2>1. 3 \in 0 .. 7
      OBVIOUS
    <2> QED
      BY <1>2, <2>1, ChainOf
  <1>5. n \in Nat /\ kw \in 0 .. n
    BY DEF IsText
  <1>6. Cuts(d, s, n, kw, l, 0, SkipAt(l, 0), Nameless, 3)
    BY <1>5, CutNothing
  <1>7. Cuts(g[1], s, n, kw, l, 1, 0, b0, 3)
    <2>1. 0 \in 0 .. 3 /\ 0 \in 0 .. 3 - 1 /\ 0 + 1 = 1 /\ 0 < 3 /\ \A i \in 1 .. 1 : l[i].n # b0
      BY <1>1
    <2>2. Cuts(Divide(d, m, Split(Nameless, l[0 + 1].d, l[0 + 1].n, b0)), s, n, kw, l, 0 + 1, 0, b0, 3)
      BY <1>3, <1>6, <2>1, NextField
    <2> QED
      BY <1>1, <1>2, <1>4, <2>1, <2>2
  <1>8. Cuts(g[2], s, n, kw, l, 2, 0, c0, 3)
    <2>1. 1 \in 0 .. 3 /\ 1 \in 0 .. 3 - 1 /\ 1 + 1 = 2 /\ 1 < 3 /\ \A i \in 1 .. 2 : l[i].n # c0
      BY <1>1, <1>n
    <2>2. SkipAt(l, 1) = 0
      BY <1>1 DEF SkipAt
    <2>3. Cuts(Divide(g[1], m, Split(b0, l[1 + 1].d, l[1 + 1].n, c0)), s, n, kw, l, 1 + 1, 0, c0, 3)
      BY <1>3, <1>7, <2>1, <2>2, NextField
    <2> QED
      BY <1>1, <1>2, <1>4, <2>1, <2>3
  <1>9. Cuts(g[3], s, n, kw, l, 3, 0, e, 3)
    <2>1. 2 \in 0 .. 3 /\ 2 \in 0 .. 3 - 1 /\ 2 + 1 = 3 /\ 2 < 3 /\ \A i \in 1 .. 3 : l[i].n # e
      BY <1>1, <1>n
    <2>2. SkipAt(l, 2) = 0
      BY <1>1 DEF SkipAt
    <2>3. Cuts(Divide(g[2], m, Split(c0, l[2 + 1].d, l[2 + 1].n, e)), s, n, kw, l, 2 + 1, 0, e, 3)
      BY <1>3, <1>8, <2>1, <2>2, NextField
    <2> QED
      BY <1>1, <1>2, <1>4, <2>1, <2>3
  <1>10. SkipAt(l, 3) = 0 /\ 3 + 1 = 4
    BY <1>1 DEF SkipAt
  <1>11. Whole(DivideBy(q, m, d), s, n, kw, l, 3)
    BY <1>1, <1>4, <1>9, <1>10, CutsWhole
  <1> QED
    BY <1>1, <1>3, <1>11 DEF l, q

-----------------------------------------------------------------------------
(* Message: the divisions with fixed texts *)

LEMMA TheyAreNamed ==
    /\ Named("nick") /\ Named("active") /\ Named("port") /\ Named("other") /\ Named("query")
    /\ Named("pattern") /\ Named("addr") /\ Named("info") /\ Named("speed") /\ Named("mail")
    /\ Named("size") /\ Named("pars") /\ Named("vers") /\ Named("from") /\ Named("said")
    /\ Named("text") /\ Named("dest") /\ Named("reason") /\ Named("time") /\ Named("data")
    /\ Named("path")
  BY Zenon DEF Named, Nameless

LEMMA MarksAre ==
    /\ IsMark(Blank) /\ IsMark(Dollar) /\ IsMark(Colon) /\ IsMark(Mark) /\ IsMark(Five)
    /\ IsMark(From) /\ IsMark(OpensNick) /\ IsMark(ClosesNick)
  <1>1. {Space, "F", "$<", ">", "$", ":", "?", "5"} \subseteq LimLetters
    BY DEF LimLetters
  <1>2. \A c \in LimLetters : IsMark(<<c>>)
    BY DEF IsMark
  <1>3. \A c, e \in LimLetters : IsMark(<<c, e>>)
    BY DEF IsMark
  <1> QED
    BY <1>1, <1>2, <1>3 DEF Blank, Dollar, Colon, Mark, Five, From, OpensNick, ClosesNick

LEMMA SkippedField ==
    ASSUME NEW a, NEW x, NEW z
    PROVE  LET f == [Field(a, x) EXCEPT !.skip = z] IN f.n = a /\ f.d = x /\ f.skip = z
  BY DEF Field

LEMMA ForcedMove ==
    ASSUME NEW S, NEW s \in Seq(S), NEW n, NEW m, NEW kw \in Nat, IsText(m, s, n, kw), kw <= n,
           NEW d, IsDivision(d), d.err = FALSE
    PROVE  LET l == Layout("OpForceMove") IN
           /\ IsLayout(l, 2) /\ Len(l) = 3
           /\ Whole(DivideBy(Steps("OpForceMove"), m, d), s, n, kw, l, 2)
  <1> DEFINE l == Layout("OpForceMove")
             q == Steps("OpForceMove")
  <1>1. /\ Len(l) = 3 /\ l[1].n = "nick" /\ l[1].d = Dollar /\ l[1].skip = 2
        /\ l[2].n = "dest" /\ l[2].d = Dollar /\ l[2].skip = 1 /\ l[3].n = "reason"
    <2>1. l = <<[Field("nick", Dollar) EXCEPT !.skip = 2], [Field("dest", Dollar) EXCEPT !.skip = 1],
                Field("reason", <<>>)>>
      BY DEF Layout, WhereSize, MsgSize
    <2> DEFINE f1 == [Field("nick", Dollar) EXCEPT !.skip = 2]
               f2 == [Field("dest", Dollar) EXCEPT !.skip = 1]
               f3 == Field("reason", <<>>)
    <2>2. f1.n = "nick" /\ f1.d = Dollar /\ f1.skip = 2
      BY SkippedField
    <2>3. f2.n = "dest" /\ f2.d = Dollar /\ f2.skip = 1
      BY SkippedField
    <2>4. f3.n = "reason"
      BY FieldIs
    <2>5. l = <<f1, f2, f3>>
      BY <2>1
    <2> HIDE DEF l, f1, f2, f3
    <2> QED
      BY <2>2, <2>3, <2>4, <2>5
  <1>2. /\ Len(q) = 4 /\ q[1] = Split(Nameless, Dollar, "nick", "dest") /\ q[2] = Skip("dest", 2)
        /\ q[3] = Split("dest", Dollar, "dest", "reason") /\ q[4] = Skip("reason", 1)
    <2>1. q = <<Start(Dollar, "nick", "dest"), Skip("dest", 2), Split("dest", Dollar, "dest", "reason"),
                Skip("reason", 1)>>
      BY DEF Steps, OpForceMoveSteps, WhereSize, MsgSize
    <2> HIDE DEF q
    <2> QED
      BY <2>1, StartIs
  <1> HIDE DEF l, q
  <1>n. \A i \in 1 .. 2 : i = 1 \/ i = 2
    OBVIOUS
  <1>3. IsLayout(l, 2)
    BY <1>1, <1>n, MarksAre DEF IsLayout, IsMark
  <1>4. PICK g : /\ g[0] = d /\ DivideBy(q, m, d) = g[4]
                 /\ \A i \in 0 .. 4 - 1 : g[i + 1] = Divide(g[i], m, q[i + 1])
    <2>1. 4 \in 0 .. 7
      OBVIOUS
    <2> QED
      BY <1>2, <2>1, ChainOf
  <1>5. n \in Nat /\ kw \in 0 .. n
    BY DEF IsText
  <1>6. Cuts(d, s, n, kw, l, 0, SkipAt(l, 0), Nameless, 2)
    BY <1>5, CutNothing
  <1>7. Cuts(g[1], s, n, kw, l, 1, 0, "dest", 2)
    <2>1. 0 \in 0 .. 2 /\ 0 \in 0 .. 4 - 1 /\ 0 + 1 = 1 /\ 0 < 2 /\ \A i \in 1 .. 1 : l[i].n # "dest"
      BY <1>1
    <2>2. Cuts(Divide(d, m, Split(Nameless, l[0 + 1].d, l[0 + 1].n, "dest")), s, n, kw, l, 0 + 1, 0, "dest", 2)
      BY <1>3, <1>6, <2>1, NextField, TheyAreNamed
    <2> QED
      BY <1>1, <1>2, <1>4, <2>1, <2>2
  <1>8. Cuts(g[2], s, n, kw, l, 1, SkipAt(l, 1), "dest", 2)
    <2>1. 1 \in 1 .. 2 /\ 1 \in 0 .. 4 - 1 /\ 1 + 1 = 2 /\ l[1].skip > 0 /\ \A i \in 1 .. 1 : l[i].n # "dest"
      BY <1>1
    <2>2. Cuts(Divide(g[1], m, Skip("dest", l[1].skip)), s, n, kw, l, 1, SkipAt(l, 1), "dest", 2)
      BY <1>3, <1>7, <2>1, NextSkip, TheyAreNamed
    <2> QED
      BY <1>1, <1>2, <1>4, <2>1, <2>2
  <1>9. Cuts(g[3], s, n, kw, l, 2, 0, "reason", 2)
    <2>1. 1 \in 0 .. 2 /\ 2 \in 0 .. 4 - 1 /\ 1 + 1 = 2 /\ 2 + 1 = 3 /\ 1 < 2 /\ \A i \in 1 .. 2 : l[i].n # "reason"
      BY <1>1, <1>n
    <2>2. Cuts(Divide(g[2], m, Split("dest", l[1 + 1].d, l[1 + 1].n, "reason")), s, n, kw, l, 1 + 1, 0, "reason", 2)
      BY <1>3, <1>8, <2>1, NextField, TheyAreNamed
    <2> QED
      BY <1>1, <1>2, <1>4, <2>1, <2>2
  <1>10. Cuts(g[4], s, n, kw, l, 2, SkipAt(l, 2), "reason", 2)
    <2>1. 2 \in 1 .. 2 /\ 3 \in 0 .. 4 - 1 /\ 3 + 1 = 4 /\ l[2].skip > 0 /\ \A i \in 1 .. 2 : l[i].n # "reason"
      BY <1>1, <1>n
    <2>2. Cuts(Divide(g[3], m, Skip("reason", l[2].skip)), s, n, kw, l, 2, SkipAt(l, 2), "reason", 2)
      BY <1>3, <1>9, <2>1, NextSkip, TheyAreNamed
    <2> QED
      BY <1>1, <1>2, <1>4, <2>1, <2>2
  <1>11. Whole(DivideBy(q, m, d), s, n, kw, l, 2)
    <2>1. 2 + 1 = 3
      OBVIOUS
    <2> QED
      BY <1>1, <1>4, <1>10, <2>1, CutsWhole
  <1> QED
    BY <1>1, <1>3, <1>11 DEF l, q

\* The division of a $MyINFO, of which the last letter is no part of a field.
MyINFOCut(r, s, n, kw, l) ==
    /\ IsDivision(r)
    /\ \/ r.err = TRUE /\ ~CanDivide(s, kw, l, 5)
       \/ /\ r.err = FALSE
          /\ \E pos : LET x == Past(pos, l, kw, 5) IN
                      CutInto(r, s, kw, l, 5, pos) /\ x \in kw .. n /\ At2(r, "size", x, n - x - 1)

LEMMA MyINFOFields ==
    LET l == Layout("MyINFO") IN
    /\ IsLayout(l, 5) /\ Len(l) = 6
    /\ l[1].n = "dest" /\ l[1].d = Blank /\ l[1].skip = 0
    /\ l[2].n = "nick" /\ l[2].d = Blank /\ l[2].skip = 0
    /\ l[3].n = "desc" /\ l[3].d = Dollar /\ l[3].skip = 2
    /\ l[4].n = "speed" /\ l[4].d = Dollar /\ l[4].skip = 0
    /\ l[5].n = "mail" /\ l[5].d = Dollar /\ l[5].skip = 0 /\ l[6].n = "size"
  <1> DEFINE l == Layout("MyINFO")
  <1>1. l = <<Field("dest", Blank), Field("nick", Blank), [Field("desc", Dollar) EXCEPT !.skip = 2],
              Field("speed", Dollar), Field("mail", Dollar), Field("size", <<>>)>>
    BY DEF Layout
  <1> DEFINE f1 == Field("dest", Blank)
             f2 == Field("nick", Blank)
             f3 == [Field("desc", Dollar) EXCEPT !.skip = 2]
             f4 == Field("speed", Dollar)
             f5 == Field("mail", Dollar)
             f6 == Field("size", <<>>)
  <1>a. l = <<f1, f2, f3, f4, f5, f6>>
    BY <1>1
  <1>b. /\ f1.n = "dest" /\ f1.d = Blank /\ f1.skip = 0
        /\ f2.n = "nick" /\ f2.d = Blank /\ f2.skip = 0
        /\ f4.n = "speed" /\ f4.d = Dollar /\ f4.skip = 0
        /\ f5.n = "mail" /\ f5.d = Dollar /\ f5.skip = 0 /\ f6.n = "size"
    BY FieldIs
  <1>c. f3.n = "desc" /\ f3.d = Dollar /\ f3.skip = 2
    BY SkippedField
  <1> HIDE DEF l, f1, f2, f3, f4, f5, f6
  <1>2. /\ Len(l) = 6
        /\ l[1].n = "dest" /\ l[1].d = Blank /\ l[1].skip = 0
        /\ l[2].n = "nick" /\ l[2].d = Blank /\ l[2].skip = 0
        /\ l[3].n = "desc" /\ l[3].d = Dollar /\ l[3].skip = 2
        /\ l[4].n = "speed" /\ l[4].d = Dollar /\ l[4].skip = 0
        /\ l[5].n = "mail" /\ l[5].d = Dollar /\ l[5].skip = 0 /\ l[6].n = "size"
    BY <1>a, <1>b, <1>c
  <1>3. \A i \in 1 .. 5 : i = 1 \/ i = 2 \/ i = 3 \/ i = 4 \/ i = 5
    OBVIOUS
  <1>4. IsLayout(l, 5)
    <2>1. \A i \in 1 .. 5 : l[i].d \in Seq(LimLetters) /\ Len(l[i].d) >= 1 /\ l[i].skip \in Nat
      <3>1. IsMark(Blank) /\ IsMark(Dollar)
        BY MarksAre
      <3>2. \A i \in 1 .. 5 : l[i].d \in {Blank, Dollar} /\ l[i].skip \in {0, 2}
        BY <1>2, <1>3
      <3> QED
        BY <3>1, <3>2 DEF IsMark
    <2>2. \A i, j \in 1 .. 5 : l[i].n = l[j].n => i = j
      <3>1. \A j \in 1 .. 5 : j # 1 => l[j].n # l[1].n
        BY <1>2, <1>3
      <3>2. \A j \in 1 .. 5 : j # 2 => l[j].n # l[2].n
        BY <1>2, <1>3
      <3>3. \A j \in 1 .. 5 : j # 3 => l[j].n # l[3].n
        BY <1>2, <1>3
      <3>4. \A j \in 1 .. 5 : j # 4 => l[j].n # l[4].n
        BY <1>2, <1>3
      <3>5. \A j \in 1 .. 5 : j # 5 => l[j].n # l[5].n
        BY <1>2, <1>3
      <3> HIDE DEF l
      <3> QED
        BY <1>3, <3>1, <3>2, <3>3, <3>4, <3>5
    <2> QED
      BY <2>1, <2>2 DEF IsLayout
  <1> QED
    BY <1>2, <1>4 DEF l

LEMMA MyINFODivided ==
    ASSUME NEW S, NEW s \in Seq(S), NEW n, NEW m, NEW kw \in Nat, IsText(m, s, n, kw), kw <= n,
           NEW d, IsDivision(d), d.err = FALSE
    PROVE  MyINFOCut(DivideBy(Steps("MyINFO"), m, d), s, n, kw, Layout("MyINFO"))
  <1> DEFINE l == Layout("MyINFO")
             q == Steps("MyINFO")
  <1>1. /\ IsLayout(l, 5)
        /\ l[1].n = "dest" /\ l[1].d = Blank /\ l[1].skip = 0
        /\ l[2].n = "nick" /\ l[2].d = Blank /\ l[2].skip = 0
        /\ l[3].n = "desc" /\ l[3].d = Dollar /\ l[3].skip = 2
        /\ l[4].n = "speed" /\ l[4].d = Dollar /\ l[4].skip = 0
        /\ l[5].n = "mail" /\ l[5].d = Dollar /\ l[5].skip = 0 /\ l[6].n = "size"
    BY MyINFOFields
  <1>2. /\ Len(q) = 7 /\ q[1] = Split(Nameless, Blank, "dest", "nick")
        /\ q[2] = Split("nick", Blank, "nick", "info") /\ q[3] = Split("info", Dollar, "desc", "speed")
        /\ q[4] = Skip("speed", 2) /\ q[5] = Split("speed", Dollar, "speed", "mail")
        /\ q[6] = Split("mail", Dollar, "mail", "size") /\ q[7] = Trim("size", 1)
    <2>1. q = <<Start(Blank, "dest", "nick"), Split("nick", Blank, "nick", "info"),
                Split("info", Dollar, "desc", "speed"), Skip("speed", 2),
                Split("speed", Dollar, "speed", "mail"), Split("mail", Dollar, "mail", "size"),
                Trim("size", 1)>>
      BY DEF Steps, MyINFOSteps
    <2> HIDE DEF q
    <2> QED
      BY <2>1, StartIs
  <1> HIDE DEF l, q
  <1>3. PICK g : /\ g[0] = d /\ DivideBy(q, m, d) = g[7]
                 /\ \A i \in 0 .. 7 - 1 : g[i + 1] = Divide(g[i], m, q[i + 1])
    <2>1. 7 \in 0 .. 7
      OBVIOUS
    <2>2. Len(q) = 7
      BY <1>2
    <2>3. \E f : /\ f[0] = d /\ DivideBy(q, m, d) = f[7]
                 /\ \A i \in 0 .. 7 - 1 : f[i + 1] = Divide(f[i], m, q[i + 1])
      BY <2>1, <2>2, ChainOf
    <2> QED
      BY <2>3
  <1>4. /\ g[1] = Divide(d, m, q[1]) /\ g[2] = Divide(g[1], m, q[2]) /\ g[3] = Divide(g[2], m, q[3])
        /\ g[4] = Divide(g[3], m, q[4]) /\ g[5] = Divide(g[4], m, q[5]) /\ g[6] = Divide(g[5], m, q[6])
        /\ g[7] = Divide(g[6], m, q[7])
    <2>1. \A i \in {0, 1, 2, 3, 4, 5, 6} : g[i + 1] = Divide(g[i], m, q[i + 1])
      BY <1>3
    <2>2. g[0 + 1] = Divide(g[0], m, q[0 + 1]) /\ g[1 + 1] = Divide(g[1], m, q[1 + 1])
      BY <2>1
    <2>3. g[2 + 1] = Divide(g[2], m, q[2 + 1]) /\ g[3 + 1] = Divide(g[3], m, q[3 + 1])
      BY <2>1
    <2>4. g[4 + 1] = Divide(g[4], m, q[4 + 1]) /\ g[5 + 1] = Divide(g[5], m, q[5 + 1])
      BY <2>1
    <2>5. g[6 + 1] = Divide(g[6], m, q[6 + 1])
      BY <2>1
    <2> QED
      BY <1>3, <2>2, <2>3, <2>4, <2>5
  <1>5. n \in Nat /\ kw \in 0 .. n
    BY DEF IsText
  <1>n. /\ \A i \in 1 .. 2 : i = 1 \/ i = 2
        /\ \A i \in 1 .. 3 : i = 1 \/ i = 2 \/ i = 3
        /\ \A i \in 1 .. 4 : i = 1 \/ i = 2 \/ i = 3 \/ i = 4
        /\ \A i \in 1 .. 5 : i = 1 \/ i = 2 \/ i = 3 \/ i = 4 \/ i = 5
    OBVIOUS
  <1>6. Cuts(d, s, n, kw, l, 0, SkipAt(l, 0), Nameless, 5)
    BY <1>5, CutNothing
  <1>7. Cuts(g[1], s, n, kw, l, 1, 0, "nick", 5)
    <2>1. 0 \in 0 .. 5 /\ 0 + 1 = 1 /\ 0 < 5 /\ \A i \in 1 .. 1 : l[i].n # "nick"
      BY <1>1
    <2>2. Cuts(Divide(d, m, Split(Nameless, l[0 + 1].d, l[0 + 1].n, "nick")), s, n, kw, l, 0 + 1, 0, "nick", 5)
      BY <1>1, <1>6, <2>1, NextField, TheyAreNamed
    <2> QED
      BY <1>1, <1>2, <1>4, <2>1, <2>2
  <1>8. Cuts(g[2], s, n, kw, l, 2, 0, "info", 5)
    <2>1. 1 \in 0 .. 5 /\ 1 + 1 = 2 /\ 1 < 5 /\ SkipAt(l, 1) = 0 /\ \A i \in 1 .. 2 : l[i].n # "info"
      BY <1>1, <1>n DEF SkipAt
    <2>2. Cuts(Divide(g[1], m, Split("nick", l[1 + 1].d, l[1 + 1].n, "info")), s, n, kw, l, 1 + 1, 0, "info", 5)
      BY <1>1, <1>7, <2>1, NextField, TheyAreNamed
    <2> QED
      BY <1>1, <1>2, <1>4, <2>1, <2>2
  <1>9. Cuts(g[3], s, n, kw, l, 3, 0, "speed", 5)
    <2>1. 2 \in 0 .. 5 /\ 2 + 1 = 3 /\ 2 < 5 /\ SkipAt(l, 2) = 0 /\ \A i \in 1 .. 3 : l[i].n # "speed"
      BY <1>1, <1>n DEF SkipAt
    <2>2. Cuts(Divide(g[2], m, Split("info", l[2 + 1].d, l[2 + 1].n, "speed")), s, n, kw, l, 2 + 1, 0, "speed", 5)
      BY <1>1, <1>8, <2>1, NextField, TheyAreNamed
    <2> QED
      BY <1>1, <1>2, <1>4, <2>1, <2>2
  <1>10. Cuts(g[4], s, n, kw, l, 3, SkipAt(l, 3), "speed", 5)
    <2>1. 3 \in 1 .. 5 /\ l[3].skip > 0 /\ \A i \in 1 .. 3 : l[i].n # "speed"
      BY <1>1, <1>n
    <2>2. Cuts(Divide(g[3], m, Skip("speed", l[3].skip)), s, n, kw, l, 3, SkipAt(l, 3), "speed", 5)
      BY <1>1, <1>9, <2>1, NextSkip, TheyAreNamed
    <2> QED
      BY <1>1, <1>2, <1>4, <2>2
  <1>11. Cuts(g[5], s, n, kw, l, 4, 0, "mail", 5)
    <2>1. 3 \in 0 .. 5 /\ 3 + 1 = 4 /\ 3 < 5 /\ \A i \in 1 .. 4 : l[i].n # "mail"
      BY <1>1, <1>n
    <2>2. Cuts(Divide(g[4], m, Split("speed", l[3 + 1].d, l[3 + 1].n, "mail")), s, n, kw, l, 3 + 1, 0, "mail", 5)
      BY <1>1, <1>10, <2>1, NextField, TheyAreNamed
    <2> QED
      BY <1>1, <1>2, <1>4, <2>1, <2>2
  <1>12. Cuts(g[6], s, n, kw, l, 5, 0, "size", 5)
    <2>1. 4 \in 0 .. 5 /\ 4 + 1 = 5 /\ 4 < 5 /\ SkipAt(l, 4) = 0 /\ \A i \in 1 .. 5 : l[i].n # "size"
      BY <1>1, <1>n DEF SkipAt
    <2>2. Cuts(Divide(g[5], m, Split("mail", l[4 + 1].d, l[4 + 1].n, "size")), s, n, kw, l, 4 + 1, 0, "size", 5)
      BY <1>1, <1>11, <2>1, NextField, TheyAreNamed
    <2> QED
      BY <1>1, <1>2, <1>4, <2>1, <2>2
  <1> DEFINE e == g[6]
             r == g[7]
  <1>13. r = SetChunk(e, "size", Chunk(e, "size")[1], Chunk(e, "size")[2] - 1)
    <2>1. Trim("size", 1).do = "trim" /\ Trim("size", 1).of = "size" /\ Trim("size", 1).amount = 1
      BY DEF Trim
    <2>2. Divide(e, m, Trim("size", 1)) = ChunkRedRight(e, "size", 1)
      BY <2>1 DEF Divide
    <2> HIDE DEF e, r
    <2> QED
      BY <1>2, <1>4, <2>2 DEF ChunkRedRight, e, r
  <1> HIDE DEF e, r
  <1>14. Cuts(e, s, n, kw, l, 5, 0, "size", 5)
    BY <1>12 DEF e
  <1> DEFINE u == Chunk(e, "size")[1]
             v == Chunk(e, "size")[2] - 1
  <1>15. IsDivision(r) /\ At2(r, "size", u, v) /\ r.err = e.err /\ Keeps2(e, r, {"size"})
    <2>1. IsDivision(e)
      BY <1>14 DEF Cuts
    <2>2. r = SetChunk(e, "size", u, v)
      BY <1>13
    <2> HIDE DEF u, v
    <2>3. LET w == SetChunk(e, "size", u, v) IN
          IsDivision(w) /\ At2(w, "size", u, v) /\ w.err = e.err /\ Keeps2(e, w, {"size"})
      BY <2>1, ChunkSet
    <2> QED
      BY <2>2, <2>3
  <1>16. CASE e.err = TRUE /\ ~CanDivide(s, kw, l, 5)
    BY <1>3, <1>15, <1>16 DEF MyINFOCut, r, l, q
  <1>17. CASE CutSoFar(e, s, n, kw, l, 5, 0, "size")
    <2>1. e.err = FALSE /\ \E pos : LET x == Past(pos, l, kw, 5) + 0 IN
                                    /\ CutInto(e, s, kw, l, 5, pos)
                                    /\ x \in kw .. n
                                    /\ Stands(e, "size", x, n, kw)
      BY <1>17 DEF CutSoFar
    <2>2. PICK pos : LET x == Past(pos, l, kw, 5) + 0 IN
                     CutInto(e, s, kw, l, 5, pos) /\ x \in kw .. n /\ Stands(e, "size", x, n, kw)
      BY <2>1
    <2> DEFINE x == Past(pos, l, kw, 5) + 0
    <2>3. x = Past(pos, l, kw, 5)
      <3>1. 5 \in 1 .. 5 /\ Len(l[5].d) \in Nat
        BY <1>1 DEF IsLayout
      <3>2. pos[5] \in Int
        BY <2>2, <3>1 DEF CutInto, FirstAt
      <3>3. Past(pos, l, kw, 5) \in Int
        BY <3>1, <3>2 DEF Past
      <3> QED
        BY <3>3
    <2>4. CutInto(e, s, kw, l, 5, pos) /\ x \in kw .. n /\ Stands(e, "size", x, n, kw)
      BY <2>2
    <2> HIDE DEF x
    <2>5. At2(e, "size", x, n - x)
      BY <2>4, NamedStands, TheyAreNamed
    <2>6. u = x /\ v = n - x - 1
      BY <2>5, ChunkAt
    <2>7. \A i \in 1 .. 5 : l[i].n \notin {"size"}
      BY <1>1, <1>n
    <2> HIDE DEF u, v
    <2>8. CutInto(r, s, kw, l, 5, pos)
      BY <1>15, <2>4, <2>7, CutStays
    <2>9. At2(r, "size", x, n - x - 1)
      BY <1>15, <2>6
    <2>10. MyINFOCut(r, s, n, kw, l)
      BY <1>15, <2>1, <2>3, <2>4, <2>8, <2>9 DEF MyINFOCut
    <2> QED
      BY <1>3, <2>10 DEF r, l, q
  <1> QED
    BY <1>14, <1>16, <1>17 DEF Cuts

-----------------------------------------------------------------------------
(* Message: the divisions from the end, and within a chunk *)

\* Whatever the length of the chunk, a division without error is at the first place.
LEMMA SplitSucceeds ==
    ASSUME NEW S, NEW s \in Seq(S), NEW T, NEW lim \in Seq(T), NEW n, NEW kw, NEW m,
           IsText(m, s, n, kw), NEW d, IsDivision(d), NEW x \in Nat, NEW length,
           NEW a, NEW b, a # b, SplitAt(d, m, x, lim, a, b, length, TRUE).err # TRUE
    PROVE  LET r == SplitAt(d, m, x, lim, a, b, length, TRUE) IN
           IsDivision(r) /\ \E i : SplitsAt(d, r, s, n, x, lim, a, b, i)
  <1> DEFINE r == SplitAt(d, m, x, lim, a, b, length, TRUE)
             i == Find(s, lim, x)
             len == IF length = 0 THEN n ELSE length
             none == i = -1 \/ (len >= 0 /\ i - x >= len)
             one == SetChunk(d, a, x, i - x)
             two == SetChunk(one, b, i + Len(lim), n - i - Len(lim))
  <1>1. m.s = s /\ m.len = n
    BY DEF IsText
  <1>2. r = IF none THEN Failed(d) ELSE two
    BY <1>1 DEF SplitAt
  <1>3. r # Failed(d)
    BY FailedIs
  <1>4. ~none /\ r = two
    <2> HIDE DEF r, two, none
    <2> QED
      BY <1>2, <1>3
  <1>5. i # -1
    BY <1>4
  <1> HIDE DEF none, len, r
  <1>6. FirstAt(s, lim, x, i)
    BY <1>5, FindIs
  <1> HIDE DEF i
  <1>7. IsDivision(one) /\ At2(one, a, x, i - x) /\ one.err = d.err /\ Keeps2(d, one, {a})
    BY ChunkSet
  <1> HIDE DEF one
  <1>8. /\ IsDivision(two) /\ At2(two, b, i + Len(lim), n - i - Len(lim)) /\ two.err = one.err
        /\ Keeps2(one, two, {b})
    BY <1>7, ChunkSet
  <1> HIDE DEF two
  <1>9. At2(two, a, x, i - x)
    BY <1>7, <1>8 DEF Keeps2
  <1>10. Keeps2(d, two, {a, b})
    <2>1. {a} \cup {b} = {a, b}
      OBVIOUS
    <2>2. Keeps2(d, two, {a} \cup {b})
      BY <1>7, <1>8, KeepsBoth
    <2> QED
      BY <2>1, <2>2
  <1>11. SplitsAt(d, r, s, n, x, lim, a, b, i)
    BY <1>4, <1>6, <1>7, <1>8, <1>9, <1>10 DEF SplitsAt
  <1> QED
    BY <1>4, <1>8, <1>11 DEF r

EndSplit(d, r, s, n, x, c, a, b) ==
    /\ IsDivision(r) /\ r.err = d.err /\ Keeps2(d, r, {a, b})
    /\ \E i \in x .. n - 1 :
          /\ s[i + 1] = c /\ \A j \in i + 2 .. n : s[j] # c
          /\ At2(r, a, x, i - x) /\ At2(r, b, i + 1, n - i - 1)

\* SplitOnTwo from the end: at the last letter c of a chunk that goes to the end.
LEMMA SplitEndIs ==
    ASSUME NEW S, NEW s \in Seq(S), NEW n, n = Len(s), NEW kw, NEW m, IsText(m, s, n, kw),
           NEW d, IsDivision(d), NEW x \in 0 .. n, NEW of, Named(of), At2(d, of, x, n - x),
           NEW c, NEW a, NEW b, a # b, Divide(d, m, SplitEnd(of, <<c>>, a, b)).err # TRUE
    PROVE  EndSplit(d, Divide(d, m, SplitEnd(of, <<c>>, a, b)), s, n, x, c, a, b)
  <1> DEFINE step == SplitEnd(of, <<c>>, a, b)
             r == Divide(d, m, step)
             len == IF n - x = 0 THEN n ELSE n - x
             i == RFind(s, <<c>>, x + len - 1)
             one == SetChunk(d, a, x, i - x)
             two == SetChunk(one, b, i + 1, n - i - 1)
  <1>1. /\ step.do = "split" /\ step.of = of /\ step.lim = <<c>> /\ step.a = a /\ step.b = b
        /\ step.left = FALSE
    BY DEF SplitEnd, Split
  <1>2. m.s = s /\ m.len = n /\ n \in Nat /\ x \in Nat /\ Len(<<c>>) = 1
    BY DEF IsText
  <1> HIDE DEF step
  <1>3. r = SplitAt(d, m, x, <<c>>, a, b, n - x, FALSE)
    <2>1. Divide(d, m, step) = SplitOnTwo(d, m, step)
      BY <1>1 DEF Divide
    <2>2. SplitOnTwo(d, m, step) = SplitAt(d, m, x, <<c>>, a, b, n - x, FALSE)
      BY <1>1, ChunkAt DEF SplitOnTwo, Named, Nameless
    <2> QED
      BY <2>1, <2>2
  <1>4. r = IF i = -1 \/ i < x THEN Failed(d) ELSE two
    BY <1>2, <1>3 DEF SplitAt
  <1>5. r # Failed(d)
    BY FailedIs DEF step
  <1>6. i # -1 /\ ~(i < x) /\ r = two
    <2> HIDE DEF r, two, i
    <2> QED
      BY <1>4, <1>5
  <1>7. len \in Int /\ x + len - 1 \in Int
    BY <1>2
  <1>8. LastAt(s, <<c>>, x + len - 1, i)
    <2> HIDE DEF len
    <2>1. <<c>> \in Seq({c})
      OBVIOUS
    <2> QED
      BY <1>6, <1>7, <2>1, RFindIs
  <1> HIDE DEF i, r
  <1>9. i \in Int /\ i >= 0 /\ i < n /\ s[i + 1] = c /\ x <= i
    BY <1>2, <1>6, <1>8, IsLetter DEF LastAt
  <1>10. x + len - 1 >= n - 1
    BY <1>2, <1>9
  <1>11. ASSUME NEW j \in i + 2 .. n PROVE s[j] # c
    <2>1. j - 1 \in Int /\ i < j - 1 /\ j - 1 <= x + len - 1 /\ j - 1 >= 0 /\ j - 1 < Len(s) /\ j - 1 + 1 = j
      BY <1>2, <1>7, <1>9, <1>10
    <2>2. ~Is(s, <<c>>, j - 1)
      BY <1>8, <2>1 DEF LastAt
    <2> QED
      BY <2>1, <2>2, IsLetter
  <1> HIDE DEF len
  <1>12. IsDivision(one) /\ At2(one, a, x, i - x) /\ one.err = d.err /\ Keeps2(d, one, {a})
    BY ChunkSet
  <1> HIDE DEF one
  <1>13. IsDivision(two) /\ At2(two, b, i + 1, n - i - 1) /\ two.err = one.err /\ Keeps2(one, two, {b})
    BY <1>12, ChunkSet
  <1> HIDE DEF two
  <1>14. At2(two, a, x, i - x)
    BY <1>12, <1>13 DEF Keeps2
  <1>15. Keeps2(d, two, {a, b})
    <2>1. {a} \cup {b} = {a, b}
      OBVIOUS
    <2>2. Keeps2(d, two, {a} \cup {b})
      BY <1>12, <1>13, KeepsBoth
    <2> QED
      BY <2>1, <2>2
  <1>16. i \in x .. n - 1
    BY <1>2, <1>9
  <1>17. /\ IsDivision(r) /\ r.err = d.err /\ Keeps2(d, r, {a, b})
         /\ s[i + 1] = c /\ (\A j \in i + 2 .. n : s[j] # c)
         /\ At2(r, a, x, i - x) /\ At2(r, b, i + 1, n - i - 1)
    BY <1>6, <1>9, <1>11, <1>12, <1>13, <1>14, <1>15
  <1> QED
    BY <1>16, <1>17 DEF r, step, EndSplit

\* The end of a search: what it limits is up to the last question mark.
SearchCut(r, s, n, kw, l, k, pos, i) ==
    LET x == Past(pos, l, kw, k) IN
    /\ CutInto(r, s, kw, l, k, pos) /\ x \in kw .. n /\ i \in x .. n - 1
    /\ s[i + 1] = "?" /\ \A j \in i + 2 .. n : s[j] # "?"
    /\ At2(r, "limits", x, i - x + 1) /\ At2(r, "pattern", i + 1, n - i - 1)

LEMMA SearchEnds ==
    ASSUME NEW S, NEW s \in Seq(S), NEW n, n = Len(s), NEW m, NEW kw \in Nat, IsText(m, s, n, kw),
           NEW l, NEW k, IsLayout(l, k), \A i \in 1 .. k : l[i].n \notin {"limits", "pattern"},
           NEW d, IsDivision(d), CutSoFar(d, s, n, kw, l, k, 0, "query"),
           NEW e, e = Divide(d, m, SplitEnd("query", Mark, "limits", "pattern")),
           NEW r, r = Divide(e, m, Trim("limits", -1)), r.err # TRUE
    PROVE  r.err = FALSE /\ \E pos, i : SearchCut(r, s, n, kw, l, k, pos, i)
  <1> DEFINE step == SplitEnd("query", Mark, "limits", "pattern")
  <1>1. d.err = FALSE /\ \E pos : LET x == Past(pos, l, kw, k) + 0 IN
                                  CutInto(d, s, kw, l, k, pos) /\ x \in kw .. n /\ Stands(d, "query", x, n, kw)
    BY DEF CutSoFar
  <1>2. PICK pos : LET x == Past(pos, l, kw, k) + 0 IN
                   CutInto(d, s, kw, l, k, pos) /\ x \in kw .. n /\ Stands(d, "query", x, n, kw)
    BY <1>1
  <1> DEFINE x == Past(pos, l, kw, k)
  <1>3. x \in Int
    <2>1. CASE k = 0
      BY <2>1 DEF Past
    <2>2. CASE k # 0
      <3>1. k \in 1 .. k /\ Len(l[k].d) \in Nat
        BY <2>2 DEF IsLayout
      <3>2. pos[k] \in Int
        BY <1>2, <3>1 DEF CutInto, FirstAt
      <3> QED
        BY <2>2, <3>1, <3>2 DEF Past
    <2> QED
      BY <2>1, <2>2
  <1>4. x \in kw .. n /\ Stands(d, "query", x, n, kw) /\ CutInto(d, s, kw, l, k, pos)
    <2>1. x + 0 = x
      BY <1>3
    <2> HIDE DEF x
    <2> QED
      BY <1>2, <2>1 DEF x
  <1> HIDE DEF x
  <1>5. At2(d, "query", x, n - x)
    BY <1>4, NamedStands, TheyAreNamed
  <1>6. IsDivision(e) /\ e.err # TRUE
    <2>1. IsDivision(e) /\ (e.err = TRUE => r.err = TRUE)
      <3>1. IsDivision(e)
        BY ErrorStays
      <3> QED
        BY <3>1, ErrorStays
    <2> QED
      BY <2>1
  <1>7. /\ e.err = d.err /\ Keeps2(d, e, {"limits", "pattern"})
        /\ \E i \in x .. n - 1 :
              /\ s[i + 1] = "?" /\ \A j \in i + 2 .. n : s[j] # "?"
              /\ At2(e, "limits", x, i - x) /\ At2(e, "pattern", i + 1, n - i - 1)
    <2>1. x \in 0 .. n /\ Mark = <<"?">> /\ Named("query")
      BY <1>4, TheyAreNamed DEF Mark
    <2>2. Divide(d, m, SplitEnd("query", <<"?">>, "limits", "pattern")) = e
      BY <2>1
    <2> DEFINE w == Divide(d, m, SplitEnd("query", <<"?">>, "limits", "pattern"))
    <2>3. w.err # TRUE /\ "limits" # "pattern"
      BY <1>6, <2>2
    <2>4. EndSplit(d, w, s, n, x, "?", "limits", "pattern")
      BY <1>5, <2>1, <2>3, SplitEndIs
    <2>5. EndSplit(d, e, s, n, x, "?", "limits", "pattern")
      BY <2>2, <2>4
    <2> QED
      BY <2>5 DEF EndSplit
  <1>8. PICK i \in x .. n - 1 :
              /\ s[i + 1] = "?" /\ \A j \in i + 2 .. n : s[j] # "?"
              /\ At2(e, "limits", x, i - x) /\ At2(e, "pattern", i + 1, n - i - 1)
    BY <1>7
  <1>9. r = SetChunk(e, "limits", x, i - x + 1)
    <2>1. Trim("limits", -1).do = "trim" /\ Trim("limits", -1).of = "limits" /\ Trim("limits", -1).amount = -1
      BY DEF Trim
    <2>2. r = ChunkRedRight(e, "limits", -1)
      BY <2>1 DEF Divide
    <2>3. Chunk(e, "limits")[1] = x /\ Chunk(e, "limits")[2] = i - x
      BY <1>8, ChunkAt
    <2>4. i - x - (-1) = i - x + 1
      BY <1>3, <1>8
    <2> QED
      BY <2>2, <2>3, <2>4 DEF ChunkRedRight
  <1>10. IsDivision(r) /\ At2(r, "limits", x, i - x + 1) /\ r.err = e.err /\ Keeps2(e, r, {"limits"})
    BY <1>6, <1>9, ChunkSet
  <1>11. At2(r, "pattern", i + 1, n - i - 1)
    BY <1>8, <1>10 DEF Keeps2
  <1>12. CutInto(r, s, kw, l, k, pos)
    <2>1. CutInto(e, s, kw, l, k, pos)
      BY <1>4, <1>7, CutStays
    <2>2. \A h \in 1 .. k : l[h].n \notin {"limits"}
      OBVIOUS
    <2> QED
      BY <1>10, <2>1, <2>2, CutStays
  <1>13. SearchCut(r, s, n, kw, l, k, pos, i)
    BY <1>4, <1>8, <1>10, <1>11, <1>12 DEF SearchCut, x
  <1> QED
    BY <1>1, <1>7, <1>10, <1>13

LEMMA PieceIs ==
    ASSUME NEW S, NEW s \in Seq(S), NEW x \in Nat, NEW y \in Nat, x + y <= Len(s)
    PROVE  LET q == SubSeq(s, x + 1, x + y) IN
           q \in Seq(S) /\ Len(q) = y /\ \A h \in 1 .. y : q[h] = s[x + h]
  <1> DEFINE q == SubSeq(s, x + 1, x + y)
  <1>1. \A h \in x + 1 .. x + y : h \in 1 .. Len(s)
    OBVIOUS
  <1>2. q \in Seq(S)
    BY <1>1
  <1>3. Len(q) = y
    <2>1. x + y - (x + 1) + 1 = y
      OBVIOUS
    <2> QED
      BY <1>1, <2>1
  <1>4. ASSUME NEW h \in 1 .. y PROVE q[h] = s[x + h]
    <2>1. x + 1 + h - 1 = x + h
      OBVIOUS
    <2> QED
      BY <1>1, <2>1
  <1> QED
    BY <1>2, <1>3, <1>4

\* The string of a chunk that is text of the message.
LEMMA StringOf ==
    ASSUME NEW S, mStr \in Seq(S), NEW n, n \notin DOMAIN strings, NEW x \in Nat, NEW y \in Nat,
           x + y <= Len(mStr), chunk[n][1] = x, chunk[n][2] = y
    PROVE  Valid(chunk[n]) /\ ChunkString(n) = SubSeq(mStr, x + 1, x + y)
  <1> DEFINE c == chunk[n]
  <1>1. c[1] = x /\ c[2] = y /\ Len(mStr) \in Nat
    OBVIOUS
  <1> HIDE DEF c
  <1>2. Valid(c)
    BY <1>1 DEF Valid
  <1>3. Part(mStr, c) = SubSeq(mStr, x + 1, x + y)
    <2>1. (IF x + y < Len(mStr) THEN x + y ELSE Len(mStr)) = x + y
      BY <1>1
    <2> QED
      BY <1>1, <2>1 DEF Part
  <1>4. ChunkString(n) = Part(mStr, c)
    BY <1>2 DEF ChunkString, c
  <1> QED
    BY <1>2, <1>3, <1>4 DEF c

LEMMA SearchRight ==
    ASSUME NEW S, mStr \in Seq(S), mKWSize \in 0 .. Len(mStr), strings = <<>>, TailOf(mType) = 0,
           NEW l, NEW k, IsLayout(l, k), k >= 1, Len(l) = k + 2, l[k].skip = 0,
           l[k + 1] = Field("limits", <<>>), l[k + 2] = Field("pattern", <<>>),
           NEW r, r.ch = chunk, NEW pos, NEW i,
           SearchCut(r, mStr, Len(mStr), mKWSize, l, k, pos, i)
    PROVE  /\ Tiled(l) /\ \A f \in Range(l) : Valid(chunk[f.n])
           /\ ChunkString("limits") # <<>> /\ Last(ChunkString("limits")) = "?"
           /\ "?" \notin Range(ChunkString("pattern"))
  <1> DEFINE x == Past(pos, l, mKWSize, k)
             n == Len(mStr)
  <1>1. /\ CutInto(r, mStr, mKWSize, l, k, pos) /\ x \in mKWSize .. n /\ i \in x .. n - 1
        /\ mStr[i + 1] = "?" /\ (\A j \in i + 2 .. n : mStr[j] # "?")
        /\ At2(r, "limits", x, i - x + 1) /\ At2(r, "pattern", i + 1, n - i - 1)
    BY DEF SearchCut
  <1>2. /\ k \in Nat /\ n \in Nat /\ mKWSize \in Nat /\ k \in 1 .. k /\ Len(l) - 1 = k + 1
    BY DEF IsLayout
  <1>3. /\ l[k + 1].n = "limits" /\ l[k + 1].d = <<>> /\ l[k + 1].skip = 0
        /\ l[k + 2].n = "pattern"
    BY FieldIs
  <1>4. x = pos[k] + Len(l[k].d)
    BY <1>2 DEF Past
  <1> DEFINE tiles(h) ==
              /\ Valid(chunk[l[h].n]) /\ chunk[l[h].n][1] = FieldFrom(pos, l, mKWSize, h)
              /\ EndOf(l[h].n) = pos[h] /\ pos[h] \in Nat /\ pos[h] + Len(l[h].d) <= Len(mStr)
              /\ Is(mStr, l[h].d, EndOf(l[h].n))
              /\ \A j \in chunk[l[h].n][1] .. (EndOf(l[h].n) - 1) : ~Is(mStr, l[h].d, j)
  <1>5. \A h \in 1 .. k : tiles(h)
    BY <1>1, CutTiles
  <1> HIDE DEF x
  <1>6. /\ chunk["limits"][1] = x /\ chunk["limits"][2] = i - x + 1
        /\ chunk["pattern"][1] = i + 1 /\ chunk["pattern"][2] = n - i - 1
    BY <1>1 DEF At2
  <1>7. /\ x \in Nat /\ i \in Nat /\ i - x + 1 \in Nat /\ n - i - 1 \in Nat /\ i + 1 \in Nat
        /\ x + (i - x + 1) = i + 1 /\ i + 1 <= n /\ i + 1 + (n - i - 1) = n
    BY <1>1, <1>2
  <1> HIDE DEF n
  <1>8. Valid(chunk["limits"]) /\ ChunkString("limits") = SubSeq(mStr, x + 1, i + 1)
    <2>1. "limits" \notin DOMAIN strings
      OBVIOUS
    <2>2. x + (i - x + 1) <= Len(mStr)
      BY <1>7 DEF n
    <2>3. Valid(chunk["limits"]) /\ ChunkString("limits") = SubSeq(mStr, x + 1, x + (i - x + 1))
      BY <1>6, <1>7, <2>1, <2>2, StringOf
    <2> QED
      BY <1>7, <2>3
  <1>9. Valid(chunk["pattern"]) /\ ChunkString("pattern") = SubSeq(mStr, i + 2, n)
    <2>1. "pattern" \notin DOMAIN strings
      OBVIOUS
    <2>2. i + 1 + (n - i - 1) <= Len(mStr) /\ i + 1 + 1 = i + 2
      BY <1>2, <1>7 DEF n
    <2>3. Valid(chunk["pattern"]) /\ ChunkString("pattern") = SubSeq(mStr, i + 1 + 1, i + 1 + (n - i - 1))
      BY <1>6, <1>7, <2>1, <2>2, StringOf
    <2> QED
      BY <1>7, <2>2, <2>3
  <1>10. ChunkString("limits") # <<>> /\ Last(ChunkString("limits")) = "?"
    <2> DEFINE q == SubSeq(mStr, x + 1, i + 1)
    <2>1. x + 1 \in 1 .. n /\ i + 1 \in 1 .. n /\ x + 1 <= i + 1
      BY <1>1, <1>2, <1>7
    <2>2. q \in Seq(S) /\ Len(q) = i - x + 1 /\ q[i - x + 1] = mStr[i + 1]
      <3> DEFINE y == i - x + 1
      <3>1. y \in Nat /\ x + y = i + 1 /\ x + y <= Len(mStr) /\ y \in 1 .. y
        BY <1>7, <2>1 DEF n
      <3> HIDE DEF y, q
      <3>2. q = SubSeq(mStr, x + 1, x + y)
        BY <3>1 DEF q
      <3>3. q \in Seq(S) /\ Len(q) = y /\ q[y] = mStr[x + y]
        BY <1>7, <3>1, <3>2, PieceIs
      <3> QED
        BY <3>1, <3>3 DEF y
    <2> HIDE DEF q
    <2>3. q # <<>> /\ Last(q) = "?"
      BY <1>1, <1>7, <2>1, <2>2 DEF Last
    <2> QED
      BY <1>8, <2>3 DEF q
  <1>11. "?" \notin Range(ChunkString("pattern"))
    <2> DEFINE q == SubSeq(mStr, i + 2, n)
    <2> DEFINE z == i + 1
               y == n - i - 1
    <2>1. z \in Nat /\ y \in Nat /\ z + y = n /\ z + y <= Len(mStr) /\ z + 1 = i + 2
      BY <1>2, <1>7 DEF n
    <2> HIDE DEF z, y, q
    <2>2. q = SubSeq(mStr, z + 1, z + y)
      BY <2>1 DEF q
    <2>a. q \in Seq(S) /\ Len(q) = y /\ \A h \in 1 .. y : q[h] = mStr[z + h]
      BY <2>1, <2>2, PieceIs
    <2>3. ASSUME NEW j \in DOMAIN q PROVE q[j] # "?"
      <3>1. j \in 1 .. y /\ q[j] = mStr[z + j]
        BY <2>1, <2>a
      <3>2. z + j \in i + 2 .. n
        <4>1. j \in Int /\ 1 <= j /\ j <= y /\ n \in Nat
          BY <1>2, <2>1, <3>1 DEF n
        <4>2. z + 1 <= z + j /\ z + j <= z + y /\ z + j \in Int
          BY <2>1, <4>1
        <4>3. i + 2 <= z + j /\ z + j <= n
          BY <2>1, <4>2
        <4> QED
          BY <1>7, <4>1, <4>2, <4>3
      <3> QED
        BY <1>1, <3>1, <3>2
    <2>4. "?" \notin Range(q)
      BY <2>3 DEF Range
    <2> QED
      BY <1>9, <2>4 DEF q
  <1>12. EndOf("limits") = i + 1 /\ EndOf("pattern") = n
    BY <1>6, <1>7 DEF EndOf
  <1>13. \A f \in Range(l) : Valid(chunk[f.n])
    <2>1. \A h \in 1 .. k + 2 : h \in 1 .. k \/ h = k + 1 \/ h = k + 2
      BY <1>2
    <2>2. \A h \in 1 .. k + 2 : Valid(chunk[l[h].n])
      BY <1>3, <1>5, <1>8, <1>9, <2>1
    <2>3. DOMAIN l = 1 .. k + 2
      BY <1>2
    <2> QED
      BY <2>2, <2>3 DEF Range
  <1>14. Tiled(l)
    <2>1. chunk[l[1].n][1] = mKWSize
      BY <1>2, <1>5 DEF FieldFrom
    <2>2. EndOf(Last(l).n) + TailOf(mType) = Len(mStr)
      BY <1>2, <1>3, <1>12 DEF Last, n
    <2>3. ASSUME NEW h \in 1 .. k
          PROVE  /\ Is(mStr, l[h].d, EndOf(l[h].n))
                 /\ chunk[l[h + 1].n][1] = EndOf(l[h].n) + Len(l[h].d) + l[h].skip
                 /\ \A j \in chunk[l[h].n][1] .. (EndOf(l[h].n) - 1) : ~Is(mStr, l[h].d, j)
      <3>1. CASE h = k
        <4>1. chunk[l[k + 1].n][1] = x /\ pos[k] \in Nat /\ EndOf(l[k].n) = pos[k] /\ Len(l[k].d) \in Nat
          BY <1>2, <1>3, <1>5, <1>6 DEF IsLayout
        <4>2. pos[k] + Len(l[k].d) = pos[k] + Len(l[k].d) + 0
          BY <4>1
        <4> QED
          BY <1>4, <1>5, <3>1, <4>1, <4>2
      <3>2. CASE h # k
        <4>1. h + 1 \in 1 .. k /\ h + 1 # 1 /\ h + 1 - 1 = h
          BY <1>2, <3>2
        <4>2. chunk[l[h + 1].n][1] = FieldFrom(pos, l, mKWSize, h + 1)
          BY <1>5, <4>1
        <4>3. FieldFrom(pos, l, mKWSize, h + 1) = pos[h] + Len(l[h].d) + l[h].skip
          BY <4>1 DEF FieldFrom
        <4> QED
          BY <1>5, <4>2, <4>3
      <3> QED
        BY <3>1, <3>2
    <2>4. /\ Is(mStr, l[k + 1].d, EndOf(l[k + 1].n))
          /\ chunk[l[k + 1 + 1].n][1] = EndOf(l[k + 1].n) + Len(l[k + 1].d) + l[k + 1].skip
          /\ l[k + 1].d = <<>>
      <3>1. k + 1 + 1 = k + 2 /\ Len(<<>>) = 0
        BY <1>2
      <3>2. SubSeq(mStr, i + 1 + 1, i + 1 + 0) = <<>>
        BY <1>7
      <3>3. Is(mStr, <<>>, i + 1)
        BY <1>7, <3>1, <3>2 DEF Is, n
      <3>4. Is(mStr, l[k + 1].d, EndOf(l[k + 1].n))
        BY <1>3, <1>12, <3>3
      <3>5. chunk[l[k + 2].n][1] = i + 1
        BY <1>3, <1>6
      <3>6. EndOf(l[k + 1].n) + Len(l[k + 1].d) + l[k + 1].skip = i + 1
        <4>1. i + 1 + 0 + 0 = i + 1
          BY <1>7
        <4> QED
          BY <1>3, <1>12, <3>1, <4>1
      <3> QED
        BY <1>3, <3>1, <3>4, <3>5, <3>6
    <2>5. \A h \in 1 .. (Len(l) - 1) : h \in 1 .. k \/ h = k + 1
      BY <1>2
    <2> QED
      BY <2>1, <2>2, <2>3, <2>4, <2>5 DEF Tiled
  <1> QED
    BY <1>10, <1>11, <1>13, <1>14

-----------------------------------------------------------------------------
(* Message: FieldsRight, type by type *)

\* The state after the division of a message that nobody has changed.
SplitState(R) ==
    /\ stage = "split" /\ rewritten = <<>> /\ strings = <<>>
    /\ mKWSize \in 0 .. Len(mStr)
    /\ IsDivision(R) /\ R.ch = chunk /\ R.err = mError

Searches == {"Search", "SearchPas", "MSearch", "MSearchPas"}

LEMMA CannotDivide ==
    ASSUME NEW l, NEW k \in Nat, Len(l) = k + 1, ~CanDivide(mStr, mKWSize, l, k)
    PROVE  ~Dividable(l)
  <1>1. Len(l) - 1 = k
    OBVIOUS
  <1> QED
    BY <1>1 DEF CanDivide, Dividable

LEMMA WholeHolds ==
    ASSUME NEW S, mStr \in Seq(S), NEW R, SplitState(R), NEW l, l = Layout(mType), NEW k, IsLayout(l, k),
           Len(l) = k + 1, DOMAIN l = 1 .. k + 1, Named(l[k + 1].n), Whole(R, mStr, Len(mStr), mKWSize, l, k), Plain(mType)
    PROVE  FieldsRight
  <1>1. mType # "SR" /\ mType \notin Searches /\ mType # "MyINFO" /\ TailOf(mType) = 0
    BY DEF Plain, Searches, TailOf
  <1>2. R.err = mError /\ R.ch = chunk /\ mError \in BOOLEAN /\ mKWSize \in 0 .. Len(mStr) /\ k \in Nat
    BY DEF SplitState, IsDivision, IsLayout
  <1>3. mError = TRUE => ~Dividable(l)
    <2>1. ASSUME mError = TRUE PROVE ~CanDivide(mStr, mKWSize, l, k)
      BY <1>2, <2>1 DEF Whole
    <2>2. ~CanDivide(mStr, mKWSize, l, k) => ~Dividable(l)
      BY <1>2, CannotDivide
    <2> QED
      BY <2>1, <2>2
  <1>4. ASSUME mError = FALSE PROVE Tiled(l) /\ \A f \in Range(l) : Valid(chunk[f.n])
    <2>1. \E pos : LET x == Past(pos, l, mKWSize, k) + SkipAt(l, k) IN
                   /\ CutInto(R, mStr, mKWSize, l, k, pos)
                   /\ x \in mKWSize .. Len(mStr)
                   /\ Stands(R, l[k + 1].n, x, Len(mStr), mKWSize)
      BY <1>2, <1>4 DEF Whole, CutSoFar
    <2>2. PICK pos : LET x == Past(pos, l, mKWSize, k) + SkipAt(l, k) IN
                   /\ CutInto(R, mStr, mKWSize, l, k, pos)
                   /\ x \in mKWSize .. Len(mStr)
                   /\ Stands(R, l[k + 1].n, x, Len(mStr), mKWSize)
      BY <2>1
    <2> DEFINE x == Past(pos, l, mKWSize, k) + SkipAt(l, k)
    <2>3. CutInto(R, mStr, mKWSize, l, k, pos) /\ x \in mKWSize .. Len(mStr)
      BY <2>2
    <2>4. At2(R, l[k + 1].n, x, Len(mStr) - x)
      BY <2>2, NamedStands
    <2>5. Len(mStr) - x = Len(mStr) - x - TailOf(mType)
      BY <1>1, <1>2, <2>3
    <2> HIDE DEF x
    <2>6. x = Past(pos, l, mKWSize, k) + SkipAt(l, k)
      BY DEF x
    <2>7. /\ Tiled(l) /\ \A i \in 1 .. k : Valid(chunk[l[i].n])
          /\ Valid(chunk[l[k + 1].n])
      BY <1>1, <1>2, <2>3, <2>4, <2>5, <2>6, TilesAre
    <2>8. \A i \in 1 .. k + 1 : i \in 1 .. k \/ i = k + 1
      BY <1>2
    <2> QED
      BY <2>7, <2>8 DEF Range
  <1> QED
    BY <1>1, <1>2, <1>3, <1>4 DEF FieldsRight, Searches

LEMMA HoldsOne ==
    ASSUME NEW S, mStr \in Seq(S), NEW m, mKWSize \in Nat, IsText(m, mStr, Len(mStr), mKWSize),
           NEW d, IsDivision(d), d.err = FALSE, NEW x, IsMark(x), NEW a, NEW b, Named(b), a # b,
           Layout(mType) = <<Field(a, x), Field(b, <<>>)>>, Plain(mType),
           SplitState(DivideBy(<<Start(x, a, b)>>, m, d))
    PROVE  FieldsRight
  <1> DEFINE l == <<Field(a, x), Field(b, <<>>)>>
             R == DivideBy(<<Start(x, a, b)>>, m, d)
  <1>1. mKWSize <= Len(mStr)
    BY DEF SplitState
  <1>2. IsLayout(l, 1) /\ Len(l) = 2 /\ Whole(R, mStr, Len(mStr), mKWSize, l, 1)
    BY <1>1, OneSplit
  <1>3. 1 + 1 = 2 /\ DOMAIN l = 1 .. 2 /\ l[2].n = b
    BY FieldIs
  <1>4. l = Layout(mType) /\ SplitState(R)
    OBVIOUS
  <1> HIDE DEF l, R
  <1> QED
    BY <1>2, <1>3, <1>4, WholeHolds

LEMMA HoldsTwo ==
    ASSUME NEW S, mStr \in Seq(S), NEW m, mKWSize \in Nat, IsText(m, mStr, Len(mStr), mKWSize),
           NEW d, IsDivision(d), d.err = FALSE, NEW x, IsMark(x), NEW y, IsMark(y),
           NEW a, NEW b, NEW c, NEW b0, Named(b0), Named(c), a # b, a # c, b # c, a # b0,
           Layout(mType) = <<Field(a, x), Field(b, y), Field(c, <<>>)>>, Plain(mType),
           SplitState(DivideBy(<<Start(x, a, b0), Split(b0, y, b, c)>>, m, d))
    PROVE  FieldsRight
  <1> DEFINE l == <<Field(a, x), Field(b, y), Field(c, <<>>)>>
             R == DivideBy(<<Start(x, a, b0), Split(b0, y, b, c)>>, m, d)
  <1>1. mKWSize <= Len(mStr)
    BY DEF SplitState
  <1>2. IsLayout(l, 2) /\ Len(l) = 3 /\ Whole(R, mStr, Len(mStr), mKWSize, l, 2)
    BY <1>1, TwoSplits
  <1>3. 2 + 1 = 3 /\ DOMAIN l = 1 .. 3 /\ l[3].n = c
    BY FieldIs
  <1>4. l = Layout(mType) /\ SplitState(R)
    OBVIOUS
  <1> HIDE DEF l, R
  <1> QED
    BY <1>2, <1>3, <1>4, WholeHolds

\* The text of the message and the division before it is divided.
Given(m, d) ==
    /\ mKWSize \in Nat /\ IsText(m, mStr, Len(mStr), mKWSize)
    /\ IsDivision(d) /\ d.err = FALSE

LEMMA HoldsSimple ==
    ASSUME NEW S, mStr \in Seq(S), NEW m, NEW d, Given(m, d),
           mType \in {"RevConnectToMe", "SP", "ExtJSON", "MyIP", "Chat", "GetINFO", "Ban", "IN"},
           SplitState(DivideBy(Steps(mType), m, d))
    PROVE  FieldsRight
  <1>1. Plain(mType)
    BY DEF Plain
  <1>2. mKWSize \in Nat /\ IsText(m, mStr, Len(mStr), mKWSize) /\ IsDivision(d) /\ d.err = FALSE
    BY DEF Given
  <1>3. CASE mType = "RevConnectToMe"
    <2>1. Steps(mType) = <<Start(Blank, "nick", "other")>>
      BY <1>3 DEF Steps
    <2>2. Layout(mType) = <<Field("nick", Blank), Field("other", <<>>)>>
      BY <1>3 DEF Layout
    <2>3. IsMark(Blank) /\ Named("other") /\ "nick" # "other"
      BY MarksAre, TheyAreNamed
    <2> QED
      BY <1>1, <1>2, <2>1, <2>2, <2>3, HoldsOne
  <1>4. CASE mType = "SP"
    <2>1. Steps(mType) = <<Start(Blank, "tth", "nick")>>
      BY <1>4 DEF Steps
    <2>2. Layout(mType) = <<Field("tth", Blank), Field("nick", <<>>)>>
      BY <1>4 DEF Layout
    <2>3. IsMark(Blank) /\ Named("nick") /\ "tth" # "nick"
      BY MarksAre, TheyAreNamed
    <2> QED
      BY <1>1, <1>2, <2>1, <2>2, <2>3, HoldsOne
  <1>5. CASE mType = "ExtJSON"
    <2>1. Steps(mType) = <<Start(Blank, "nick", "pars")>>
      BY <1>5 DEF Steps
    <2>2. Layout(mType) = <<Field("nick", Blank), Field("pars", <<>>)>>
      BY <1>5 DEF Layout
    <2>3. IsMark(Blank) /\ Named("pars") /\ "nick" # "pars"
      BY MarksAre, TheyAreNamed
    <2> QED
      BY <1>1, <1>2, <2>1, <2>2, <2>3, HoldsOne
  <1>6. CASE mType = "MyIP"
    <2>1. Steps(mType) = <<Start(Blank, "ip", "vers")>>
      BY <1>6 DEF Steps
    <2>2. Layout(mType) = <<Field("ip", Blank), Field("vers", <<>>)>>
      BY <1>6 DEF Layout
    <2>3. IsMark(Blank) /\ Named("vers") /\ "ip" # "vers"
      BY MarksAre, TheyAreNamed
    <2> QED
      BY <1>1, <1>2, <2>1, <2>2, <2>3, HoldsOne
  <1>7. CASE mType = "Chat"
    <2>1. Steps(mType) = <<Start(ClosesNick, "nick", "text")>>
      BY <1>7 DEF Steps
    <2>2. Layout(mType) = <<Field("nick", ClosesNick), Field("text", <<>>)>>
      BY <1>7 DEF Layout
    <2>3. IsMark(ClosesNick) /\ Named("text") /\ "nick" # "text"
      BY MarksAre, TheyAreNamed
    <2> QED
      BY <1>1, <1>2, <2>1, <2>2, <2>3, HoldsOne
  <1>8. CASE mType = "GetINFO"
    <2>1. Steps(mType) = <<Start(Blank, "other", "nick")>>
      BY <1>8 DEF Steps
    <2>2. Layout(mType) = <<Field("other", Blank), Field("nick", <<>>)>>
      BY <1>8 DEF Layout
    <2>3. IsMark(Blank) /\ Named("nick") /\ "other" # "nick"
      BY MarksAre, TheyAreNamed
    <2> QED
      BY <1>1, <1>2, <2>1, <2>2, <2>3, HoldsOne
  <1>9. CASE mType = "Ban"
    <2>1. Steps(mType) = <<Start(Dollar, "nick", "reason")>>
      BY <1>9 DEF Steps
    <2>2. Layout(mType) = <<Field("nick", Dollar), Field("reason", <<>>)>>
      BY <1>9 DEF Layout
    <2>3. IsMark(Dollar) /\ Named("reason") /\ "nick" # "reason"
      BY MarksAre, TheyAreNamed
    <2> QED
      BY <1>1, <1>2, <2>1, <2>2, <2>3, HoldsOne
  <1>10. CASE mType = "IN"
    <2>1. Steps(mType) = <<Start(Dollar, "nick", "data")>>
      BY <1>10 DEF Steps
    <2>2. Layout(mType) = <<Field("nick", Dollar), Field("data", <<>>)>>
      BY <1>10 DEF Layout
    <2>3. IsMark(Dollar) /\ Named("data") /\ "nick" # "data"
      BY MarksAre, TheyAreNamed
    <2> QED
      BY <1>1, <1>2, <2>1, <2>2, <2>3, HoldsOne
  <1> QED
    BY <1>3, <1>4, <1>5, <1>6, <1>7, <1>8, <1>9, <1>10

LEMMA HoldsDouble ==
    ASSUME NEW S, mStr \in Seq(S), NEW m, NEW d, Given(m, d),
           mType \in {"ConnectToMe", "SA", "MCTo", "TempBan"},
           SplitState(DivideBy(Steps(mType), m, d))
    PROVE  FieldsRight
  <1>1. Plain(mType)
    BY DEF Plain
  <1>2. mKWSize \in Nat /\ IsText(m, mStr, Len(mStr), mKWSize) /\ IsDivision(d) /\ d.err = FALSE
    BY DEF Given
  <1>3. CASE mType = "ConnectToMe"
    <2>1. Steps(mType) = <<Start(Blank, "nick", "active"), Split("active", Colon, "ip", "port")>>
      BY <1>3 DEF Steps
    <2>2. Layout(mType) = <<Field("nick", Blank), Field("ip", Colon), Field("port", <<>>)>>
      BY <1>3 DEF Layout
    <2>3. IsMark(Blank) /\ IsMark(Colon) /\ Named("active") /\ Named("port")
      BY MarksAre, TheyAreNamed
    <2>4. "nick" # "ip" /\ "nick" # "port" /\ "ip" # "port" /\ "nick" # "active"
      OBVIOUS
    <2> QED
      BY <1>1, <1>2, <2>1, <2>2, <2>3, <2>4, HoldsTwo
  <1>4. CASE mType = "SA"
    <2>1. Steps(mType) = <<Start(Blank, "tth", "addr"), Split("addr", Colon, "ip", "port")>>
      BY <1>4 DEF Steps
    <2>2. Layout(mType) = <<Field("tth", Blank), Field("ip", Colon), Field("port", <<>>)>>
      BY <1>4 DEF Layout
    <2>3. IsMark(Blank) /\ IsMark(Colon) /\ Named("addr") /\ Named("port")
      BY MarksAre, TheyAreNamed
    <2>4. "tth" # "ip" /\ "tth" # "port" /\ "ip" # "port" /\ "tth" # "addr"
      OBVIOUS
    <2> QED
      BY <1>1, <1>2, <2>1, <2>2, <2>3, <2>4, HoldsTwo
  <1>5. CASE mType = "MCTo"
    <2>1. Steps(mType) = <<Start(OpensNick, "to", "said"), Split("said", Blank, "nick", "text")>>
      BY <1>5 DEF Steps
    <2>2. Layout(mType) = <<Field("to", OpensNick), Field("nick", Blank), Field("text", <<>>)>>
      BY <1>5 DEF Layout
    <2>3. IsMark(OpensNick) /\ IsMark(Blank) /\ Named("said") /\ Named("text")
      BY MarksAre, TheyAreNamed
    <2>4. "to" # "nick" /\ "to" # "text" /\ "nick" # "text" /\ "to" # "said"
      OBVIOUS
    <2> QED
      BY <1>1, <1>2, <2>1, <2>2, <2>3, <2>4, HoldsTwo
  <1>6. CASE mType = "TempBan"
    <2>1. Steps(mType) = <<Start(Dollar, "nick", "time"), Split("time", Dollar, "time", "reason")>>
      BY <1>6 DEF Steps
    <2>2. Layout(mType) = <<Field("nick", Dollar), Field("time", Dollar), Field("reason", <<>>)>>
      BY <1>6 DEF Layout
    <2>3. IsMark(Dollar) /\ IsMark(Dollar) /\ Named("time") /\ Named("reason")
      BY MarksAre, TheyAreNamed
    <2>4. "nick" # "time" /\ "nick" # "reason" /\ "time" # "reason" /\ "nick" # "time"
      OBVIOUS
    <2> QED
      BY <1>1, <1>2, <2>1, <2>2, <2>3, <2>4, HoldsTwo
  <1> QED
    BY <1>3, <1>4, <1>5, <1>6

LEMMA HoldsTo ==
    ASSUME NEW S, mStr \in Seq(S), NEW m, NEW d, Given(m, d), mType = "To",
           SplitState(DivideBy(Steps(mType), m, d))
    PROVE  FieldsRight
  <1> DEFINE l == <<Field("to", From), Field("from", OpensNick), Field("nick", ClosesNick), Field("text", <<>>)>>
             q == <<Start(From, "to", "from"), Split("from", OpensNick, "from", "said"),
                    Split("said", ClosesNick, "nick", "text")>>
             R == DivideBy(q, m, d)
  <1>1. Plain(mType) /\ mKWSize <= Len(mStr)
    BY DEF Plain, SplitState
  <1>2. mKWSize \in Nat /\ IsText(m, mStr, Len(mStr), mKWSize) /\ IsDivision(d) /\ d.err = FALSE
    BY DEF Given
  <1>3. Steps(mType) = q /\ Layout(mType) = l
    BY DEF Steps, ToSteps, Layout
  <1>4. /\ IsMark(From) /\ IsMark(OpensNick) /\ IsMark(ClosesNick)
        /\ Named("from") /\ Named("said") /\ Named("text")
    BY MarksAre, TheyAreNamed
  <1>5. IsLayout(l, 3) /\ Len(l) = 4 /\ Whole(R, mStr, Len(mStr), mKWSize, l, 3)
    BY <1>1, <1>2, <1>4, ThreeSplits
  <1>6. 3 + 1 = 4 /\ DOMAIN l = 1 .. 4 /\ l[4].n = "text"
    BY FieldIs
  <1>7. SplitState(R)
    BY <1>3
  <1> HIDE DEF l, R
  <1>8. l = Layout(mType)
    BY <1>3
  <1> QED
    BY <1>1, <1>4, <1>5, <1>6, <1>7, <1>8, WholeHolds

LEMMA HoldsForced ==
    ASSUME NEW S, mStr \in Seq(S), NEW m, NEW d, Given(m, d), mType = "OpForceMove",
           SplitState(DivideBy(Steps(mType), m, d))
    PROVE  FieldsRight
  <1> DEFINE l == Layout(mType)
             R == DivideBy(Steps(mType), m, d)
  <1>1. Plain(mType) /\ mKWSize <= Len(mStr)
    BY DEF Plain, SplitState
  <1>2. mKWSize \in Nat /\ IsText(m, mStr, Len(mStr), mKWSize) /\ IsDivision(d) /\ d.err = FALSE
    BY DEF Given
  <1>3. IsLayout(l, 2) /\ Len(l) = 3 /\ Whole(R, mStr, Len(mStr), mKWSize, l, 2)
    BY <1>1, <1>2, ForcedMove
  <1>4. 2 + 1 = 3 /\ DOMAIN l = 1 .. 3 /\ l[3].n = "reason"
    BY FieldIs DEF Layout
  <1> HIDE DEF l, R
  <1>5. l = Layout(mType) /\ SplitState(R)
    BY DEF l, R
  <1>6. Named(l[3].n)
    BY <1>4, TheyAreNamed
  <1> QED
    BY <1>1, <1>3, <1>4, <1>5, <1>6, WholeHolds

LEMMA HoldsPar ==
    ASSUME NEW S, mStr \in Seq(S), NEW m, NEW d, Given(m, d), mType \in {"OneParameter", "Lock"},
           SplitState(SetChunk(d, "par", mKWSize, Len(mStr) - mKWSize))
    PROVE  FieldsRight
  <1> DEFINE l == <<Field("par", <<>>)>>
             R == SetChunk(d, "par", mKWSize, Len(mStr) - mKWSize)
  <1>1. Layout(mType) = l /\ TailOf(mType) = 0 /\ mType # "SR" /\ mType \notin Searches
    <2>1. CASE mType = "OneParameter"
      BY <2>1 DEF Layout, TailOf, Searches
    <2>2. CASE mType = "Lock"
      BY <2>2 DEF Layout, TailOf, Searches
    <2> QED
      BY <2>1, <2>2
  <1>2. IsDivision(d) /\ d.err = FALSE
    BY DEF Given
  <1>3. At2(R, "par", mKWSize, Len(mStr) - mKWSize) /\ R.err = FALSE
    BY <1>2, ChunkSet
  <1>4. /\ R.ch = chunk /\ mError = FALSE /\ mKWSize \in 0 .. Len(mStr) /\ Len(mStr) \in Nat
        /\ mKWSize \in mKWSize .. Len(mStr)
    BY <1>3 DEF SplitState
  <1>5. Len(l) = 0 + 1 /\ l[0 + 1].n = "par" /\ DOMAIN l = {1} /\ IsLayout(l, 0)
    BY FieldIs DEF IsLayout
  <1> DEFINE pos == <<>>
             x == mKWSize
  <1>6. x = Past(pos, l, mKWSize, 0) + SkipAt(l, 0) /\ CutInto(R, mStr, mKWSize, l, 0, pos)
    BY <1>4 DEF Past, SkipAt, CutInto
  <1>7. At2(R, l[0 + 1].n, x, Len(mStr) - x - TailOf(mType))
    <2>1. Len(mStr) - x - TailOf(mType) = Len(mStr) - mKWSize
      BY <1>1, <1>4
    <2> HIDE DEF R
    <2> QED
      BY <1>3, <1>5, <2>1
  <1> HIDE DEF l, R, pos
  <1>8. Tiled(l) /\ Valid(chunk[l[0 + 1].n])
    BY <1>1, <1>4, <1>5, <1>6, <1>7, TilesAre
  <1>9. \A f \in Range(l) : Valid(chunk[f.n])
    BY <1>5, <1>8 DEF Range
  <1> QED
    BY <1>1, <1>4, <1>8, <1>9 DEF FieldsRight, Searches

LEMMA HoldsMyINFO ==
    ASSUME NEW S, mStr \in Seq(S), NEW m, NEW d, Given(m, d), mType = "MyINFO",
           SplitState(DivideBy(Steps(mType), m, d))
    PROVE  FieldsRight
  <1> DEFINE l == Layout("MyINFO")
             R == DivideBy(Steps("MyINFO"), m, d)
             n == Len(mStr)
  <1>1. mKWSize \in Nat /\ IsText(m, mStr, n, mKWSize) /\ IsDivision(d) /\ d.err = FALSE
    BY DEF Given
  <1>2. /\ mKWSize \in 0 .. n /\ R.ch = chunk /\ R.err = mError /\ n \in Nat /\ mKWSize <= n
        /\ mError \in BOOLEAN
    BY DEF SplitState, IsDivision
  <1>3. MyINFOCut(R, mStr, n, mKWSize, l)
    BY <1>1, <1>2, MyINFODivided
  <1>4. IsLayout(l, 5) /\ Len(l) = 6 /\ l[5].d = Dollar /\ l[5].skip = 0 /\ l[6].n = "size"
    BY MyINFOFields
  <1>a. DOMAIN l = 1 .. 6
    BY DEF Layout
  <1>5. ~Plain(mType) /\ mType # "SR" /\ mType \notin Searches /\ TailOf(mType) = 1 /\ Layout(mType) = l
    BY DEF Plain, Searches, TailOf
  <1> HIDE DEF l, R
  <1>6. ASSUME mError = FALSE
        PROVE  /\ Tiled(l)
               /\ \A f \in Range(l) : Valid(chunk[f.n]) \/ (f.n = "size" /\ mType = "MyINFO" /\ Last(mStr) = "$")
    <2>1. PICK pos : LET x == Past(pos, l, mKWSize, 5) IN
                     CutInto(R, mStr, mKWSize, l, 5, pos) /\ x \in mKWSize .. n /\ At2(R, "size", x, n - x - 1)
      BY <1>2, <1>3, <1>6 DEF MyINFOCut
    <2> DEFINE x == Past(pos, l, mKWSize, 5)
    <2>2. CutInto(R, mStr, mKWSize, l, 5, pos) /\ x \in mKWSize .. n /\ At2(R, "size", x, n - x - 1)
      BY <2>1
    <2>3. x = pos[5] + 1 /\ pos[5] \in Nat /\ Is(mStr, <<"$">>, pos[5])
      <3>1. 5 \in 1 .. 5 /\ Len(Dollar) = 1 /\ Dollar = <<"$">>
        BY DEF Dollar
      <3>a. CutInto(R, mStr, mKWSize, l, 5, pos) /\ mKWSize \in 0 .. Len(mStr)
        BY <1>2, <2>2 DEF n
      <3>b. \A i \in 1 .. 5 :
              /\ Valid(chunk[l[i].n]) /\ chunk[l[i].n][1] = FieldFrom(pos, l, mKWSize, i)
              /\ EndOf(l[i].n) = pos[i] /\ pos[i] \in Nat /\ pos[i] + Len(l[i].d) <= Len(mStr)
              /\ Is(mStr, l[i].d, EndOf(l[i].n))
        BY <1>2, <1>4, <3>a, CutTiles
      <3>2. EndOf(l[5].n) = pos[5] /\ pos[5] \in Nat /\ Is(mStr, l[5].d, EndOf(l[5].n))
        BY <3>1, <3>b
      <3> QED
        BY <1>4, <3>1, <3>2 DEF Past
    <2> HIDE DEF x
    <2>4. x = Past(pos, l, mKWSize, 5) + SkipAt(l, 5)
      <3>1. SkipAt(l, 5) = 0
        BY <1>4 DEF SkipAt
      <3>2. x + 0 = x
        BY <2>3
      <3> QED
        BY <3>1, <3>2 DEF x
    <2>5. At2(R, l[5 + 1].n, x, Len(mStr) - x - TailOf(mType))
      <3>1. 5 + 1 = 6
        OBVIOUS
      <3> QED
        BY <1>4, <1>5, <2>2, <3>1
    <2>6. Tiled(l) /\ \A i \in 1 .. 5 : Valid(chunk[l[i].n])
      <3>1. Len(l) = 5 + 1
        BY <1>4
      <3> QED
        BY <1>2, <1>4, <2>2, <2>4, <2>5, <3>1, TilesAre
    <2>7. Valid(chunk["size"]) \/ Last(mStr) = "$"
      <3>1. chunk["size"][1] = x /\ chunk["size"][2] = n - x - 1
        BY <1>2, <2>2 DEF At2
      <3>2. CASE x < n
        <4> DEFINE c == chunk["size"]
        <4>1. c[1] = x /\ c[2] = n - x - 1
          BY <3>1
        <4> HIDE DEF c
        <4>2. c[1] >= 0 /\ c[2] >= 0 /\ c[1] <= Len(mStr) /\ c[2] <= Len(mStr)
          BY <1>2, <2>2, <3>2, <4>1
        <4>3. Valid(c)
          BY <4>2 DEF Valid
        <4> QED
          BY <4>3 DEF c
      <3>3. CASE x >= n
        <4>1. pos[5] + 1 = Len(mStr) /\ pos[5] \in Int
          BY <1>2, <2>2, <2>3, <3>3
        <4>2. mStr[pos[5] + 1] = "$"
          BY <2>3, <4>1, IsLetter
        <4> QED
          BY <4>1, <4>2 DEF Last
      <3> QED
        BY <1>2, <2>2, <3>2, <3>3
    <2>8. ASSUME NEW f \in Range(l)
          PROVE  Valid(chunk[f.n]) \/ (f.n = "size" /\ mType = "MyINFO" /\ Last(mStr) = "$")
      <3>1. PICK i \in 1 .. 6 : f = l[i]
        BY <1>a DEF Range
      <3>2. CASE i = 6
        BY <1>4, <2>7, <3>1, <3>2
      <3>3. CASE i # 6
        <4>1. i \in 1 .. 5
          BY <3>3
        <4> QED
          BY <2>6, <3>1, <4>1
      <3> QED
        BY <3>2, <3>3
    <2> QED
      BY <2>6, <2>8
  <1> QED
    BY <1>2, <1>5, <1>6 DEF FieldsRight, Searches

\* A search whose middle begins after the k-th delimiter, and is then divided at its last question mark.
LEMMA SearchHolds ==
    ASSUME NEW S, mStr \in Seq(S), NEW m, mKWSize \in Nat, IsText(m, mStr, Len(mStr), mKWSize),
           mType \in Searches, NEW l, l = Layout(mType), NEW k, IsLayout(l, k), k >= 1, Len(l) = k + 2, l[k].skip = 0,
           l[k + 1] = Field("limits", <<>>), l[k + 2] = Field("pattern", <<>>),
           \A i \in 1 .. k : l[i].n \notin {"limits", "pattern"},
           NEW e, IsDivision(e), e.err = TRUE \/ CutSoFar(e, mStr, Len(mStr), mKWSize, l, k, 0, "query"),
           NEW f, f = Divide(e, m, SplitEnd("query", Mark, "limits", "pattern")),
           NEW R, R = Divide(f, m, Trim("limits", -1)), SplitState(R)
    PROVE  FieldsRight
  <1>1. /\ stage = "split" /\ strings = <<>> /\ mKWSize \in 0 .. Len(mStr)
        /\ R.ch = chunk /\ R.err = mError /\ mError \in BOOLEAN
    BY DEF SplitState, IsDivision
  <1>2. TailOf(mType) = 0 /\ mType # "SR" /\ ~Plain(mType)
    BY DEF TailOf, Searches, Plain
  <1>3. ASSUME mError = FALSE
        PROVE  /\ Tiled(l) /\ \A g \in Range(l) : Valid(chunk[g.n])
               /\ ChunkString("limits") # <<>> /\ Last(ChunkString("limits")) = "?"
               /\ "?" \notin Range(ChunkString("pattern"))
    <2>1. IsDivision(f) /\ (e.err = TRUE => f.err = TRUE)
      BY ErrorStays
    <2>2. f.err = TRUE => R.err = TRUE
      BY <2>1, ErrorStays
    <2>3. CutSoFar(e, mStr, Len(mStr), mKWSize, l, k, 0, "query")
      BY <1>1, <1>3, <2>1, <2>2
    <2>4. \E pos, i : SearchCut(R, mStr, Len(mStr), mKWSize, l, k, pos, i)
      BY <1>1, <1>3, <2>3, SearchEnds
    <2>5. PICK pos, i : SearchCut(R, mStr, Len(mStr), mKWSize, l, k, pos, i)
      BY <2>4
    <2> QED
      BY <1>1, <1>2, <2>5, SearchRight
  <1> QED
    BY <1>1, <1>2, <1>3 DEF FieldsRight

LEMMA ThreeSteps ==
    ASSUME NEW m, NEW d, NEW a, NEW b, NEW c
    PROVE  DivideBy(<<a, b, c>>, m, d) = Divide(Divide(Divide(d, m, a), m, b), m, c)
  <1> DEFINE q == <<a, b, c>>
  <1>1. Len(q) = 3 /\ q[0 + 1] = a /\ q[1 + 1] = b /\ q[2 + 1] = c
    OBVIOUS
  <1> HIDE DEF q
  <1>2. PICK g : /\ g[0] = d /\ DivideBy(q, m, d) = g[3]
                 /\ \A i \in 0 .. 3 - 1 : g[i + 1] = Divide(g[i], m, q[i + 1])
    <2>1. 3 \in 0 .. 7
      OBVIOUS
    <2> QED
      BY <1>1, <2>1, ChainOf
  <1>3. g[0 + 1] = Divide(g[0], m, a) /\ g[1 + 1] = Divide(g[1], m, b) /\ g[2 + 1] = Divide(g[2], m, c)
    BY <1>1, <1>2
  <1>4. g[1] = Divide(d, m, a) /\ g[2] = Divide(g[1], m, b) /\ g[3] = Divide(g[2], m, c)
    BY <1>2, <1>3
  <1> QED
    BY <1>2, <1>4 DEF q

LEMMA FiveSteps ==
    ASSUME NEW m, NEW d, NEW a, NEW b, NEW c, NEW u, NEW v
    PROVE  DivideBy(<<a, b, c, u, v>>, m, d)
             = Divide(Divide(Divide(Divide(Divide(d, m, a), m, b), m, c), m, u), m, v)
  <1> DEFINE q == <<a, b, c, u, v>>
  <1>1. Len(q) = 5 /\ q[0 + 1] = a /\ q[1 + 1] = b /\ q[2 + 1] = c /\ q[3 + 1] = u /\ q[4 + 1] = v
    OBVIOUS
  <1> HIDE DEF q
  <1>2. PICK g : /\ g[0] = d /\ DivideBy(q, m, d) = g[5]
                 /\ \A i \in 0 .. 5 - 1 : g[i + 1] = Divide(g[i], m, q[i + 1])
    <2>1. 5 \in 0 .. 7
      OBVIOUS
    <2> QED
      BY <1>1, <2>1, ChainOf
  <1>3. /\ g[0 + 1] = Divide(g[0], m, a) /\ g[1 + 1] = Divide(g[1], m, b) /\ g[2 + 1] = Divide(g[2], m, c)
        /\ g[3 + 1] = Divide(g[3], m, u) /\ g[4 + 1] = Divide(g[4], m, v)
    BY <1>1, <1>2
  <1>4. /\ g[1] = Divide(d, m, a) /\ g[2] = Divide(g[1], m, b) /\ g[3] = Divide(g[2], m, c)
        /\ g[4] = Divide(g[3], m, u) /\ g[5] = Divide(g[4], m, v)
    BY <1>2, <1>3
  <1> QED
    BY <1>2, <1>4 DEF q

LEMMA HoldsPassive ==
    ASSUME NEW S, mStr \in Seq(S), NEW m, NEW d, Given(m, d), mType \in {"SearchPas", "MSearchPas"},
           SplitState(DivideBy(Steps(mType), m, d))
    PROVE  FieldsRight
  <1> DEFINE l == <<Field("nick", Blank), Field("limits", <<>>), Field("pattern", <<>>)>>
             n == Len(mStr)
             first == Start(Blank, "nick", "query")
             second == SplitEnd("query", Mark, "limits", "pattern")
             third == Trim("limits", -1)
             e == Divide(d, m, first)
             f == Divide(e, m, second)
             R == Divide(f, m, third)
  <1>1. mKWSize \in Nat /\ IsText(m, mStr, n, mKWSize) /\ IsDivision(d) /\ d.err = FALSE
    BY DEF Given
  <1>2. Steps(mType) = <<first, second, third>> /\ Layout(mType) = l /\ mType \in Searches
    <2>1. CASE mType = "SearchPas"
      BY <2>1 DEF Steps, PassiveSteps, Layout, Searches
    <2>2. CASE mType = "MSearchPas"
      BY <2>2 DEF Steps, PassiveSteps, Layout, Searches
    <2> QED
      BY <2>1, <2>2
  <1>3. SplitState(R)
    BY <1>2, ThreeSteps
  <1>4. /\ Len(l) = 1 + 2 /\ l[1].n = "nick" /\ l[1].d = Blank /\ l[1].skip = 0
        /\ l[1 + 1] = Field("limits", <<>>) /\ l[1 + 2] = Field("pattern", <<>>)
    BY FieldIs
  <1> HIDE DEF l
  <1>5. IsLayout(l, 1)
    BY <1>4, MarksAre DEF IsLayout, IsMark
  <1>6. \A i \in 1 .. 1 : l[i].n \notin {"limits", "pattern"} /\ l[i].n # "query"
    BY <1>4
  <1>7. mKWSize \in 0 .. n /\ n \in Nat
    BY <1>1, <1>3 DEF SplitState
  <1>8. Cuts(d, mStr, n, mKWSize, l, 0, SkipAt(l, 0), Nameless, 1)
    BY <1>1, <1>7, CutNothing
  <1>9. Cuts(Divide(d, m, Split(Nameless, l[0 + 1].d, l[0 + 1].n, "query")), mStr, n, mKWSize, l, 0 + 1, 0, "query", 1)
    <2>1. 0 \in 0 .. 1 /\ 0 < 1 /\ Named("query") /\ \A i \in 1 .. 0 + 1 : l[i].n # "query"
      BY <1>6, TheyAreNamed
    <2> QED
      BY <1>1, <1>5, <1>8, <2>1, NextField
  <1>10. Cuts(e, mStr, n, mKWSize, l, 1, 0, "query", 1)
    <2>1. first = Split(Nameless, Blank, "nick", "query")
      BY StartIs
    <2> QED
      BY <1>4, <1>9, <2>1
  <1>11. IsDivision(e) /\ (e.err = TRUE \/ CutSoFar(e, mStr, n, mKWSize, l, 1, 0, "query"))
    BY <1>10 DEF Cuts
  <1> HIDE DEF e, f, R, n
  <1>12. f = Divide(e, m, SplitEnd("query", Mark, "limits", "pattern")) /\ R = Divide(f, m, Trim("limits", -1))
    BY DEF f, R
  <1>13. l = Layout(mType) /\ mType \in Searches /\ 1 >= 1
    BY <1>2 DEF l
  <1>14. /\ IsText(m, mStr, Len(mStr), mKWSize) /\ mKWSize \in Nat /\ IsDivision(e)
         /\ e.err = TRUE \/ CutSoFar(e, mStr, Len(mStr), mKWSize, l, 1, 0, "query")
    BY <1>1, <1>11 DEF n
  <1>15. \A i \in 1 .. 1 : l[i].n \notin {"limits", "pattern"}
    BY <1>6
  <1> QED
    BY <1>3, <1>4, <1>5, <1>12, <1>13, <1>14, <1>15, SearchHolds

\* The address of an active search is divided inside what stands before the first blank.
LEMMA AddressCut ==
    ASSUME NEW S, NEW s \in Seq(S), NEW n, NEW m, NEW kw \in Nat, IsText(m, s, n, kw), kw <= n,
           NEW d, IsDivision(d), d.err = FALSE, NEW l, l[1].n = "ip", l[1].d = Colon,
           NEW e, e = Divide(d, m, Start(Blank, "addr", "query")),
           NEW f, f = Divide(e, m, Split("addr", Colon, "ip", "port"))
    PROVE  IsDivision(f) /\ (f.err = TRUE \/ CutSoFar(f, s, n, kw, l, 1, 0, "port"))
  <1>1. n \in Nat /\ Len(s) <= n /\ Len(s) \in Nat /\ kw \in 0 .. n
    BY DEF IsText
  <1>2. Splits(d, e, s, n, kw, Blank, "addr", "query")
    <2>1. Stands(d, Nameless, kw, n, kw)
      BY WholeStands
    <2>2. IsMark(Blank) /\ "addr" # "query" /\ Start(Blank, "addr", "query") = Split(Nameless, Blank, "addr", "query")
      BY MarksAre, StartIs
    <2>3. Blank \in Seq(LimLetters) /\ Len(Blank) >= 1
      BY <2>2 DEF IsMark
    <2> QED
      BY <1>1, <2>1, <2>2, <2>3, SplitIs
  <1>3. IsDivision(e)
    BY <1>2 DEF Splits
  <1>4. IsDivision(f) /\ (e.err = TRUE => f.err = TRUE)
    BY <1>3, ErrorStays
  <1>5. ASSUME e.err # TRUE, f.err # TRUE PROVE CutSoFar(f, s, n, kw, l, 1, 0, "port")
    <2>1. \E i : SplitsAt(d, e, s, n, kw, Blank, "addr", "query", i)
      BY <1>2, <1>5 DEF Splits, SplitsNot
    <2>2. PICK i : SplitsAt(d, e, s, n, kw, Blank, "addr", "query", i)
      BY <2>1
    <2>3. At2(e, "addr", kw, i - kw) /\ e.err = FALSE
      BY <2>2 DEF SplitsAt
    <2> DEFINE step == Split("addr", Colon, "ip", "port")
               length == Chunk(e, "addr")[2]
    <2>4. /\ step.do = "split" /\ step.of = "addr" /\ step.lim = Colon /\ step.a = "ip" /\ step.b = "port"
          /\ step.left = TRUE
      BY DEF Split
    <2>5. Chunk(e, "addr")[1] = kw
      BY <2>3, ChunkAt
    <2> HIDE DEF step, length
    <2>6. f = SplitOnTwo(e, m, step)
      BY <2>4 DEF Divide, step
    <2>7. step.of # Nameless
      BY <2>4 DEF Nameless
    <2>8. f = SplitAt(e, m, kw, Colon, "ip", "port", length, TRUE)
      BY <2>4, <2>5, <2>6, <2>7 DEF SplitOnTwo, length, Nameless
    <2>9. Colon \in Seq(LimLetters) /\ Len(Colon) = 1 /\ "ip" # "port"
      BY MarksAre DEF IsMark, Colon
    <2>10. \E j : SplitsAt(e, f, s, n, kw, Colon, "ip", "port", j)
      <3>1. SplitAt(e, m, kw, Colon, "ip", "port", length, TRUE).err # TRUE
        BY <1>5, <2>8
      <3>2. \E j : SplitsAt(e, SplitAt(e, m, kw, Colon, "ip", "port", length, TRUE), s, n, kw, Colon, "ip", "port", j)
        BY ONLY <1>3, <2>9, <3>1, IsText(m, s, n, kw), s \in Seq(S), kw \in Nat, SplitSucceeds
      <3> QED
        BY <2>8, <3>2
    <2>11. PICK j : SplitsAt(e, f, s, n, kw, Colon, "ip", "port", j)
      BY <2>10
    <2>12. /\ FirstAt(s, Colon, kw, j) /\ f.err = FALSE
           /\ At2(f, "ip", kw, j - kw) /\ At2(f, "port", j + 1, n - j - 1)
      BY <2>3, <2>9, <2>11 DEF SplitsAt
    <2>13. j \in Int /\ kw <= j /\ Is(s, Colon, j)
      BY <2>12 DEF FirstAt
    <2>14. j + 1 <= Len(s)
      BY <2>9, <2>13, IsWithin
    <2> DEFINE pos == <<j>>
               x == Past(pos, l, kw, 1) + 0
    <2>15. pos[1] = j /\ FieldFrom(pos, l, kw, 1) = kw
      BY DEF FieldFrom
    <2>16. x = j + 1
      BY <2>9, <2>13 DEF Past
    <2>17. CutInto(f, s, kw, l, 1, pos)
      BY <2>12, <2>15 DEF CutInto
    <2>18. x \in kw .. n /\ n - x = n - j - 1
      BY <1>1, <2>13, <2>14, <2>16
    <2> HIDE DEF x, pos
    <2>19. Stands(f, "port", x, n, kw)
      <3>1. Named("port")
        BY TheyAreNamed
      <3>2. At2(f, "port", x, n - x)
        BY <2>12, <2>16, <2>18
      <3> QED
        BY <3>1, <3>2, NamedStands
    <2> QED
      BY <2>12, <2>17, <2>18, <2>19 DEF CutSoFar, x
  <1> QED
    BY <1>4, <1>5

LEMMA HoldsActive ==
    ASSUME NEW S, mStr \in Seq(S), NEW m, NEW d, Given(m, d), mType \in {"Search", "MSearch"},
           SplitState(DivideBy(Steps(mType), m, d))
    PROVE  FieldsRight
  <1> DEFINE l == <<Field("ip", Colon), Field("port", Blank), Field("limits", <<>>), Field("pattern", <<>>)>>
             n == Len(mStr)
             s1 == Start(Blank, "addr", "query")
             s2 == Split("addr", Colon, "ip", "port")
             s3 == Split("port", Blank, "port", "query")
             s4 == SplitEnd("query", Mark, "limits", "pattern")
             s5 == Trim("limits", -1)
             a == Divide(d, m, s1)
             b == Divide(a, m, s2)
             e == Divide(b, m, s3)
             f == Divide(e, m, s4)
             R == Divide(f, m, s5)
  <1>1. mKWSize \in Nat /\ IsText(m, mStr, n, mKWSize) /\ IsDivision(d) /\ d.err = FALSE
    BY DEF Given
  <1>2. Steps(mType) = <<s1, s2, s3, s4, s5>> /\ Layout(mType) = l /\ mType \in Searches
    <2>1. CASE mType = "Search"
      BY <2>1 DEF Steps, ActiveSteps, Layout, Searches
    <2>2. CASE mType = "MSearch"
      BY <2>2 DEF Steps, ActiveSteps, Layout, Searches
    <2> QED
      BY <2>1, <2>2
  <1>3. SplitState(R)
    BY <1>2, FiveSteps
  <1>4. /\ Len(l) = 2 + 2 /\ l[1].n = "ip" /\ l[1].d = Colon /\ l[1].skip = 0
        /\ l[2].n = "port" /\ l[2].d = Blank /\ l[2].skip = 0
        /\ l[2 + 1] = Field("limits", <<>>) /\ l[2 + 2] = Field("pattern", <<>>)
    BY FieldIs
  <1> HIDE DEF l
  <1>5. IsLayout(l, 2)
    <2>1. \A i \in 1 .. 2 : i = 1 \/ i = 2
      OBVIOUS
    <2> QED
      BY <1>4, <2>1, MarksAre DEF IsLayout, IsMark
  <1>6. \A i \in 1 .. 2 : l[i].n \notin {"limits", "pattern"} /\ l[i].n # "query"
    <2>1. \A i \in 1 .. 2 : i = 1 \/ i = 2
      OBVIOUS
    <2> QED
      BY <1>4, <2>1
  <1>7. mKWSize \in 0 .. n /\ n \in Nat /\ mKWSize <= n
    BY <1>1, <1>3 DEF SplitState
  <1>8. IsDivision(b) /\ (b.err = TRUE \/ CutSoFar(b, mStr, n, mKWSize, l, 1, 0, "port"))
    BY <1>1, <1>4, <1>7, AddressCut
  <1>9. IsDivision(e) /\ (e.err = TRUE \/ CutSoFar(e, mStr, n, mKWSize, l, 2, 0, "query"))
    <2>1. IsDivision(e) /\ (b.err = TRUE => e.err = TRUE)
      BY <1>8, ErrorStays
    <2>2. ASSUME CutSoFar(b, mStr, n, mKWSize, l, 1, 0, "port")
          PROVE  e.err = TRUE \/ CutSoFar(e, mStr, n, mKWSize, l, 2, 0, "query")
      <3>1. SkipAt(l, 1) = 0 /\ 1 \in 0 .. 2 /\ 1 < 2 /\ Named("query") /\ 1 + 1 = 2
        BY <1>4, TheyAreNamed DEF SkipAt
      <3>2. CutSoFar(b, mStr, n, mKWSize, l, 1, SkipAt(l, 1), "port")
        BY <2>2, <3>1
      <3>3. \A i \in 1 .. 1 + 1 : l[i].n # "query"
        BY <1>6, <3>1
      <3> DEFINE r == Divide(b, m, Split("port", l[1 + 1].d, l[1 + 1].n, "query"))
      <3>4. r = e
        BY <1>4, <3>1
      <3> HIDE DEF b
      <3>5. CutSoFar(r, mStr, n, mKWSize, l, 1 + 1, 0, "query") \/ r.err = TRUE
        BY <1>1, <1>5, <1>8, <3>1, <3>2, <3>3, OneFieldMore
      <3> QED
        BY <3>1, <3>4, <3>5
    <2> QED
      BY <1>8, <2>1, <2>2
  <1> HIDE DEF a, b, e, f, R, n
  <1>12. f = Divide(e, m, SplitEnd("query", Mark, "limits", "pattern")) /\ R = Divide(f, m, Trim("limits", -1))
    BY DEF f, R
  <1>13. l = Layout(mType) /\ mType \in Searches /\ 2 >= 1
    BY <1>2 DEF l
  <1>14. /\ IsText(m, mStr, Len(mStr), mKWSize) /\ mKWSize \in Nat /\ IsDivision(e)
         /\ e.err = TRUE \/ CutSoFar(e, mStr, Len(mStr), mKWSize, l, 2, 0, "query")
    BY <1>1, <1>9 DEF n
  <1>15. \A i \in 1 .. 2 : l[i].n \notin {"limits", "pattern"}
    BY <1>6
  <1> QED
    BY <1>3, <1>4, <1>5, <1>12, <1>13, <1>14, <1>15, SearchHolds

LEMMA ErrorPut ==
    ASSUME NEW d, IsDivision(d), NEW v \in BOOLEAN
    PROVE  LET p == [d EXCEPT !.err = v] IN IsDivision(p) /\ p.ch = d.ch /\ p.err = v
  <1> DEFINE p == [d EXCEPT !.err = v]
  <1>1. PICK c, e : d = [ch |-> c, err |-> e]
    BY DEF IsDivision
  <1>2. p = [ch |-> c, err |-> v] /\ d.ch = c
    BY <1>1, ErrorSet
  <1> HIDE DEF p
  <1> QED
    BY <1>2 DEF p, IsDivision

\* The middle of a search result is divided without touching who sent it and whom it is for.
LEMMA SizeKeeps ==
    ASSUME NEW d, IsDivision(d), NEW m
    PROVE  LET r == SizeOfResult(d, m) IN
           /\ IsDivision(r) /\ (d.err = TRUE => r.err = TRUE)
           /\ Keeps2(d, r, {"size", "info", "slots", "free", "all"})
  <1> DEFINE names == {"size", "info", "slots", "free", "all"}
             p == [d EXCEPT !.err = FALSE]
             s1 == Split("info", Five, "size", "info")
             s2 == Split("size", Blank, "size", "slots")
             s3 == Split("slots", <<"/">>, "free", "all")
             sized == SplitOnTwo(p, m, s1)
             q == [sized EXCEPT !.err = d.err]
             slots == SplitOnTwo(q, m, s2)
             final == SplitOnTwo(slots, m, s3)
             unsized == SetChunk(d, "size", 0, 0)
             r == SizeOfResult(d, m)
  <1>1. r = IF sized.err THEN unsized ELSE final
    BY DEF SizeOfResult
  <1>2. /\ s1.a = "size" /\ s1.b = "info" /\ s2.a = "size" /\ s2.b = "slots" /\ s3.a = "free" /\ s3.b = "all"
    BY DEF Split
  <1>3. IsDivision(p) /\ p.ch = d.ch
    BY ErrorPut
  <1> HIDE DEF r, p, s1, s2, s3
  <1>4. IsDivision(sized) /\ Keeps2(p, sized, {s1.a, s1.b})
    BY <1>3, SplitKeeps
  <1> HIDE DEF sized
  <1>5. IsDivision(q) /\ q.ch = sized.ch /\ q.err = d.err
    BY <1>4, ErrorPut DEF IsDivision
  <1> HIDE DEF q
  <1>6. IsDivision(slots) /\ (q.err = TRUE => slots.err = TRUE) /\ Keeps2(q, slots, {s2.a, s2.b})
    BY <1>5, SplitKeeps
  <1> HIDE DEF slots
  <1>7. IsDivision(final) /\ (slots.err = TRUE => final.err = TRUE) /\ Keeps2(slots, final, {s3.a, s3.b})
    BY <1>6, SplitKeeps
  <1>8. IsDivision(unsized) /\ unsized.err = d.err /\ Keeps2(d, unsized, {"size"})
    BY ChunkSet
  <1> HIDE DEF final, unsized
  <1>9. Keeps2(d, final, names)
    <2>1. Keeps2(d, p, {})
      BY <1>3 DEF Keeps2, At2
    <2>2. Keeps2(sized, q, {})
      BY <1>5 DEF Keeps2, At2
    <2> QED
      BY <1>2, <1>4, <1>6, <1>7, <2>1, <2>2 DEF Keeps2
  <1>10. Keeps2(d, unsized, names)
    BY <1>8 DEF Keeps2
  <1>11. CASE sized.err = TRUE
    BY <1>1, <1>8, <1>10, <1>11 DEF r
  <1>12. CASE sized.err # TRUE
    BY <1>1, <1>4, <1>5, <1>6, <1>7, <1>9, <1>12 DEF r, IsDivision
  <1> QED
    BY <1>11, <1>12

\* Where the pieces of a search result lie.
ResultCut(r, s, n, kw, i, j) ==
    /\ FirstAt(s, Blank, kw, i) /\ At2(r, "from", kw, i - kw)
    /\ j \in i .. n - 1 /\ s[j + 1] = "5" /\ \A h \in j + 2 .. n : s[h] # "5"
    /\ At2(r, "to", j + 1, n - j - 1)

LEMMA ResultDivided ==
    ASSUME NEW S, NEW s \in Seq(S), NEW n, n = Len(s), NEW m, NEW kw \in 0 .. n, IsText(m, s, n, kw),
           NEW d, IsDivision(d), d.err = FALSE,
           NEW r, r = SizeOfResult(DivideBy(ResultSteps, m, d), m)
    PROVE  IsDivision(r) /\ (r.err # TRUE => \E i, j : ResultCut(r, s, n, kw, i, j))
  <1> DEFINE s1 == Start(Blank, "from", "path")
             s2 == Split("path", Five, "path", "size")
             s3 == SplitEnd("size", Five, "info", "to")
             a == Divide(d, m, s1)
             b == Divide(a, m, s2)
             e == Divide(b, m, s3)
  <1>1. r = SizeOfResult(e, m)
    BY ThreeSteps DEF ResultSteps
  <1>2. n \in Nat /\ kw \in Nat
    BY DEF IsText
  <1>3. Splits(d, a, s, n, kw, Blank, "from", "path")
    <2>1. Stands(d, Nameless, kw, n, kw)
      BY WholeStands
    <2>2. Blank \in Seq(LimLetters) /\ Len(Blank) >= 1 /\ "from" # "path" /\ s1 = Split(Nameless, Blank, "from", "path")
      BY MarksAre, StartIs DEF IsMark
    <2> QED
      BY <2>1, <2>2, SplitIs
  <1>4. IsDivision(a)
    BY <1>3 DEF Splits
  <1> HIDE DEF a
  <1>5. IsDivision(b) /\ (a.err = TRUE => b.err = TRUE)
    BY <1>4, ErrorStays
  <1>b. b = Divide(a, m, s2)
    OBVIOUS
  <1> HIDE DEF b
  <1>6. IsDivision(e) /\ (b.err = TRUE => e.err = TRUE)
    BY <1>5, ErrorStays
  <1>e. e = Divide(b, m, s3)
    OBVIOUS
  <1> HIDE DEF e, s2, s3
  <1>7. /\ IsDivision(r) /\ (e.err = TRUE => r.err = TRUE)
        /\ Keeps2(e, r, {"size", "info", "slots", "free", "all"})
    BY <1>1, <1>6, SizeKeeps
  <1>8. ASSUME r.err # TRUE PROVE \E i, j : ResultCut(r, s, n, kw, i, j)
    <2>1. a.err # TRUE /\ b.err # TRUE /\ e.err # TRUE
      BY <1>5, <1>6, <1>7, <1>8
    <2>2. \E i : SplitsAt(d, a, s, n, kw, Blank, "from", "path", i)
      BY <1>3, <2>1 DEF Splits, SplitsNot
    <2>3. PICK i : SplitsAt(d, a, s, n, kw, Blank, "from", "path", i)
      BY <2>2
    <2>4. FirstAt(s, Blank, kw, i) /\ At2(a, "from", kw, i - kw) /\ At2(a, "path", i + 1, n - i - 1)
      BY <2>3 DEF SplitsAt, Blank
    <2>5. i \in Int /\ kw <= i /\ i + 1 <= n
      <3>1. Len(Blank) = 1 /\ Blank \in Seq(LimLetters) /\ i \in Int /\ kw <= i /\ Is(s, Blank, i)
        BY <2>4, MarksAre DEF IsMark, Blank, FirstAt
      <3> QED
        BY <3>1, IsWithin
    <2> DEFINE x == i + 1
    <2>6. x \in 0 .. n /\ x \in Nat /\ n - i - 1 = n - x
      BY <1>2, <2>5
    <2> HIDE DEF x
    <2>7. Stands(a, "path", x, n, kw)
      <3>1. Named("path") /\ At2(a, "path", x, n - x)
        BY <2>4, <2>6, TheyAreNamed DEF x
      <3> QED
        BY <3>1, NamedStands
    <2>8. Splits(a, b, s, n, x, Five, "path", "size")
      <3>1. Five \in Seq(LimLetters) /\ Len(Five) >= 1 /\ "path" # "size"
        BY MarksAre DEF IsMark
      <3> QED
        BY <1>4, <1>b, <2>6, <2>7, <3>1, SplitIs DEF s2
    <2>9. \E k : SplitsAt(a, b, s, n, x, Five, "path", "size", k)
      BY <2>1, <2>8 DEF Splits, SplitsNot
    <2>10. PICK k : SplitsAt(a, b, s, n, x, Five, "path", "size", k)
      BY <2>9
    <2>11. FirstAt(s, Five, x, k) /\ At2(b, "size", k + 1, n - k - 1) /\ Keeps2(a, b, {"path", "size"})
      BY <2>10 DEF SplitsAt, Five
    <2>12. k \in Int /\ x <= k /\ k + 1 <= n
      <3>1. Len(Five) = 1 /\ Five \in Seq(LimLetters) /\ k \in Int /\ x <= k /\ Is(s, Five, k)
        BY <2>11, MarksAre DEF IsMark, Five, FirstAt
      <3> QED
        BY <3>1, IsWithin
    <2> DEFINE y == k + 1
    <2>13. y \in 0 .. n /\ n - k - 1 = n - y
      BY <1>2, <2>6, <2>12
    <2> HIDE DEF y
    <2>14. At2(b, "size", y, n - y)
      BY <2>11, <2>13 DEF y
    <2>15. EndSplit(b, e, s, n, y, "5", "info", "to")
      <3>1. Named("size") /\ "info" # "to" /\ s3 = SplitEnd("size", <<"5">>, "info", "to")
        BY TheyAreNamed DEF s3, Five
      <3>2. Divide(b, m, SplitEnd("size", <<"5">>, "info", "to")).err # TRUE
        BY <1>e, <2>1, <3>1
      <3>3. EndSplit(b, Divide(b, m, SplitEnd("size", <<"5">>, "info", "to")), s, n, y, "5", "info", "to")
        BY ONLY <1>5, <2>13, <2>14, <3>1, <3>2, SplitEndIs, s \in Seq(S), n = Len(s), IsText(m, s, n, kw)
      <3> QED
        BY <1>e, <3>1, <3>3
    <2>16. PICK j \in y .. n - 1 :
              /\ s[j + 1] = "5" /\ \A h \in j + 2 .. n : s[h] # "5"
              /\ At2(e, "to", j + 1, n - j - 1)
      BY <2>15 DEF EndSplit
    <2>17. Keeps2(b, e, {"info", "to"})
      BY <2>15 DEF EndSplit
    <2>18. At2(r, "from", kw, i - kw)
      <3>1. "from" \notin {"path", "size"} /\ "from" \notin {"info", "to"}
            /\ "from" \notin {"size", "info", "slots", "free", "all"}
        OBVIOUS
      <3>2. At2(b, "from", kw, i - kw)
        BY <2>4, <2>11, <3>1 DEF Keeps2
      <3>3. At2(e, "from", kw, i - kw)
        BY <2>17, <3>1, <3>2 DEF Keeps2
      <3> QED
        BY <1>7, <3>1, <3>3 DEF Keeps2
    <2>19. At2(r, "to", j + 1, n - j - 1)
      <3>1. "to" \notin {"size", "info", "slots", "free", "all"}
        OBVIOUS
      <3> QED
        BY <1>7, <2>16, <3>1 DEF Keeps2
    <2>20. j \in i .. n - 1
      BY <1>2, <2>5, <2>12, <2>13 DEF x, y
    <2>21. ResultCut(r, s, n, kw, i, j)
      BY <2>4, <2>16, <2>18, <2>19, <2>20 DEF ResultCut
    <2> QED
      BY <2>21
  <1> QED
    BY <1>7, <1>8

LEMMA HoldsResult ==
    ASSUME NEW S, mStr \in Seq(S), NEW m, NEW d, Given(m, d), mType = "SR",
           SplitState(SizeOfResult(DivideBy(Steps(mType), m, d), m))
    PROVE  FieldsRight
  <1> DEFINE R == SizeOfResult(DivideBy(ResultSteps, m, d), m)
             n == Len(mStr)
  <1>1. Steps(mType) = ResultSteps
    BY DEF Steps
  <1>2. SplitState(R)
    BY <1>1
  <1>a. R = SizeOfResult(DivideBy(ResultSteps, m, d), m)
    OBVIOUS
  <1> HIDE DEF R
  <1>3. /\ stage = "split" /\ strings = <<>> /\ mKWSize \in 0 .. n /\ n \in Nat
        /\ R.ch = chunk /\ R.err = mError /\ mError \in BOOLEAN
    BY <1>2 DEF SplitState, IsDivision
  <1>4. mType \notin Searches /\ ~Plain(mType)
    BY DEF Searches, Plain
  <1>5. IsText(m, mStr, n, mKWSize) /\ IsDivision(d) /\ d.err = FALSE
    BY DEF Given
  <1>6. R.err # TRUE => \E i, j : ResultCut(R, mStr, n, mKWSize, i, j)
    <2> HIDE DEF n
    <2>1. n = Len(mStr)
      BY DEF n
    <2> QED
      BY <1>3, <1>5, <1>a, <2>1, ResultDivided
  <1>7. ASSUME mError = FALSE
        PROVE  /\ chunk["from"][1] = mKWSize /\ Is(mStr, Blank, EndOf("from"))
               /\ EndOf("to") = Len(mStr) /\ Is(mStr, Five, chunk["to"][1] - 1)
               /\ "5" \notin Range(ChunkString("to"))
    <2>1. PICK i, j : ResultCut(R, mStr, n, mKWSize, i, j)
      BY <1>3, <1>6, <1>7
    <2>2. /\ i \in Int /\ mKWSize <= i /\ Is(mStr, Blank, i)
          /\ chunk["from"][1] = mKWSize /\ chunk["from"][2] = i - mKWSize
      BY <1>3, <2>1 DEF ResultCut, FirstAt, At2
    <2>3. /\ j \in i .. n - 1 /\ mStr[j + 1] = "5" /\ (\A h \in j + 2 .. n : mStr[h] # "5")
          /\ chunk["to"][1] = j + 1 /\ chunk["to"][2] = n - j - 1
      BY <1>3, <2>1 DEF ResultCut, At2
    <2>4. EndOf("from") = i
      BY <1>3, <2>2 DEF EndOf
    <2>5. EndOf("to") = n /\ chunk["to"][1] - 1 = j
      BY <1>3, <2>2, <2>3 DEF EndOf
    <2>6. Is(mStr, Five, j)
      <3>1. j \in Int /\ j >= 0 /\ j < Len(mStr)
        BY <1>3, <2>2, <2>3
      <3> QED
        BY <2>3, <3>1, IsLetter DEF Five
    <2>7. "5" \notin Range(ChunkString("to"))
      <3> DEFINE x == j + 1
                 y == n - j - 1
                 q == ChunkString("to")
      <3>1. x \in Nat /\ y \in Nat /\ x + y <= Len(mStr) /\ x + y = n /\ x + 1 = j + 2
        BY <1>3, <2>2, <2>3
      <3>2. "to" \notin DOMAIN strings
        BY <1>3
      <3>3. chunk["to"][1] = x /\ chunk["to"][2] = y
        BY <2>3
      <3> HIDE DEF x, y, q
      <3>4. q = SubSeq(mStr, x + 1, x + y)
        BY <3>1, <3>2, <3>3, StringOf DEF q
      <3>a. x \in Nat /\ y \in Nat /\ x + y <= Len(mStr)
        BY <3>1
      <3>5. q \in Seq(S) /\ Len(q) = y /\ \A h \in 1 .. y : q[h] = mStr[x + h]
        BY ONLY <3>a, <3>4, mStr \in Seq(S), PieceIs
      <3>6. ASSUME NEW h \in DOMAIN q PROVE q[h] # "5"
        <4>1. h \in 1 .. y /\ q[h] = mStr[x + h]
          BY <3>1, <3>5
        <4>2. x + h \in j + 2 .. n
          <5>1. h \in Int /\ 1 <= h /\ h <= y
            BY <3>1, <4>1
          <5>2. x + 1 <= x + h /\ x + h <= x + y /\ x + h \in Int
            BY <3>1, <5>1
          <5> QED
            BY <2>3, <3>1, <5>2
        <4> QED
          BY <2>3, <4>1, <4>2
      <3>7. "5" \notin Range(q)
        BY <3>6 DEF Range
      <3> QED
        BY <3>7 DEF q
    <2> QED
      BY <2>2, <2>4, <2>5, <2>6, <2>7
  <1> QED
    BY <1>3, <1>4, <1>7 DEF FieldsRight, Searches

-----------------------------------------------------------------------------
(* Message: FieldsRight, of every message *)

LEMMA KnownTypes ==
    ASSUME NEW t \in Known
    PROVE  t \in {"Chat", "ConnectToMe", "RevConnectToMe", "SR", "SearchPas", "Search", "SA", "SP", "MyINFO",
                  "ExtJSON", "OneParameter", "To", "GetINFO", "OpForceMove", "MSearchPas", "MSearch", "MCTo",
                  "Ban", "TempBan", "MyIP", "Lock", "IN"}
  <1> DEFINE n == Names
  <1>1. /\ n[1] = "ConnectToMe" /\ n[2] = "RevConnectToMe" /\ n[3] = "SR" /\ n[4] = "SearchPas"
        /\ n[5] = "Search" /\ n[6] = "SA" /\ n[7] = "SP" /\ n[8] = "MyINFO" /\ n[9] = "ExtJSON"
        /\ n[10] = "OneParameter" /\ n[11] = "To" /\ n[12] = "GetINFO" /\ n[13] = "OpForceMove"
        /\ n[14] = "MSearchPas" /\ n[15] = "MSearch" /\ n[16] = "MCTo" /\ n[17] = "Ban"
        /\ n[18] = "TempBan" /\ n[19] = "MyIP" /\ n[20] = "Lock" /\ n[21] = "IN"
    BY DEF Commands, Names
  <1>2. t = "Chat" \/ \E i \in Rows : t = n[i]
    BY KeywordOf
  <1> HIDE DEF n
  <1>3. \A i \in Rows : i \in {1, 2, 3, 4, 5, 6, 7, 8, 9, 10, 11, 12, 13, 14, 15, 16, 17, 18, 19, 20, 21}
    BY DEF Rows
  <1> QED
    BY <1>1, <1>2, <1>3

\* A message is divided in at most seven steps.
LEMMA FewSteps ==
    ASSUME NEW t \in Known
    PROVE  Len(Steps(t)) \in 0 .. 7
  <1>1. CASE t \in {"ConnectToMe", "SA", "MCTo", "TempBan"}
    BY <1>1 DEF Steps
  <1>2. CASE t \in {"RevConnectToMe", "SP", "ExtJSON", "MyIP", "Chat", "GetINFO", "Ban", "IN"}
    BY <1>2 DEF Steps
  <1>3. CASE t \in {"SR", "SearchPas", "MSearchPas"}
    BY <1>3 DEF Steps, ResultSteps, PassiveSteps
  <1>4. CASE t \in {"Search", "MSearch"}
    BY <1>4 DEF Steps, ActiveSteps
  <1>5. CASE t \in {"MyINFO", "To"}
    BY <1>5 DEF Steps, MyINFOSteps, ToSteps
  <1>6. CASE t = "OpForceMove"
    BY <1>6 DEF Steps, OpForceMoveSteps
  <1>7. CASE t \in {"OneParameter", "Lock"}
    BY <1>7 DEF Steps
  <1> QED
    BY <1>1, <1>2, <1>3, <1>4, <1>5, <1>6, <1>7, KnownTypes

\* What comes out of it is a division.
LEMMA StepsDivide ==
    ASSUME NEW q, NEW n \in 0 .. 7, Len(q) = n, NEW m, NEW d, IsDivision(d)
    PROVE  IsDivision(DivideBy(q, m, d))
  <1>1. PICK g : /\ g[0] = d /\ DivideBy(q, m, d) = g[n]
                 /\ \A i \in 0 .. n - 1 : g[i + 1] = Divide(g[i], m, q[i + 1])
    <2>1. PICK g : Chain(g, q, m, d)
      BY DividedBy
    <2>2. \A i \in 0 .. n - 1 : i + 1 \in 1 .. Len(q) /\ i + 1 - 1 = i
      OBVIOUS
    <2> QED
      BY <2>1, <2>2 DEF Chain
  <1>2. ASSUME NEW i \in 0 .. 6, i < n, IsDivision(g[i]) PROVE IsDivision(g[i + 1])
    <2>1. i \in 0 .. n - 1
      BY <1>2
    <2>2. g[i + 1] = Divide(g[i], m, q[i + 1])
      BY <1>1, <2>1
    <2> QED
      BY <1>2, <2>2, ErrorStays
  <1>4. \A i \in 0 .. 6 : i < n /\ IsDivision(g[i]) => IsDivision(g[i + 1])
    BY <1>2
  <1>5. IsDivision(g[0])
    BY <1>1
  <1>6. /\ 1 <= n => IsDivision(g[1])
        /\ 2 <= n => IsDivision(g[2])
        /\ 3 <= n => IsDivision(g[3])
        /\ 4 <= n => IsDivision(g[4])
    <2>1. 1 <= n => IsDivision(g[0 + 1])
      BY <1>4, <1>5
    <2>2. 2 <= n => IsDivision(g[1 + 1])
      BY <1>4, <2>1
    <2>3. 3 <= n => IsDivision(g[2 + 1])
      BY <1>4, <2>2
    <2>4. 4 <= n => IsDivision(g[3 + 1])
      BY <1>4, <2>3
    <2> QED
      BY <2>1, <2>2, <2>3, <2>4
  <1>7. /\ 5 <= n => IsDivision(g[5])
        /\ 6 <= n => IsDivision(g[6])
        /\ 7 <= n => IsDivision(g[7])
    <2>1. 5 <= n => IsDivision(g[4 + 1])
      BY <1>4, <1>6
    <2>2. 6 <= n => IsDivision(g[5 + 1])
      BY <1>4, <2>1
    <2>3. 7 <= n => IsDivision(g[6 + 1])
      BY <1>4, <2>2
    <2> QED
      BY <2>1, <2>2, <2>3
  <1>8. n = 0 \/ n = 1 \/ n = 2 \/ n = 3 \/ n = 4 \/ n = 5 \/ n = 6 \/ n = 7
    OBVIOUS
  <1>9. IsDivision(g[n])
    BY <1>5, <1>6, <1>7, <1>8
  <1> QED
    BY <1>1, <1>9

LEMMA ChunksAreDivision ==
    ASSUME NEW t \in Known, NEW m, NEW d, IsDivision(d)
    PROVE  IsDivision(SplitChunks(t, m, d))
  <1>1. IsDivision(DivideBy(Steps(t), m, d))
    <2>1. Len(Steps(t)) \in 0 .. 7
      BY FewSteps
    <2>2. PICK n \in 0 .. 7 : Len(Steps(t)) = n
      BY <2>1
    <2> QED
      BY <2>2, StepsDivide
  <1>2. CASE t = "SR"
    BY <1>1, <1>2, SizeKeeps DEF SplitChunks
  <1>3. CASE t = "OneParameter" \/ t = "Lock"
    BY <1>3, ChunkSet DEF SplitChunks
  <1>4. CASE t \notin {"SR", "OneParameter", "Lock"}
    BY <1>1, <1>4 DEF SplitChunks
  <1> QED
    BY <1>2, <1>3, <1>4

LEMMA FieldsHold ==
    ASSUME NEW S, mStr \in Seq(S), mType \in Known, NEW m, NEW d, Given(m, d),
           SplitState(SplitChunks(mType, m, d))
    PROVE  FieldsRight
  <1>1. CASE mType = "SR"
    BY <1>1, HoldsResult DEF SplitChunks
  <1>2. CASE mType = "OneParameter" \/ mType = "Lock"
    <2>1. m.len = Len(mStr) /\ m.kw = mKWSize
      BY DEF Given, IsText
    <2>2. SplitState(SetChunk(d, "par", mKWSize, Len(mStr) - mKWSize))
      BY <1>2, <2>1 DEF SplitChunks
    <2> QED
      BY <1>2, <2>2, HoldsPar
  <1>3. CASE mType \notin {"SR", "OneParameter", "Lock"}
    <2>1. SplitState(DivideBy(Steps(mType), m, d))
      BY <1>3 DEF SplitChunks
    <2> QED
      BY <1>3, <2>1, KnownTypes, HoldsSimple, HoldsDouble, HoldsTo, HoldsForced, HoldsMyINFO, HoldsPassive,
         HoldsActive
  <1> QED
    BY <1>1, <1>2, <1>3

-----------------------------------------------------------------------------
(* Message: what a plugin puts in the place of the description *)

\* The first letter c of s at x or later stands at i.
LetterAt(s, c, x, i) ==
    i \in Nat /\ x <= i /\ i < Len(s) /\ s[i + 1] = c /\ \A j \in x .. i - 1 : s[j + 1] # c

LEMMA FirstLetter ==
    ASSUME NEW S, NEW s \in Seq(S), NEW c, NEW x \in Nat, NEW i, FirstAt(s, <<c>>, x, i)
    PROVE  LetterAt(s, c, x, i)
  <1>1. i \in Int /\ x <= i /\ Is(s, <<c>>, i) /\ \A j \in Int : x <= j /\ j < i => ~Is(s, <<c>>, j)
    BY DEF FirstAt
  <1>2. i >= 0 /\ i < Len(s) /\ s[i + 1] = c
    BY <1>1, IsLetter
  <1>3. ASSUME NEW j \in x .. i - 1 PROVE s[j + 1] # c
    <2>1. j \in Int /\ x <= j /\ j < i /\ j >= 0 /\ Len(s) \in Nat
      BY <1>1
    <2>2. ~Is(s, <<c>>, j)
      BY <1>1, <2>1
    <2>3. j < Len(s)
      BY <1>1, <1>2, <2>1
    <2> QED
      BY <2>1, <2>2, <2>3, IsLetter
  <1> QED
    BY <1>1, <1>2, <1>3 DEF LetterAt

LEMMA OneLetter ==
    ASSUME NEW s, NEW c, NEW x \in Nat, NEW i, NEW j, LetterAt(s, c, x, i), LetterAt(s, c, x, j)
    PROVE  i = j
  BY DEF LetterAt

\* The delimiters of a $MyINFO: two blanks and three dollars.
MyINFOPlaces(s, kw, a, b, c, e, f) ==
    /\ LetterAt(s, Space, kw, a) /\ LetterAt(s, Space, a + 1, b)
    /\ LetterAt(s, "$", b + 1, c) /\ LetterAt(s, "$", c + 3, e) /\ LetterAt(s, "$", e + 1, f)

LEMMA OnePlace ==
    ASSUME NEW s, NEW kw \in Nat, NEW a, NEW b, NEW c, NEW e, NEW f, MyINFOPlaces(s, kw, a, b, c, e, f),
           NEW a2, NEW b2, NEW c2, NEW e2, NEW f2, MyINFOPlaces(s, kw, a2, b2, c2, e2, f2)
    PROVE  e = e2 /\ f = f2
  <1>1. a = a2 /\ a \in Nat
    <2>1. LetterAt(s, Space, kw, a) /\ LetterAt(s, Space, kw, a2)
      BY DEF MyINFOPlaces
    <2> QED
      BY <2>1, OneLetter DEF LetterAt
  <1>2. b = b2 /\ b \in Nat
    <2>1. LetterAt(s, Space, a + 1, b) /\ LetterAt(s, Space, a + 1, b2) /\ a + 1 \in Nat
      BY <1>1 DEF MyINFOPlaces
    <2> QED
      BY <2>1, OneLetter DEF LetterAt
  <1>3. c = c2 /\ c \in Nat
    <2>1. LetterAt(s, "$", b + 1, c) /\ LetterAt(s, "$", b + 1, c2) /\ b + 1 \in Nat
      BY <1>2 DEF MyINFOPlaces
    <2> QED
      BY <2>1, OneLetter DEF LetterAt
  <1>4. e = e2 /\ e \in Nat
    <2>1. LetterAt(s, "$", c + 3, e) /\ LetterAt(s, "$", c + 3, e2) /\ c + 3 \in Nat
      BY <1>3 DEF MyINFOPlaces
    <2> QED
      BY <2>1, OneLetter DEF LetterAt
  <1>5. f = f2
    <2>1. LetterAt(s, "$", e + 1, f) /\ LetterAt(s, "$", e + 1, f2) /\ e + 1 \in Nat
      BY <1>4 DEF MyINFOPlaces
    <2> QED
      BY <2>1, OneLetter
  <1> QED
    BY <1>4, <1>5

\* Where a $MyINFO was divided.
LEMMA PlacesOf ==
    ASSUME NEW S, NEW s \in Seq(S), NEW n, NEW kw \in Nat, NEW r, r.err = FALSE,
           MyINFOCut(r, s, n, kw, Layout("MyINFO"))
    PROVE  \E a, b, c, e, f : /\ MyINFOPlaces(s, kw, a, b, c, e, f)
                              /\ At2(r, "desc", b + 1, c - (b + 1)) /\ At2(r, "mail", e + 1, f - (e + 1))
  <1> DEFINE l == Layout("MyINFO")
  <1>1. /\ l[1].d = Blank /\ l[1].skip = 0 /\ l[2].d = Blank /\ l[2].skip = 0
        /\ l[3].n = "desc" /\ l[3].d = Dollar /\ l[3].skip = 2
        /\ l[4].d = Dollar /\ l[4].skip = 0 /\ l[5].n = "mail" /\ l[5].d = Dollar
    BY MyINFOFields
  <1>2. PICK pos : CutInto(r, s, kw, l, 5, pos)
    BY DEF MyINFOCut
  <1> HIDE DEF l
  <1>3. Blank = <<Space>> /\ Dollar = <<"$">> /\ Len(Blank) = 1 /\ Len(Dollar) = 1
    BY DEF Blank, Dollar
  <1>4. /\ FirstAt(s, l[1].d, FieldFrom(pos, l, kw, 1), pos[1])
        /\ FirstAt(s, l[2].d, FieldFrom(pos, l, kw, 2), pos[2])
        /\ FirstAt(s, l[3].d, FieldFrom(pos, l, kw, 3), pos[3])
        /\ FirstAt(s, l[4].d, FieldFrom(pos, l, kw, 4), pos[4])
        /\ FirstAt(s, l[5].d, FieldFrom(pos, l, kw, 5), pos[5])
        /\ At2(r, l[3].n, FieldFrom(pos, l, kw, 3), pos[3] - FieldFrom(pos, l, kw, 3))
        /\ At2(r, l[5].n, FieldFrom(pos, l, kw, 5), pos[5] - FieldFrom(pos, l, kw, 5))
    BY <1>2 DEF CutInto
  <1>5. FieldFrom(pos, l, kw, 1) = kw
    BY DEF FieldFrom
  <1>6. LetterAt(s, Space, kw, pos[1]) /\ pos[1] \in Nat
    <2>1. FirstAt(s, <<Space>>, kw, pos[1])
      BY <1>1, <1>3, <1>4, <1>5
    <2> QED
      BY <2>1, FirstLetter DEF LetterAt
  <1>7. LetterAt(s, Space, pos[1] + 1, pos[2]) /\ pos[2] \in Nat
    <2>1. FieldFrom(pos, l, kw, 2) = pos[1] + 1 /\ pos[1] + 1 \in Nat
      <3>1. 2 # 1 /\ 2 - 1 = 1
        OBVIOUS
      <3>2. FieldFrom(pos, l, kw, 2) = pos[1] + Len(l[1].d) + l[1].skip
        BY <3>1 DEF FieldFrom
      <3>3. Len(l[1].d) = 1 /\ l[1].skip = 0
        BY <1>1, <1>3
      <3> QED
        BY <1>6, <3>2, <3>3
    <2>2. FirstAt(s, <<Space>>, pos[1] + 1, pos[2])
      BY <1>1, <1>3, <1>4, <2>1
    <2> QED
      BY <2>1, <2>2, FirstLetter DEF LetterAt
  <1>8. FieldFrom(pos, l, kw, 3) = pos[2] + 1 /\ pos[2] + 1 \in Nat
    <2>1. 3 # 1 /\ 3 - 1 = 2
      OBVIOUS
    <2>2. FieldFrom(pos, l, kw, 3) = pos[2] + Len(l[2].d) + l[2].skip
      BY <2>1 DEF FieldFrom
    <2>3. Len(l[2].d) = 1 /\ l[2].skip = 0
      BY <1>1, <1>3
    <2> QED
      BY <1>7, <2>2, <2>3
  <1>9. LetterAt(s, "$", pos[2] + 1, pos[3]) /\ pos[3] \in Nat
    <2>1. FirstAt(s, <<"$">>, pos[2] + 1, pos[3])
      BY <1>1, <1>3, <1>4, <1>8
    <2> QED
      BY <1>8, <2>1, FirstLetter DEF LetterAt
  <1>10. LetterAt(s, "$", pos[3] + 3, pos[4]) /\ pos[4] \in Nat
    <2>1. FieldFrom(pos, l, kw, 4) = pos[3] + 3 /\ pos[3] + 3 \in Nat
      <3>1. 4 # 1 /\ 4 - 1 = 3
        OBVIOUS
      <3>2. FieldFrom(pos, l, kw, 4) = pos[3] + Len(l[3].d) + l[3].skip
        BY <3>1 DEF FieldFrom
      <3>3. Len(l[3].d) = 1 /\ l[3].skip = 2
        BY <1>1, <1>3
      <3> QED
        BY <1>9, <3>2, <3>3
    <2>2. FirstAt(s, <<"$">>, pos[3] + 3, pos[4])
      BY <1>1, <1>3, <1>4, <2>1
    <2> QED
      BY <2>1, <2>2, FirstLetter DEF LetterAt
  <1>11. FieldFrom(pos, l, kw, 5) = pos[4] + 1 /\ pos[4] + 1 \in Nat
    <2>1. 5 # 1 /\ 5 - 1 = 4
      OBVIOUS
    <2>2. FieldFrom(pos, l, kw, 5) = pos[4] + Len(l[4].d) + l[4].skip
      BY <2>1 DEF FieldFrom
    <2>3. Len(l[4].d) = 1 /\ l[4].skip = 0
      BY <1>1, <1>3
    <2> QED
      BY <1>10, <2>2, <2>3
  <1>12. LetterAt(s, "$", pos[4] + 1, pos[5])
    <2>1. FirstAt(s, <<"$">>, pos[4] + 1, pos[5])
      BY <1>1, <1>3, <1>4, <1>11
    <2> QED
      BY <1>11, <2>1, FirstLetter
  <1>13. At2(r, "desc", pos[2] + 1, pos[3] - (pos[2] + 1)) /\ At2(r, "mail", pos[4] + 1, pos[5] - (pos[4] + 1))
    BY <1>1, <1>4, <1>8, <1>11
  <1>14. MyINFOPlaces(s, kw, pos[1], pos[2], pos[3], pos[4], pos[5])
    BY <1>6, <1>7, <1>9, <1>10, <1>12 DEF MyINFOPlaces
  <1> QED
    BY <1>13, <1>14

\* A $MyINFO with its delimiters can be divided.
LEMMA PlacesDivide ==
    ASSUME NEW S, NEW s \in Seq(S), NEW kw \in Nat, NEW a, NEW b, NEW c, NEW e, NEW f,
           MyINFOPlaces(s, kw, a, b, c, e, f)
    PROVE  CanDivide(s, kw, Layout("MyINFO"), 5)
  <1> DEFINE l == Layout("MyINFO")
             p == <<a, b, c, e, f>>
             n == Len(s)
  <1>1. /\ l[1].d = Blank /\ l[1].skip = 0 /\ l[2].d = Blank /\ l[2].skip = 0
        /\ l[3].d = Dollar /\ l[3].skip = 2
        /\ l[4].d = Dollar /\ l[4].skip = 0 /\ l[5].d = Dollar /\ l[5].skip = 0
    BY MyINFOFields
  <1> HIDE DEF l
  <1>2. Blank = <<Space>> /\ Dollar = <<"$">> /\ Len(Blank) = 1 /\ Len(Dollar) = 1
    BY DEF Blank, Dollar
  <1>3. /\ a \in Nat /\ b \in Nat /\ c \in Nat /\ e \in Nat /\ f \in Nat
        /\ kw <= a /\ a + 1 <= b /\ b + 1 <= c /\ c + 3 <= e /\ e + 1 <= f /\ f < n
        /\ s[a + 1] = Space /\ s[b + 1] = Space /\ s[c + 1] = "$" /\ s[e + 1] = "$" /\ s[f + 1] = "$"
    BY DEF MyINFOPlaces, LetterAt
  <1>4. n \in Nat /\ a < n /\ b < n /\ c < n /\ e < n
    BY <1>3
  <1>5. /\ Is(s, <<Space>>, a) /\ Is(s, <<Space>>, b)
        /\ Is(s, <<"$">>, c) /\ Is(s, <<"$">>, e) /\ Is(s, <<"$">>, f)
    BY <1>3, <1>4, IsLetter
  <1>6. \A i \in 1 .. 5 : i = 1 \/ i = 2 \/ i = 3 \/ i = 4 \/ i = 5
    OBVIOUS
  <1>7. p[1] = a /\ p[2] = b /\ p[3] = c /\ p[4] = e /\ p[5] = f
    OBVIOUS
  <1>8. p \in [1 .. 5 -> kw .. n]
    <2>1. /\ a \in kw .. n /\ b \in kw .. n /\ c \in kw .. n /\ e \in kw .. n /\ f \in kw .. n
      BY <1>3, <1>4
    <2> HIDE DEF n
    <2> QED
      BY <2>1
  <1> HIDE DEF p, n
  <1>9. \A i \in 1 .. 5 : Is(s, l[i].d, p[i])
    BY <1>1, <1>2, <1>5, <1>6, <1>7
  <1>10. ASSUME NEW i \in 1 .. 5, i < 5 PROVE p[i] + Len(l[i].d) + l[i].skip <= p[i + 1]
    <2>1. CASE i = 1
      <3>1. Len(l[1].d) = 1 /\ l[1].skip = 0 /\ p[1] = a /\ p[2] = b /\ i + 1 = 2
        BY <1>1, <1>2, <1>7, <2>1
      <3>2. a + 1 + 0 <= b
        BY <1>3
      <3> QED
        BY <2>1, <3>1, <3>2
    <2>2. CASE i = 2
      <3>1. Len(l[2].d) = 1 /\ l[2].skip = 0 /\ p[2] = b /\ p[3] = c /\ i + 1 = 3
        BY <1>1, <1>2, <1>7, <2>2
      <3>2. b + 1 + 0 <= c
        BY <1>3
      <3> QED
        BY <2>2, <3>1, <3>2
    <2>3. CASE i = 3
      <3>1. Len(l[3].d) = 1 /\ l[3].skip = 2 /\ p[3] = c /\ p[4] = e /\ i + 1 = 4
        BY <1>1, <1>2, <1>7, <2>3
      <3>2. c + 1 + 2 <= e
        BY <1>3
      <3> QED
        BY <2>3, <3>1, <3>2
    <2>4. CASE i = 4
      <3>1. Len(l[4].d) = 1 /\ l[4].skip = 0 /\ p[4] = e /\ p[5] = f /\ i + 1 = 5
        BY <1>1, <1>2, <1>7, <2>4
      <3>2. e + 1 + 0 <= f
        BY <1>3
      <3> QED
        BY <2>4, <3>1, <3>2
    <2> QED
      BY <1>10, <2>1, <2>2, <2>3, <2>4
  <1>11. ~(l[5].skip > 0)
    BY <1>1
  <1>12. \A i \in 1 .. 5 :
           /\ Is(s, l[i].d, p[i])
           /\ i < 5 => p[i] + Len(l[i].d) + l[i].skip <= p[i + 1]
           /\ i = 5 /\ l[i].skip > 0 => p[i] + Len(l[i].d) + l[i].skip < Len(s)
    BY <1>9, <1>10, <1>11
  <1> QED
    BY <1>8, <1>12 DEF CanDivide, l, n

LEMMA JoinIs ==
    ASSUME NEW S, NEW p \in Seq(S), NEW q \in Seq(S), NEW x, x = Len(p), NEW y, y = Len(q), NEW t, t = p \o q
    PROVE  /\ t \in Seq(S) /\ Len(t) = x + y
           /\ \A h \in 1 .. x : t[h] = p[h]
           /\ \A h \in 1 .. y : t[x + h] = q[h]
  OBVIOUS

SplicedAt(S, t, s, u, x, y) ==
    /\ t \in Seq(S) /\ Len(t) = x + Len(u) + (Len(s) - y)
    /\ \A h \in 1 .. x : t[h] = s[h]
    /\ \A h \in 1 .. Len(u) : t[x + h] = u[h]
    /\ \A h \in 1 .. Len(s) - y : t[x + Len(u) + h] = s[y + h]

\* What stands where after a text was put in the place of the letters x + 1 to y.
LEMMA Spliced ==
    ASSUME NEW S, NEW s \in Seq(S), NEW u \in Seq(S), NEW x \in Nat, NEW y \in Nat, x <= y, y <= Len(s),
           NEW t, t = SubSeq(s, 1, x) \o u \o SubSeq(s, y + 1, Len(s))
    PROVE  SplicedAt(S, t, s, u, x, y)
  <1> DEFINE p == SubSeq(s, 1, x)
             q == SubSeq(s, y + 1, Len(s))
             k == Len(s) - y
  <1>1. p \in Seq(S) /\ Len(p) = x /\ \A h \in 1 .. x : p[h] = s[h]
    <2>1. 0 \in Nat /\ 0 + x <= Len(s) /\ 0 + 1 = 1 /\ 0 + x = x
      OBVIOUS
    <2> DEFINE r == SubSeq(s, 0 + 1, 0 + x)
    <2>2. r \in Seq(S) /\ Len(r) = x /\ \A h \in 1 .. x : r[h] = s[0 + h]
      BY <2>1, PieceIs
    <2>3. p = r
      BY <2>1
    <2>4. \A h \in 1 .. x : 0 + h = h
      OBVIOUS
    <2> HIDE DEF p, r
    <2> QED
      BY <2>2, <2>3, <2>4
  <1>2. k \in Nat /\ y + k = Len(s)
    OBVIOUS
  <1> HIDE DEF k
  <1>3. q \in Seq(S) /\ Len(q) = k /\ \A h \in 1 .. k : q[h] = s[y + h]
    <2> DEFINE r == SubSeq(s, y + 1, y + k)
    <2>1. r \in Seq(S) /\ Len(r) = k /\ \A h \in 1 .. k : r[h] = s[y + h]
      BY <1>2, PieceIs
    <2>2. q = r
      BY <1>2
    <2> HIDE DEF q, r
    <2> QED
      BY <2>1, <2>2
  <1>4. t = p \o u \o q
    OBVIOUS
  <1> HIDE DEF p, q
  <1> DEFINE w == Len(u)
             v == p \o u
  <1>7. w \in Nat /\ w = Len(u) /\ v = p \o u
    OBVIOUS
  <1>8. t = v \o q
    BY <1>4
  <1> HIDE DEF v, w
  <1>5. /\ v \in Seq(S) /\ Len(v) = x + w
        /\ (\A h \in 1 .. x : v[h] = p[h]) /\ (\A h \in 1 .. w : v[x + h] = u[h])
    <2>1. p \in Seq(S) /\ x = Len(p)
      BY <1>1
    <2> QED
      BY ONLY <1>7, <2>1, u \in Seq(S), JoinIs
  <1>6. (\A h \in 1 .. x : v[h] = p[h]) /\ (\A h \in 1 .. w : v[x + h] = u[h])
    BY <1>5
  <1> DEFINE y1 == x + w
  <1>a. v \in Seq(S) /\ y1 = Len(v) /\ q \in Seq(S) /\ k = Len(q)
    BY <1>3, <1>5
  <1>b. y1 = x + w
    OBVIOUS
  <1> HIDE DEF y1
  <1>c. /\ t \in Seq(S) /\ Len(t) = y1 + k
        /\ (\A h \in 1 .. y1 : t[h] = v[h]) /\ (\A h \in 1 .. k : t[y1 + h] = q[h])
    BY ONLY <1>8, <1>a, JoinIs
  <1>9. t \in Seq(S) /\ Len(t) = x + w + k
    BY <1>b, <1>c
  <1>10. (\A h \in 1 .. x + w : t[h] = v[h]) /\ (\A h \in 1 .. k : t[x + w + h] = q[h])
    BY <1>b, <1>c
  <1>11. \A h \in 1 .. x : t[h] = s[h]
    <2>1. \A h \in 1 .. x : h \in 1 .. x + w
      BY <1>7
    <2> QED
      BY <1>1, <1>6, <1>10, <2>1
  <1>12. \A h \in 1 .. w : t[x + h] = u[h]
    <2>1. \A h \in 1 .. w : x + h \in 1 .. x + w
      BY <1>7
    <2> QED
      BY <1>6, <1>10, <2>1
  <1>13. \A h \in 1 .. k : t[x + w + h] = s[y + h]
    BY <1>3, <1>10
  <1> QED
    BY <1>9, <1>11, <1>12, <1>13 DEF w, k, SplicedAt

LEMMA LaterLetter ==
    ASSUME NEW s, NEW t, NEW c, NEW x \in Nat, NEW i, LetterAt(s, c, x, i), NEW z \in Int, x + z \in Nat,
           Len(t) \in Nat, i + z < Len(t), \A j \in x .. i : t[j + z + 1] = s[j + 1]
    PROVE  LetterAt(t, c, x + z, i + z)
  <1>1. i \in Nat /\ x <= i /\ s[i + 1] = c /\ \A j \in x .. i - 1 : s[j + 1] # c
    BY DEF LetterAt
  <1>2. i + z \in Nat /\ x + z <= i + z
    BY <1>1
  <1>3. t[i + z + 1] = c
    BY <1>1
  <1>4. ASSUME NEW j \in x + z .. i + z - 1 PROVE t[j + 1] # c
    <2>1. j - z \in x .. i - 1 /\ j - z \in x .. i /\ j - z + z + 1 = j + 1
      BY <1>1
    <2>2. t[j - z + z + 1] = s[j - z + 1] /\ s[j - z + 1] # c
      BY <1>1, <2>1
    <2> QED
      BY <2>1, <2>2
  <1> QED
    BY <1>2, <1>3, <1>4 DEF LetterAt

LEMMA SameLetterAt ==
    ASSUME NEW s, NEW t, NEW c, NEW x \in Nat, NEW i, LetterAt(s, c, x, i), i < Len(t),
           \A j \in x .. i : t[j + 1] = s[j + 1]
    PROVE  LetterAt(t, c, x, i)
  <1>1. i \in Nat /\ x <= i /\ s[i + 1] = c /\ \A j \in x .. i - 1 : s[j + 1] # c
    BY DEF LetterAt
  <1>2. i \in x .. i /\ \A j \in x .. i - 1 : j \in x .. i
    BY <1>1
  <1> QED
    BY <1>1, <1>2 DEF LetterAt

\* The message s with the text u in the place of the chunk c.
Put(s, c, u) == SubSeq(s, 1, c[1]) \o u \o SubSeq(s, c[1] + c[2] + 1, Len(s))

LEMMA PutOf ==
    ASSUME NEW s, NEW u, NEW x, NEW y
    PROVE  Put(s, <<x, y>>, u) = SubSeq(s, 1, x) \o u \o SubSeq(s, x + y + 1, Len(s))
  BY DEF Put

Shifted(S, s, t, kw, a, b, c, e, f, z) ==
    /\ t \in Seq(S) /\ Len(t) = Len(s) + z
    /\ MyINFOPlaces(t, kw, a, b, c + z, e + z, f + z)
    /\ \A h \in e + 1 .. f : t[h + z] = s[h]

\* A text without a dollar in the place of the description moves what follows, and nothing else.
LEMMA PlacesShift ==
    ASSUME NEW S, NEW s \in Seq(S), NEW u \in Seq(S), \A h \in 1 .. Len(u) : u[h] # "$",
           NEW kw \in Nat, NEW a, NEW b, NEW c, NEW e, NEW f, MyINFOPlaces(s, kw, a, b, c, e, f),
           NEW k, k = <<b + 1, c - (b + 1)>>, NEW t, t = Put(s, k, u)
    PROVE  \E z \in Int : Shifted(S, s, t, kw, a, b, c, e, f, z)
  <1> DEFINE x == b + 1
             w == Len(u)
             z == x + w - c
             n == Len(s)
  <1>1. /\ a \in Nat /\ b \in Nat /\ c \in Nat /\ e \in Nat /\ f \in Nat
        /\ kw <= a /\ a + 1 <= b /\ b + 1 <= c /\ c + 3 <= e /\ e + 1 <= f /\ f < n
        /\ s[a + 1] = Space /\ s[b + 1] = Space /\ s[c + 1] = "$" /\ s[e + 1] = "$" /\ s[f + 1] = "$"
    BY DEF MyINFOPlaces, LetterAt
  <1>2. n \in Nat /\ w \in Nat /\ x \in Nat /\ z \in Int /\ x <= c /\ c <= n /\ x + w = c + z /\ c + z \in Nat
    BY <1>1
  <1>5. x = b + 1 /\ z = x + w - c /\ n = Len(s) /\ w = Len(u) /\ t = SubSeq(s, 1, x) \o u \o SubSeq(s, c + 1, Len(s))
    <2>1. k = <<x, c - x>> /\ x + (c - x) + 1 = c + 1
      BY <1>1
    <2> HIDE DEF x
    <2> DEFINE y == c - x
    <2>2. k = <<x, y>> /\ x + y + 1 = c + 1
      BY <2>1
    <2> HIDE DEF y
    <2>3. t = Put(s, <<x, y>>, u)
      BY ONLY <2>2, t = Put(s, k, u)
    <2>4. Put(s, <<x, y>>, u) = SubSeq(s, 1, x) \o u \o SubSeq(s, x + y + 1, Len(s))
      BY ONLY PutOf
    <2>5. t = SubSeq(s, 1, x) \o u \o SubSeq(s, c + 1, Len(s))
      BY ONLY <2>2, <2>3, <2>4
    <2> QED
      BY <2>5 DEF x
  <1> HIDE DEF x, z, n, w
  <1>3. /\ t \in Seq(S) /\ Len(t) = x + w + (n - c)
        /\ \A h \in 1 .. x : t[h] = s[h]
        /\ \A h \in 1 .. w : t[x + h] = u[h]
        /\ \A h \in 1 .. n - c : t[x + w + h] = s[c + h]
    <2>1. c \in Nat /\ x \in Nat /\ x <= c /\ c <= Len(s)
      BY <1>1, <1>2, <1>5
    <2>2. SplicedAt(S, t, s, u, x, c)
      BY ONLY <1>5, <2>1, s \in Seq(S), u \in Seq(S), Spliced
    <2> QED
      BY <1>5, <2>2 DEF SplicedAt
  <1>4. Len(t) = n + z /\ Len(t) \in Nat /\ n + z \in Nat
    <2>1. x + w + (n - c) = n + z /\ x + w + (n - c) \in Nat
      BY <1>1, <1>2
    <2> QED
      BY <1>3, <2>1
  <1>6. \A j \in c .. n - 1 : t[j + z + 1] = s[j + 1]
    <2> TAKE j \in c .. n - 1
    <2>1. j + 1 - c \in 1 .. n - c /\ x + w + (j + 1 - c) = j + z + 1 /\ c + (j + 1 - c) = j + 1
      BY <1>1, <1>2
    <2>2. t[x + w + (j + 1 - c)] = s[c + (j + 1 - c)]
      BY <1>3, <2>1
    <2> QED
      BY <2>1, <2>2
  <1>7. LetterAt(t, Space, kw, a) /\ LetterAt(t, Space, a + 1, b)
    <2>1. \A j \in 0 .. b : t[j + 1] = s[j + 1]
      <3>1. \A j \in 0 .. b : j + 1 \in 1 .. x
        BY <1>1, <1>5
      <3> QED
        BY <1>3, <3>1
    <2>2. a < Len(t) /\ b < Len(t)
      <3>1. b + 1 <= c + z /\ c + z <= n + z
        BY <1>1, <1>2, <1>5
      <3>a. a \in Nat /\ b \in Nat /\ a + 1 <= b
        BY <1>1
      <3>2. a < n + z /\ b < n + z
        BY ONLY <1>2, <3>a, <3>1
      <3> QED
        BY <1>4, <3>2
    <2>3. (\A j \in kw .. a : t[j + 1] = s[j + 1]) /\ (\A j \in a + 1 .. b : t[j + 1] = s[j + 1])
      <3>1. (\A j \in kw .. a : j \in 0 .. b) /\ (\A j \in a + 1 .. b : j \in 0 .. b)
        BY <1>1
      <3> QED
        BY <2>1, <3>1
    <2>4. LetterAt(s, Space, kw, a) /\ LetterAt(s, Space, a + 1, b) /\ a + 1 \in Nat
      BY <1>1 DEF MyINFOPlaces
    <2> QED
      BY <2>2, <2>3, <2>4, SameLetterAt
  <1>8. LetterAt(t, "$", b + 1, c + z)
    <2>1. t[c + z + 1] = "$"
      <3>1. c \in c .. n - 1
        BY <1>1, <1>2
      <3> QED
        BY <1>1, <1>6, <3>1
    <2> DEFINE i == c + z
    <2>a. i = c + z
      OBVIOUS
    <2> HIDE DEF i
    <2>2. ASSUME NEW j \in b + 1 .. i - 1 PROVE t[j + 1] # "$"
      <3>1. j + 1 - x \in 1 .. w /\ x + (j + 1 - x) = j + 1
        BY <1>1, <1>2, <1>5, <2>a
      <3>2. t[x + (j + 1 - x)] = u[j + 1 - x]
        BY <1>3, <3>1
      <3> QED
        BY <3>1, <3>2 DEF w
    <2>3. b + 1 <= c + z /\ c + z < Len(t)
      <3>1. b + 1 <= c + z /\ c + z < n + z
        BY <1>1, <1>2, <1>5
      <3> QED
        BY <1>4, <3>1
    <2>4. i \in Nat /\ b + 1 <= i /\ i < Len(t) /\ t[i + 1] = "$"
      BY <1>2, <2>1, <2>3, <2>a
    <2>6. LetterAt(t, "$", b + 1, i)
      BY <2>2, <2>4 DEF LetterAt
    <2> QED
      BY <2>6, <2>a
  <1>9. /\ LetterAt(t, "$", c + z + 3, e + z) /\ LetterAt(t, "$", e + z + 1, f + z)
    <2>1. /\ c + 3 \in Nat /\ c + 3 + z \in Nat /\ e + 1 \in Nat /\ e + 1 + z \in Nat
          /\ c + 3 + z = c + z + 3 /\ e + 1 + z = e + z + 1
      BY <1>1, <1>2
    <2>2. e + z < Len(t) /\ f + z < Len(t)
      <3>1. e + z < n + z /\ f + z < n + z
        BY <1>1, <1>2
      <3> QED
        BY <1>4, <3>1
    <2>3. /\ (\A j \in c + 3 .. e : t[j + z + 1] = s[j + 1])
          /\ (\A j \in e + 1 .. f : t[j + z + 1] = s[j + 1])
      <3>1. (\A j \in c + 3 .. e : j \in c .. n - 1) /\ (\A j \in e + 1 .. f : j \in c .. n - 1)
        BY <1>1, <1>2
      <3> QED
        BY <1>6, <3>1
    <2>4. LetterAt(s, "$", c + 3, e) /\ LetterAt(s, "$", e + 1, f)
      BY DEF MyINFOPlaces
    <2>5. LetterAt(t, "$", c + 3 + z, e + z)
      BY <1>2, <1>4, <2>1, <2>2, <2>3, <2>4, LaterLetter
    <2>6. LetterAt(t, "$", e + 1 + z, f + z)
      BY <1>2, <1>4, <2>1, <2>2, <2>3, <2>4, LaterLetter
    <2> QED
      BY <2>1, <2>5, <2>6
  <1>10. \A h \in e + 1 .. f : t[h + z] = s[h]
    <2> TAKE h \in e + 1 .. f
    <2>1. h - 1 \in c .. n - 1 /\ h - 1 + z + 1 = h + z /\ h - 1 + 1 = h
      BY <1>1, <1>2
    <2>2. t[h - 1 + z + 1] = s[h - 1 + 1]
      BY <1>6, <2>1
    <2> QED
      BY <2>1, <2>2
  <1>11. MyINFOPlaces(t, kw, a, b, c + z, e + z, f + z)
    BY <1>7, <1>8, <1>9 DEF MyINFOPlaces
  <1> QED
    BY <1>2, <1>3, <1>4, <1>10, <1>11 DEF n, Shifted

\* The mail is the same letters in both divisions.
SameMail(r, r1, s, t) ==
    \E x, y, z \in Nat :
        /\ At2(r, "mail", x, z) /\ At2(r1, "mail", y, z)
        /\ x + z <= Len(s) /\ y + z <= Len(t) /\ \A h \in 1 .. z : t[y + h] = s[x + h]

\* The message s, its description replaced by u, and both divisions.
MailKept(S, s, u, n, kw, m, d, r, t, m1, d1, r1) ==
    /\ s \in Seq(S) /\ u \in Seq(S) /\ \A h \in 1 .. Len(u) : u[h] # "$"
    /\ n = Len(s) /\ kw \in Nat /\ kw <= n /\ IsText(m, s, n, kw)
    /\ IsDivision(d) /\ d.err = FALSE /\ r = DivideBy(Steps("MyINFO"), m, d) /\ r.err = FALSE
    /\ t = Put(s, r.ch["desc"], u)
    /\ IsText(m1, t, n, kw) /\ IsDivision(d1) /\ d1.err = FALSE
    /\ r1 = DivideBy(Steps("MyINFO"), m1, d1)

LEMMA MailStays ==
    ASSUME NEW S, NEW s, NEW u, NEW n, NEW kw, NEW m, NEW d, NEW r, NEW t, NEW m1, NEW d1, NEW r1,
           MailKept(S, s, u, n, kw, m, d, r, t, m1, d1, r1)
    PROVE  t \in Seq(S) /\ r1.err = FALSE /\ SameMail(r, r1, s, t)
  <1> SUFFICES ASSUME s \in Seq(S), u \in Seq(S), \A h \in 1 .. Len(u) : u[h] # "$",
                      n = Len(s), kw \in Nat, kw <= n, IsText(m, s, n, kw),
                      IsDivision(d), d.err = FALSE, r = DivideBy(Steps("MyINFO"), m, d), r.err = FALSE,
                      t = Put(s, r.ch["desc"], u),
                      IsText(m1, t, n, kw), IsDivision(d1), d1.err = FALSE,
                      r1 = DivideBy(Steps("MyINFO"), m1, d1)
               PROVE  t \in Seq(S) /\ r1.err = FALSE /\ SameMail(r, r1, s, t)
    BY DEF MailKept
  <1> DEFINE l == Layout("MyINFO")
  <1>1. MyINFOCut(r, s, n, kw, l)
    BY MyINFODivided
  <1>2. \E a, b, c, e, f : /\ MyINFOPlaces(s, kw, a, b, c, e, f)
                           /\ At2(r, "desc", b + 1, c - (b + 1)) /\ At2(r, "mail", e + 1, f - (e + 1))
    BY <1>1, PlacesOf
  <1>3. PICK a, b, c, e, f : /\ MyINFOPlaces(s, kw, a, b, c, e, f)
                             /\ At2(r, "desc", b + 1, c - (b + 1)) /\ At2(r, "mail", e + 1, f - (e + 1))
    BY <1>2
  <1>4. /\ b \in Nat /\ c \in Nat /\ e \in Nat /\ f \in Nat /\ e + 1 <= f /\ f < Len(s)
    BY <1>3 DEF MyINFOPlaces, LetterAt
  <1>5. r.ch["desc"] = <<b + 1, c - (b + 1)>>
    BY <1>3 DEF At2
  <1>6. \E z \in Int : Shifted(S, s, t, kw, a, b, c, e, f, z)
    BY <1>3, <1>5, PlacesShift
  <1>7. PICK z \in Int :
              /\ t \in Seq(S) /\ Len(t) = Len(s) + z
              /\ MyINFOPlaces(t, kw, a, b, c + z, e + z, f + z)
              /\ \A h \in e + 1 .. f : t[h + z] = s[h]
    BY <1>6 DEF Shifted
  <1>8. MyINFOCut(r1, t, n, kw, l)
    BY <1>7, MyINFODivided
  <1>9. CanDivide(t, kw, l, 5)
    BY <1>7, PlacesDivide
  <1>10. r1.err = FALSE
    BY <1>8, <1>9 DEF MyINFOCut
  <1>11. \E a2, b2, c2, e2, f2 : /\ MyINFOPlaces(t, kw, a2, b2, c2, e2, f2)
                           /\ At2(r1, "desc", b2 + 1, c2 - (b2 + 1)) /\ At2(r1, "mail", e2 + 1, f2 - (e2 + 1))
    BY <1>7, <1>8, <1>10, PlacesOf
  <1>12. PICK a2, b2, c2, e2, f2 : /\ MyINFOPlaces(t, kw, a2, b2, c2, e2, f2)
                           /\ At2(r1, "desc", b2 + 1, c2 - (b2 + 1)) /\ At2(r1, "mail", e2 + 1, f2 - (e2 + 1))
    BY <1>11
  <1>13. e2 = e + z /\ f2 = f + z
    BY <1>7, <1>12, OnePlace
  <1>14. e + z \in Nat /\ f + z \in Nat
    BY <1>7 DEF MyINFOPlaces, LetterAt
  <1> DEFINE x == e + 1
             y == e + z + 1
             k == f - x
  <1>15. /\ x \in Nat /\ y \in Nat /\ k \in Nat /\ f + z - y = k /\ x + k = f /\ y = x + z
    BY <1>4, <1>14
  <1>16. At2(r, "mail", x, k) /\ At2(r1, "mail", y, k)
    <2>1. e2 + 1 = y /\ f2 - (e2 + 1) = k
      BY ONLY <1>4, <1>13, z \in Int
    <2> HIDE DEF y, k
    <2>2. At2(r1, "mail", e2 + 1, f2 - (e2 + 1))
      BY <1>12
    <2>3. At2(r1, "mail", y, k)
      BY ONLY <2>1, <2>2
    <2> QED
      BY <1>3, <2>3 DEF k
  <1>17. x + k <= Len(s) /\ y + k <= Len(t)
    <2>1. f <= Len(s) /\ f + z <= Len(s) + z /\ y + k = f + z /\ x + k = f
      BY <1>4, <1>15
    <2> QED
      BY <1>7, <2>1
  <1> HIDE DEF x, y, k
  <1>18. ASSUME NEW h \in 1 .. k PROVE t[y + h] = s[x + h]
    <2>1. x + h \in e + 1 .. f /\ x + h + z = y + h
      BY <1>4, <1>15 DEF x
    <2>2. t[x + h + z] = s[x + h]
      BY <1>7, <2>1
    <2> QED
      BY <2>1, <2>2
  <1>19. SameMail(r, r1, s, t)
    BY <1>15, <1>16, <1>17, <1>18 DEF SameMail
  <1> QED
    BY <1>7, <1>10, <1>19

LEMMA WiderText ==
    ASSUME NEW S, NEW T, S \subseteq T, NEW u \in Seq(S)
    PROVE  u \in Seq(T)
  <1>1. u = [k \in 1 .. Len(u) |-> u[k]] /\ \A k \in 1 .. Len(u) : u[k] \in T
    OBVIOUS
  <1> QED
    BY <1>1

LEMMA MailRead ==
    ASSUME NEW S, mStr \in Seq(S), NEW s \in Seq(S), "mail" \notin DOMAIN strings,
           NEW r, NEW r1, r1.ch = chunk, SameMail(r, r1, s, mStr)
    PROVE  ChunkString("mail") = Part(s, r.ch["mail"])
  <1>1. PICK x \in Nat, y \in Nat, z \in Nat :
           /\ At2(r, "mail", x, z) /\ At2(r1, "mail", y, z)
           /\ x + z <= Len(s) /\ y + z <= Len(mStr) /\ \A h \in 1 .. z : mStr[y + h] = s[x + h]
    BY DEF SameMail
  <1>2. chunk["mail"][1] = y /\ chunk["mail"][2] = z /\ r.ch["mail"][1] = x /\ r.ch["mail"][2] = z
    BY <1>1 DEF At2
  <1> DEFINE p == SubSeq(mStr, y + 1, y + z)
             q == SubSeq(s, x + 1, x + z)
  <1>3. ChunkString("mail") = p
    BY <1>1, <1>2, StringOf
  <1>4. Part(s, r.ch["mail"]) = q
    <2>1. x + z < Len(s) \/ x + z = Len(s)
      BY <1>1
    <2> QED
      BY <1>2, <2>1 DEF Part
  <1>5. p \in Seq(S) /\ Len(p) = z /\ \A h \in 1 .. z : p[h] = mStr[y + h]
    BY <1>1, PieceIs
  <1>6. q \in Seq(S) /\ Len(q) = z /\ \A h \in 1 .. z : q[h] = s[x + h]
    BY <1>1, PieceIs
  <1> HIDE DEF p, q
  <1>7. p = q
    BY <1>1, <1>5, <1>6, SameLetters
  <1> QED
    BY <1>3, <1>4, <1>7

-----------------------------------------------------------------------------
(* Message: the inductive invariant *)

TextLetters == STRING \cup AllLetters
Untouched == [ch |-> <<>>, err |-> FALSE]
TextOf(s) == [s |-> s, len |-> mLen, kw |-> mKWSize]
Cut(s)    == SplitChunks(mType, TextOf(s), Untouched)

\* The message as its author sent it.
Sent == IF rewritten = <<>> THEN mStr ELSE sentText

Taken(s) ==
    mType \in Known /\ mLen \in Nat /\ mKWSize \in 0 .. mLen /\ s \in Seq(TextLetters) /\ Len(s) = mLen

RestInv ==
    stage \in {"ready", "parsed", "closed"} =>
        chunk = <<>> /\ mError = FALSE /\ strings = <<>> /\ rewritten = <<>>
ParsedInv == stage = "parsed" /\ mType # Unknown => Taken(mStr)

\* The chunks are those of the message that was sent, also after a plugin has changed it.
SplitInv ==
    stage \in {"split", "read"} =>
        /\ Taken(Sent) /\ chunk = Cut(Sent).ch /\ mError = Cut(Sent).err
        /\ stage = "split" => rewritten = <<>> /\ strings = <<>>
AgainInv ==
    stage = "again" =>
        /\ Taken(sentText) /\ mType = "MyINFO" /\ rewritten = <<"desc">>
        /\ \E d : /\ IsDivision(d) /\ d.err = FALSE
                  /\ chunk = SplitChunks(mType, TextOf(mStr), d).ch
                  /\ mError = SplitChunks(mType, TextOf(mStr), d).err
PutInv ==
    /\ rewritten \in Seq({"nick", "text", "desc"})
    /\ Len(rewritten) = 1 =>
         LET n == Head(rewritten) IN
         /\ strings[n] \in Replacements
         /\ mStr = Put(sentText, Cut(sentText).ch[n], strings[n]) /\ Cut(sentText).err = FALSE
    /\ "mail" \notin DOMAIN strings
    /\ mType = "MyINFO" /\ rewritten # <<>> => rewritten = <<"desc">>
MessageInv == LongestWins /\ RestInv /\ ParsedInv /\ SplitInv /\ AgainInv /\ PutInv

LEMMA UntouchedIs == IsDivision(Untouched) /\ Untouched.err = FALSE
  BY DEF IsDivision, Untouched

LEMMA InvGivesFields == MessageInv => FieldsRight
  <1> SUFFICES ASSUME MessageInv PROVE FieldsRight
    OBVIOUS
  <1>1. CASE ~(stage = "split" /\ rewritten = <<>>)
    BY <1>1 DEF FieldsRight
  <1>2. CASE stage = "split" /\ rewritten = <<>>
    <2> DEFINE m == TextOf(mStr)
               R == SplitChunks(mType, m, Untouched)
    <2>1. Taken(mStr) /\ chunk = R.ch /\ mError = R.err /\ strings = <<>>
      BY <1>2 DEF MessageInv, SplitInv, Sent, Cut
    <2>2. IsText(m, mStr, Len(mStr), mKWSize) /\ mKWSize \in Nat /\ mStr \in Seq(TextLetters) /\ mType \in Known
      BY <2>1 DEF Taken, IsText, TextOf
    <2>3. Given(m, Untouched)
      BY <2>2, UntouchedIs DEF Given
    <2>4. SplitState(R)
      <3>1. IsDivision(R)
        BY <2>2, UntouchedIs, ChunksAreDivision
      <3>2. mKWSize \in 0 .. Len(mStr)
        BY <2>1 DEF Taken
      <3> QED
        BY <1>2, <2>1, <3>1, <3>2 DEF SplitState
    <2> HIDE DEF m
    <2> QED
      BY <2>2, <2>3, <2>4, FieldsHold
  <1> QED
    BY <1>1, <1>2

LEMMA InvGivesRewrite ==
    ASSUME MessageAssumption, \A w \in Replacements : "$" \notin Range(w), MessageInv
    PROVE  OneRewrite
  <1> DEFINE old == Cut(sentText).ch
  <1>1. /\ rewritten \in Seq({"nick", "text", "desc"})
        /\ Len(rewritten) = 1 =>
             LET n == Head(rewritten) IN
             /\ strings[n] \in Replacements
             /\ mStr = Put(sentText, old[n], strings[n]) /\ Cut(sentText).err = FALSE
    BY DEF MessageInv, PutInv
  <1>2. Len(rewritten) = 1 =>
            LET n == Head(rewritten) IN
            mStr = SubSeq(sentText, 1, old[n][1]) \o strings[n]
                     \o SubSeq(sentText, old[n][1] + old[n][2] + 1, Len(sentText))
    BY <1>1 DEF Put
  <1>3. ASSUME stage = "again", Len(mStr) <= Len(sentText)
        PROVE  ~mError /\ ChunkString("mail") = Part(sentText, old["mail"])
    <2>1. Taken(sentText) /\ mType = "MyINFO" /\ rewritten = <<"desc">>
      BY <1>3 DEF MessageInv, AgainInv
    <2>2. PICK d : /\ IsDivision(d) /\ d.err = FALSE
                   /\ chunk = SplitChunks(mType, TextOf(mStr), d).ch
                   /\ mError = SplitChunks(mType, TextOf(mStr), d).err
      BY <1>3 DEF MessageInv, AgainInv
    <2>3. Len(rewritten) = 1 /\ Head(rewritten) = "desc"
      BY <2>1
    <2> DEFINE u == strings["desc"]
               m == TextOf(sentText)
               m1 == TextOf(mStr)
               r == DivideBy(Steps("MyINFO"), m, Untouched)
               r1 == DivideBy(Steps("MyINFO"), m1, d)
    <2>4. \A x, y : SplitChunks("MyINFO", x, y) = DivideBy(Steps("MyINFO"), x, y)
      BY DEF SplitChunks
    <2>5. Cut(sentText) = r /\ chunk = r1.ch /\ mError = r1.err
      BY <2>1, <2>2, <2>4 DEF Cut
    <2>6. /\ "mail" \notin DOMAIN strings /\ u \in Replacements
          /\ mStr = Put(sentText, r.ch["desc"], u) /\ r.err = FALSE
      BY <1>1, <2>3, <2>5 DEF MessageInv, PutInv
    <2>7. /\ sentText \in Seq(TextLetters) /\ mLen = Len(sentText) /\ mLen \in Nat /\ mKWSize \in Nat
          /\ mKWSize <= mLen
      BY <2>1 DEF Taken
    <2>8. u \in Seq(TextLetters) /\ \A h \in 1 .. Len(u) : u[h] # "$"
      <3>1. u \in Seq(STRING) /\ "$" \notin Range(u)
        BY <2>6 DEF MessageAssumption
      <3> HIDE DEF u
      <3>2. STRING \subseteq TextLetters
        BY DEF TextLetters
      <3>3. u \in Seq(TextLetters)
        BY ONLY <3>1, <3>2, WiderText, Zenon
      <3>4. \A h \in 1 .. Len(u) : u[h] # "$"
        <4>1. DOMAIN u = 1 .. Len(u)
          BY <3>1
        <4> QED
          BY <3>1, <4>1 DEF Range
      <3> QED
        BY <3>3, <3>4
    <2>9. IsText(m, sentText, mLen, mKWSize) /\ IsText(m1, mStr, mLen, mKWSize)
      BY <1>3, <2>7 DEF IsText, TextOf
    <2> HIDE DEF u, m, m1, r, r1
    <2>10. mStr \in Seq(TextLetters) /\ r1.err = FALSE /\ SameMail(r, r1, sentText, mStr)
      <3>1. r = DivideBy(Steps("MyINFO"), m, Untouched) /\ r1 = DivideBy(Steps("MyINFO"), m1, d)
        BY DEF r, r1
      <3>2. MailKept(TextLetters, sentText, u, mLen, mKWSize, m, Untouched, r, mStr, m1, d, r1)
        BY ONLY <2>2, <2>6, <2>7, <2>8, <2>9, <3>1, UntouchedIs DEF MailKept
      <3> QED
        BY ONLY <3>2, MailStays
    <2>11. ChunkString("mail") = Part(sentText, r.ch["mail"])
      <3>1. "mail" \notin DOMAIN strings
        BY <2>6
      <3> QED
        BY <2>5, <2>7, <2>10, <3>1, MailRead
    <2> QED
      BY <2>5, <2>10, <2>11
  <1>4. old = SplitChunks(mType, [s |-> sentText, len |-> mLen, kw |-> mKWSize], [ch |-> <<>>, err |-> FALSE]).ch
    BY DEF Cut, TextOf, Untouched
  <1> HIDE DEF old
  <1> QED
    BY <1>2, <1>3, <1>4 DEF OneRewrite

LEMMA MessageInvInit == ParserInit => MessageInv
  <1> SUFFICES ASSUME ParserInit PROVE MessageInv
    OBVIOUS
  <1>1. /\ stage = "ready" /\ chunk = <<>> /\ mError = FALSE /\ strings = <<>> /\ rewritten = <<>>
        /\ LongestWins
    BY LongestWinsInit DEF ParserInit
  <1>2. rewritten \in Seq({"nick", "text", "desc"}) /\ Len(rewritten) # 1 /\ "mail" \notin DOMAIN strings
    BY <1>1
  <1> QED
    BY <1>1, <1>2 DEF MessageInv, RestInv, ParsedInv, SplitInv, AgainInv, PutInv

\* A keyword is not longer than a message that begins with it.
LEMMA KeywordFits ==
    ASSUME NEW S, NEW s \in Seq(S), Recognise(s) # Unknown
    PROVE  Recognise(s) \in Known /\ Len(Keyword[Recognise(s)]) \in 0 .. Len(s)
  <1> DEFINE t == Recognise(s)
  <1>1. t \in Known /\ AreYou(s, Keyword[t])
    BY FirstIsLongest
  <1> HIDE DEF t
  <1>2. \E T : Keyword[t] \in Seq(T)
    <2>1. CASE t = "Chat"
      <3>1. Keyword[t] \in Seq({"<"})
        BY <2>1, KeywordOf
      <3> QED
        BY <3>1
    <2>2. CASE \E i \in Rows : t = Names[i]
      <3>1. Keyword[t] \in Seq(KeyLetters)
        BY <2>2, KeywordOf, TableRows
      <3> QED
        BY <3>1
    <2> QED
      BY <1>1, <2>1, <2>2, KeywordOf
  <1>3. PICK T : Keyword[t] \in Seq(T)
    BY <1>2
  <1>4. Len(Keyword[t]) <= Len(s) /\ Len(Keyword[t]) \in Nat /\ Len(s) \in Nat
    BY <1>1, <1>3, BeginsWith
  <1> QED
    BY <1>1, <1>4 DEF t

LEMMA TakeKeeps ==
    ASSUME MessageInv, stage = "ready", NEW s \in Lines, TakeMessage(s)
    PROVE  RestInv' /\ ParsedInv' /\ SplitInv' /\ AgainInv' /\ PutInv'
  <1>1. /\ chunk = <<>> /\ mError = FALSE /\ strings = <<>> /\ rewritten = <<>>
    BY DEF MessageInv, RestInv
  <1>2. /\ chunk' = chunk /\ mError' = mError /\ strings' = strings /\ rewritten' = rewritten
        /\ stage' \in {"parsed", "closed"}
    BY DEF TakeMessage, division, changing
  <1>3. ASSUME NEW k \in Seq(AllLetters), Parse(k) PROVE ParsedInv'
    <2>1. CASE Recognise(k) = Unknown
      BY <1>3, <2>1 DEF Parse, ParsedInv
    <2>2. CASE Recognise(k) # Unknown
      <3>1. mStr' = k /\ mType' = Recognise(k) /\ mKWSize' = Len(Keyword[Recognise(k)]) /\ mLen' = Len(k)
        BY <1>3, <2>2 DEF Parse
      <3>2. Recognise(k) \in Known /\ Len(Keyword[Recognise(k)]) \in 0 .. Len(k)
        BY <2>2, KeywordFits
      <3>3. k \in Seq(TextLetters)
        <4>1. AllLetters \subseteq TextLetters
          BY DEF TextLetters
        <4> QED
          BY ONLY <1>3, <4>1, WiderText, Zenon
      <3> HIDE DEF Known, Keyword, Recognise, TextLetters
      <3>4. Len(k) \in Nat
        BY <3>3
      <3> QED
        BY <3>1, <3>2, <3>3, <3>4 DEF ParsedInv, Taken
    <2> QED
      BY <2>1, <2>2
  <1>4. ParsedInv'
    <2>1. s \in Seq(AllLetters)
      BY LinesAreTexts
    <2> DEFINE kept == IF Recognise(s) = "Lock" THEN SubSeq(s, 1, UntilNull(s)) ELSE Trimmed(s)
    <2>2. kept \in Seq(AllLetters)
      BY <2>1, KeptIsText
    <2>3. Parse(kept) \/ Parse(s)
      BY DEF TakeMessage
    <2> HIDE DEF kept
    <2> QED
      BY <1>3, <2>1, <2>2, <2>3
  <1>5. RestInv' /\ SplitInv' /\ AgainInv'
    BY <1>1, <1>2 DEF RestInv, SplitInv, AgainInv
  <1>6. PutInv'
    <2>1. rewritten' = <<>>
      BY <1>1, <1>2
    <2>2. rewritten' \in Seq({"nick", "text", "desc"}) /\ Len(rewritten') # 1 /\ "mail" \notin DOMAIN strings'
      BY <1>1, <1>2, <2>1
    <2> QED
      BY <2>1, <2>2 DEF PutInv
  <1> QED
    BY <1>4, <1>5, <1>6

\* Nothing but the division follows from a message that stays as it is.
SameMessage == UNCHANGED <<mStr, mLen, mKWSize, mType, changing>>

LEMMA SameCut ==
    ASSUME SameMessage
    PROVE  /\ Taken(mStr)' <=> Taken(mStr)
           /\ Taken(sentText)' <=> Taken(sentText)
           /\ Cut(mStr)' = Cut(mStr) /\ Cut(sentText)' = Cut(sentText)
           /\ TextOf(mStr)' = TextOf(mStr)
           /\ strings' = strings /\ rewritten' = rewritten
           /\ mType' = mType /\ mStr' = mStr /\ sentText' = sentText
  BY DEF SameMessage, changing, Taken, Cut, TextOf

LEMMA PutStays == SameMessage /\ PutInv => PutInv'
  <1> SUFFICES ASSUME SameMessage, PutInv PROVE PutInv'
    OBVIOUS
  <1>1. /\ Cut(sentText)' = Cut(sentText) /\ strings' = strings /\ rewritten' = rewritten
        /\ mType' = mType /\ mStr' = mStr /\ sentText' = sentText
    BY SameCut
  <1> HIDE DEF Cut
  <1> QED
    BY <1>1 DEF PutInv

LEMMA DivisionKeeps ==
    ASSUME MessageInv, SplitMessage
    PROVE  RestInv' /\ ParsedInv' /\ SplitInv' /\ AgainInv' /\ PutInv'
  <1>1. /\ chunk = <<>> /\ mError = FALSE /\ strings = <<>> /\ rewritten = <<>>
        /\ Taken(mStr) /\ stage' = "split" /\ SameMessage
        /\ chunk' = Divided(mStr, mLen).ch /\ mError' = Divided(mStr, mLen).err
    BY DEF MessageInv, RestInv, ParsedInv, SplitMessage, SameMessage
  <1>2. Divided(mStr, mLen) = Cut(mStr)
    BY <1>1 DEF Divided, Cut, TextOf, Untouched
  <1>3. /\ Taken(mStr)' /\ Cut(mStr)' = Cut(mStr) /\ strings' = <<>> /\ rewritten' = <<>>
    BY <1>1, SameCut
  <1>4. Sent' = mStr'
    BY <1>3 DEF Sent
  <1>5. Taken(Sent)' /\ Cut(Sent)' = Cut(mStr)
    BY <1>3, <1>4 DEF Taken, Cut, TextOf
  <1>6. SplitInv'
    BY <1>1, <1>2, <1>3, <1>5 DEF SplitInv
  <1>7. RestInv' /\ ParsedInv' /\ AgainInv'
    BY <1>1 DEF RestInv, ParsedInv, AgainInv
  <1> QED
    BY <1>1, <1>6, <1>7, PutStays DEF MessageInv

LEMMA AgainKeeps ==
    ASSUME MessageInv, SplitAgain
    PROVE  RestInv' /\ ParsedInv' /\ SplitInv' /\ AgainInv' /\ PutInv'
  <1>1. /\ stage = "read" /\ mType = "MyINFO" /\ rewritten # <<>> /\ stage' = "again" /\ SameMessage
        /\ chunk' = Divided(mStr, mLen).ch /\ mError' = Divided(mStr, mLen).err
    BY DEF SplitAgain, SameMessage
  <1>2. rewritten = <<"desc">> /\ Taken(sentText) /\ mError = Cut(sentText).err
    BY <1>1 DEF MessageInv, SplitInv, PutInv, Sent
  <1>3. Cut(sentText).err = FALSE
    <2>1. Len(rewritten) = 1
      BY <1>2
    <2> QED
      BY <2>1 DEF MessageInv, PutInv
  <1> DEFINE d == [ch |-> chunk, err |-> mError]
  <1>4. IsDivision(d) /\ d.err = FALSE
    BY <1>2, <1>3 DEF IsDivision
  <1>5. Divided(mStr, mLen) = SplitChunks(mType, TextOf(mStr), d)
    BY DEF Divided, TextOf
  <1>6. /\ Taken(sentText)' /\ mType' = "MyINFO" /\ rewritten' = <<"desc">>
        /\ TextOf(mStr)' = TextOf(mStr) /\ mType' = mType
    BY <1>1, <1>2, SameCut
  <1> HIDE DEF d
  <1>7. /\ chunk' = SplitChunks(mType', TextOf(mStr)', d).ch
        /\ mError' = SplitChunks(mType', TextOf(mStr)', d).err
    BY <1>1, <1>5, <1>6
  <1>8. AgainInv'
    BY <1>4, <1>6, <1>7 DEF AgainInv
  <1>9. RestInv' /\ ParsedInv' /\ SplitInv'
    BY <1>1 DEF RestInv, ParsedInv, SplitInv
  <1> QED
    BY <1>1, <1>8, <1>9, PutStays DEF MessageInv

\* The fields that a plugin may replace begin within the message.
LEMMA ChatFieldsFit ==
    ASSUME NEW S, NEW s \in Seq(S), NEW n, n = Len(s), NEW kw \in 0 .. n, NEW m, IsText(m, s, n, kw),
           NEW r, r = DivideBy(Steps("Chat"), m, Untouched), r.err = FALSE
    PROVE  r.ch["nick"][1] \in 0 .. n /\ r.ch["text"][1] \in 0 .. n
  <1> DEFINE l == <<Field("nick", ClosesNick), Field("text", <<>>)>>
             q == <<Start(ClosesNick, "nick", "text")>>
  <1>1. r = DivideBy(q, m, Untouched)
    BY DEF Steps
  <1>2. n \in Nat /\ kw \in Nat /\ kw <= n
    OBVIOUS
  <1>3. IsMark(ClosesNick) /\ Named("text") /\ "nick" # "text"
    BY MarksAre, TheyAreNamed
  <1>4. Whole(r, s, n, kw, l, 1)
    <2>1. ASSUME NEW x, IsMark(x), NEW a, NEW b, Named(b), a # b
          PROVE  Whole(DivideBy(<<Start(x, a, b)>>, m, Untouched), s, n, kw,
                       <<Field(a, x), Field(b, <<>>)>>, 1)
      BY <1>2, <2>1, UntouchedIs, OneSplit
    <2> QED
      BY ONLY <1>1, <1>3, <2>1
  <1>5. l[1].n = "nick" /\ l[1 + 1].n = "text" /\ 1 \in 1 .. 1
    BY FieldIs
  <1> HIDE DEF l, q
  <1>6. CutSoFar(r, s, n, kw, l, 1, SkipAt(l, 1), "text")
    BY <1>4, <1>5 DEF Whole
  <1>7. PICK pos : LET x == Past(pos, l, kw, 1) + SkipAt(l, 1) IN
                   CutInto(r, s, kw, l, 1, pos) /\ x \in kw .. n /\ Stands(r, "text", x, n, kw)
    BY <1>6 DEF CutSoFar
  <1> DEFINE x == Past(pos, l, kw, 1) + SkipAt(l, 1)
  <1>8. CutInto(r, s, kw, l, 1, pos) /\ x \in kw .. n /\ Stands(r, "text", x, n, kw)
    BY <1>7
  <1> HIDE DEF x
  <1>9. r.ch["nick"][1] = kw
    BY <1>5, <1>8 DEF CutInto, FieldFrom, At2
  <1>10. At2(r, "text", x, n - x)
    BY <1>3, <1>8, NamedStands
  <1>11. r.ch["text"][1] = x
    BY <1>10 DEF At2
  <1> QED
    BY <1>2, <1>8, <1>9, <1>11

LEMMA DescriptionFits ==
    ASSUME NEW S, NEW s \in Seq(S), NEW n, n = Len(s), NEW kw \in 0 .. n, NEW m, IsText(m, s, n, kw),
           NEW r, r = DivideBy(Steps("MyINFO"), m, Untouched), r.err = FALSE
    PROVE  r.ch["desc"][1] \in 0 .. n
  <1>1. n \in Nat /\ kw \in Nat /\ kw <= n
    OBVIOUS
  <1>2. MyINFOCut(r, s, n, kw, Layout("MyINFO"))
    BY <1>1, UntouchedIs, MyINFODivided
  <1>3. \E a, b, c, e, f : /\ MyINFOPlaces(s, kw, a, b, c, e, f)
                           /\ At2(r, "desc", b + 1, c - (b + 1)) /\ At2(r, "mail", e + 1, f - (e + 1))
    BY <1>1, <1>2, PlacesOf
  <1>4. PICK a, b, c, e, f : MyINFOPlaces(s, kw, a, b, c, e, f) /\ At2(r, "desc", b + 1, c - (b + 1))
    BY <1>3
  <1>5. b \in Nat /\ b + 1 <= n
    BY <1>1, <1>4 DEF MyINFOPlaces, LetterAt
  <1>6. r.ch["desc"][1] = b + 1
    BY <1>4 DEF At2
  <1> QED
    BY <1>1, <1>5, <1>6

LEMMA FieldFits ==
    ASSUME Taken(mStr), chunk = Cut(mStr).ch, Cut(mStr).err = FALSE, NEW n,
           \/ mType = "Chat" /\ n \in {"nick", "text"}
           \/ mType = "MyINFO" /\ n = "desc"
    PROVE  chunk[n][1] \in 0 .. Len(mStr)
  <1> DEFINE m == TextOf(mStr)
             r == DivideBy(Steps(mType), m, Untouched)
  <1>1. \A x, y : SplitChunks("MyINFO", x, y) = DivideBy(Steps("MyINFO"), x, y)
    BY DEF SplitChunks
  <1>2. \A x, y : SplitChunks("Chat", x, y) = DivideBy(Steps("Chat"), x, y)
    BY DEF SplitChunks
  <1>3. chunk = r.ch /\ r.err = FALSE
    BY <1>1, <1>2 DEF Cut
  <1>4. /\ mStr \in Seq(TextLetters) /\ mLen = Len(mStr) /\ mKWSize \in 0 .. mLen /\ mLen \in Nat
    BY DEF Taken
  <1>5. IsText(m, mStr, mLen, mKWSize)
    BY <1>4 DEF IsText, TextOf
  <1> HIDE DEF m
  <1>6. CASE mType = "Chat"
    <2>1. r = DivideBy(Steps("Chat"), m, Untouched)
      BY <1>6
    <2> HIDE DEF r
    <2>2. r.ch["nick"][1] \in 0 .. mLen /\ r.ch["text"][1] \in 0 .. mLen
      BY <1>3, <1>4, <1>5, <2>1, ChatFieldsFit
    <2> QED
      BY <1>3, <1>4, <1>6, <2>2
  <1>7. CASE mType = "MyINFO"
    <2>1. r = DivideBy(Steps("MyINFO"), m, Untouched)
      BY <1>7
    <2> HIDE DEF r
    <2>2. r.ch["desc"][1] \in 0 .. mLen
      BY <1>3, <1>4, <1>5, <2>1, DescriptionFits
    <2> QED
      BY <1>3, <1>4, <1>7, <2>2
  <1> QED
    BY <1>6, <1>7

LEMMA RewriteKeeps ==
    ASSUME MessageInv, stage = "read", NEW n, NEW wording \in Replacements, Rewrite(n, wording)
    PROVE  RestInv' /\ ParsedInv' /\ SplitInv' /\ AgainInv' /\ PutInv'
  <1>1. /\ mError = FALSE /\ Len(rewritten) < 2
        /\ stage' = "read" /\ mLen' = mLen /\ mKWSize' = mKWSize /\ mType' = mType
        /\ chunk' = chunk /\ mError' = mError
        /\ \/ mType = "Chat" /\ n \in {"nick", "text"}
           \/ mType = "MyINFO" /\ n = "desc" /\ rewritten = <<>>
    <2>1. mError \in BOOLEAN
      <3>1. CASE rewritten = <<>>
        <4> DEFINE m == TextOf(mStr)
        <4>1. mError = Cut(mStr).err /\ mType \in Known
          BY <3>1 DEF MessageInv, SplitInv, Sent, Taken
        <4>2. IsDivision(SplitChunks(mType, m, Untouched))
          BY <4>1, UntouchedIs, ChunksAreDivision
        <4> QED
          BY <4>1, <4>2 DEF IsDivision, Cut
      <3>2. CASE rewritten # <<>>
        <4> DEFINE m == TextOf(sentText)
        <4>1. mError = Cut(sentText).err /\ mType \in Known
          BY <3>2 DEF MessageInv, SplitInv, Sent, Taken
        <4>2. IsDivision(SplitChunks(mType, m, Untouched))
          BY <4>1, UntouchedIs, ChunksAreDivision
        <4> QED
          BY <4>1, <4>2 DEF IsDivision, Cut
      <3> QED
        BY <3>1, <3>2
    <2> QED
      BY <2>1 DEF Rewrite, ChangesChat, ChangesDesc, division
  <1>2. /\ mStr' = IF chunk[n][1] > Len(mStr) THEN mStr ELSE Put(mStr, chunk[n], wording)
        /\ sentText' = IF rewritten = <<>> THEN mStr ELSE sentText
        /\ strings' = With(strings, n, wording) /\ rewritten' = Append(rewritten, n)
    BY DEF Rewrite, ApplyChunk, Put
  <1>3. RestInv' /\ ParsedInv' /\ AgainInv'
    BY <1>1 DEF RestInv, ParsedInv, AgainInv
  <1>4. rewritten \in Seq({"nick", "text", "desc"}) /\ n \in {"nick", "text", "desc"}
    BY <1>1 DEF MessageInv, PutInv
  <1>5. /\ rewritten' \in Seq({"nick", "text", "desc"}) /\ Len(rewritten') = Len(rewritten) + 1
        /\ rewritten' # <<>>
    BY <1>2, <1>4
  <1>6. sentText' = Sent
    BY <1>2 DEF Sent
  <1>7. Taken(Sent) /\ chunk = Cut(Sent).ch /\ mError = Cut(Sent).err
    BY DEF MessageInv, SplitInv
  <1>8. Cut(sentText)' = Cut(Sent) /\ Taken(sentText)'
    BY <1>1, <1>6, <1>7 DEF Cut, TextOf, Taken
  <1>9. SplitInv'
    <2>1. Sent' = sentText'
      BY <1>5 DEF Sent
    <2>2. Taken(Sent)' /\ Cut(Sent)' = Cut(sentText)'
      BY <1>8, <2>1 DEF Taken, Cut, TextOf
    <2> QED
      BY <1>1, <1>5, <1>7, <1>8, <2>2 DEF SplitInv
  <1>12. "mail" \notin DOMAIN strings'
    BY <1>2, <1>4 DEF With, MessageInv, PutInv
  <1>10. CASE rewritten = <<>>
    <2>1. Taken(mStr) /\ chunk = Cut(mStr).ch /\ Cut(mStr).err = FALSE
      BY <1>1, <1>7, <1>10 DEF Sent
    <2>2. ~(chunk[n][1] > Len(mStr))
      <3>1. Len(mStr) \in Nat /\ chunk[n][1] \in 0 .. Len(mStr)
        BY <1>1, <2>1, FieldFits DEF Taken
      <3> QED
        BY <3>1
    <2>3. mStr' = Put(mStr, chunk[n], wording) /\ sentText' = mStr
      BY <1>2, <1>10, <2>2
    <2>5. strings'[n] = wording
      BY <1>2 DEF With
    <2>6. rewritten' = <<n>> /\ Head(rewritten') = n
      BY <1>2, <1>10
    <2>7. mStr' = Put(sentText', Cut(sentText)'.ch[n], strings'[n]) /\ Cut(sentText)'.err = FALSE
      BY <1>1, <1>6, <1>7, <1>8, <2>3, <2>5
    <2>8. mType' = "MyINFO" => rewritten' = <<"desc">>
      BY <1>1, <2>6
    <2>9. PutInv'
      BY <1>5, <1>12, <2>5, <2>6, <2>7, <2>8 DEF PutInv
    <2> QED
      BY <1>3, <1>9, <2>9
  <1>11. CASE rewritten # <<>>
    <2>1. Len(rewritten) # 0
      BY <1>4, <1>11
    <2>2. Len(rewritten') # 1
      BY <1>4, <1>5, <2>1
    <2>3. mType' # "MyINFO"
      BY <1>1, <1>11
    <2>4. PutInv'
      BY <1>5, <1>12, <2>2, <2>3 DEF PutInv
    <2> QED
      BY <1>3, <1>9, <2>4
  <1> QED
    BY <1>10, <1>11

LEMMA ReadKeeps ==
    ASSUME MessageInv, ReadFields
    PROVE  RestInv' /\ ParsedInv' /\ SplitInv' /\ AgainInv' /\ PutInv'
  <1>1. /\ stage = "split" /\ stage' = "read" /\ mStr' = mStr /\ mLen' = mLen /\ mKWSize' = mKWSize
        /\ mType' = mType /\ chunk' = chunk /\ mError' = mError /\ rewritten' = rewritten
        /\ DOMAIN strings' = FieldsRead
    BY DEF ReadFields, division
  <1>2. rewritten = <<>> /\ Taken(mStr) /\ chunk = Cut(mStr).ch /\ mError = Cut(mStr).err
    BY <1>1 DEF MessageInv, SplitInv, Sent
  <1>3. Taken(mStr)' /\ Cut(mStr)' = Cut(mStr) /\ Sent' = mStr'
    BY <1>1, <1>2 DEF Taken, Cut, TextOf, Sent
  <1>4. Taken(Sent)' /\ Cut(Sent)' = Cut(mStr)
    BY <1>3 DEF Taken, Cut, TextOf
  <1>5. SplitInv'
    BY <1>1, <1>2, <1>4 DEF SplitInv
  <1>6. "mail" \notin FieldsRead
    BY DEF FieldsRead
  <1>7. PutInv'
    <2>1. rewritten' = <<>> /\ Len(rewritten') # 1 /\ rewritten' \in Seq({"nick", "text", "desc"})
      BY <1>1, <1>2
    <2> QED
      BY <1>1, <1>6, <2>1 DEF PutInv
  <1> QED
    BY <1>1, <1>5, <1>7 DEF RestInv, ParsedInv, AgainInv

LEMMA StayKeeps ==
    ASSUME MessageInv, UNCHANGED parserVars
    PROVE  RestInv' /\ ParsedInv' /\ SplitInv' /\ AgainInv' /\ PutInv'
  <1>1. /\ stage' = stage /\ mStr' = mStr /\ mLen' = mLen /\ mKWSize' = mKWSize /\ mType' = mType
        /\ chunk' = chunk /\ mError' = mError /\ strings' = strings /\ rewritten' = rewritten
        /\ sentText' = sentText /\ SameMessage
    BY DEF parserVars, division, changing, SameMessage
  <1>2. /\ Taken(mStr)' <=> Taken(mStr)
        /\ Taken(sentText)' <=> Taken(sentText)
        /\ TextOf(mStr)' = TextOf(mStr)
    BY <1>1, SameCut
  <1>3. Sent' = Sent
    BY <1>1 DEF Sent
  <1>4. (Taken(Sent)' <=> Taken(Sent)) /\ Cut(Sent)' = Cut(Sent)
    BY <1>1, <1>3 DEF Taken, Cut, TextOf
  <1>5. RestInv' /\ ParsedInv'
    BY <1>1, <1>2 DEF MessageInv, RestInv, ParsedInv
  <1>6. SplitInv'
    BY <1>1, <1>4 DEF MessageInv, SplitInv
  <1>7. AgainInv'
    BY <1>1, <1>2 DEF MessageInv, AgainInv
  <1> QED
    BY <1>1, <1>5, <1>6, <1>7, PutStays DEF MessageInv

LEMMA MessageInvNext ==
    MessageInv /\ [ParserNext]_parserVars => MessageInv'
  <1> SUFFICES ASSUME MessageInv, [ParserNext]_parserVars PROVE MessageInv'
    OBVIOUS
  <1>1. LongestWins'
    BY LongestWinsNext DEF MessageInv
  <1>2. ASSUME ReInit PROVE RestInv' /\ ParsedInv' /\ SplitInv' /\ AgainInv' /\ PutInv'
    <2>1. /\ stage' = "ready" /\ chunk' = <<>> /\ mError' = FALSE /\ strings' = <<>> /\ rewritten' = <<>>
      BY <1>2 DEF ReInit
    <2>2. rewritten' \in Seq({"nick", "text", "desc"}) /\ Len(rewritten') # 1 /\ "mail" \notin DOMAIN strings'
      BY <2>1
    <2> QED
      BY <2>1, <2>2 DEF RestInv, ParsedInv, SplitInv, AgainInv, PutInv
  <1>3. ASSUME NEW n, NEW wording \in Replacements, stage = "read", Rewrite(n, wording)
        PROVE  RestInv' /\ ParsedInv' /\ SplitInv' /\ AgainInv' /\ PutInv'
    BY <1>3, RewriteKeeps
  <1>4. ASSUME NEW s \in Lines, stage = "ready", TakeMessage(s)
        PROVE  RestInv' /\ ParsedInv' /\ SplitInv' /\ AgainInv' /\ PutInv'
    BY <1>4, TakeKeeps
  <1>5. RestInv' /\ ParsedInv' /\ SplitInv' /\ AgainInv' /\ PutInv'
    <2>1. CASE ReInit \/ SplitMessage \/ ReadFields \/ SplitAgain \/ UNCHANGED parserVars
      BY <1>2, <2>1, DivisionKeeps, ReadKeeps, AgainKeeps, StayKeeps
    <2>2. CASE stage = "ready" /\ \E s \in Lines : TakeMessage(s)
      BY <1>4, <2>2
    <2>3. CASE stage = "read" /\ \E n \in {"nick", "text", "desc"}, wording \in Replacements : Rewrite(n, wording)
      BY <1>3, <2>3
    <2> QED
      BY <2>1, <2>2, <2>3 DEF ParserNext
  <1> QED
    BY <1>1, <1>5 DEF MessageInv

\* What the parser guarantees of every message: the longest keyword, a division
\* in which the fields tile the message (cprotocol.cpp, SplitOnTwo; cmessagedc.cpp,
\* SplitChunks), and one field replaced with the rest left alone (ApplyChunk).
\* No text that a plugin puts in holds a dollar, which would end the field.
THEOREM MessageRightAlways ==
    ASSUME \A w \in Replacements : "$" \notin Range(w)
    PROVE  ParserInit /\ [][ParserNext]_parserVars => []MessageRight
  <1>1. MessageInv => MessageRight
    <2>1. MessageInv => LongestWins
      BY DEF MessageInv
    <2> QED
      BY <2>1, InvGivesFields, InvGivesRewrite, MessageAssumption DEF MessageRight
  <1> QED
    BY <1>1, MessageInvInit, MessageInvNext, PTL
=============================================================================
