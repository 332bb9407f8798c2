------------------------------- MODULE Message -------------------------------
(***************************************************************************)
(* One incoming message between the moment its end has come and its        *)
(* handler: null characters, recognition of the command, the division into *)
(* chunks (cMessageParser, cMessageDC) and what plugins put in the place   *)
(* of a chunk.                                                             *)
(*                                                                         *)
(* A message is a sequence of letters.  A keyword, with the blank that     *)
(* ends it, counts as one letter, "$Search Hub:" as the two that it shares *)
(* with others, "Null" is the null character.  Positions count from zero   *)
(* as in the code.  The parser lives as long as its connection: a string   *)
(* made from an earlier message is Stale.                                  *)
(***************************************************************************)
EXTENDS Integers, Sequences, FiniteSets, SequencesExt

CONSTANTS
    BodyLength,     \* message type -> bound on the letters after its keyword
    Replacements    \* texts that plugins put in

ASSUME MessageAssumption ==
    /\ BodyLength \in [DOMAIN BodyLength -> Nat]
    /\ \A r \in Replacements : r \in Seq(STRING)

VARIABLES
    stage,     \* "ready", "parsed", "split", "read" (by the handler), "again" (after a plugin),
               \* "closed"
    mStr, mLen, mKWSize, mType,
    chunk,     \* mChunks: name -> <<first, second>>, those not set are <<0, 0>>
    mError,
    strings,       \* mChStrMap: chunks whose string was made, mChStrings
    thrown,    \* an exception nobody catches
    rewritten, \* history: the chunks replaced, in order
    sentText   \* history: the message before the first of them

division == <<chunk, mError>>
changing == <<strings, thrown, rewritten, sentText>>
parserVars == <<stage, mStr, mLen, mKWSize, mType, division, changing>>

Unparsed == "unparsed"
Unknown == "unknown"
Stale == <<"stale">>

-----------------------------------------------------------------------------
(* Recognition *)

\* sDC_Commands, which is searched from the start; "<" is looked at before
Commands == <<
    <<"ConnectToMe", <<"$ConnectToMe">>>>, <<"RevConnectToMe", <<"$RevConnectToMe">>>>,
    <<"SR", <<"$SR">>>>, <<"SearchPas", <<"$Search", "Hub:">>>>, <<"Search", <<"$Search">>>>,
    <<"SA", <<"$SA">>>>, <<"SP", <<"$SP">>>>, <<"MyINFO", <<"$MyINFO">>>>,
    <<"ExtJSON", <<"$ExtJSON">>>>, <<"OneParameter", <<"$Key">>>>, <<"To", <<"$To:">>>>,
    <<"GetINFO", <<"$GetINFO">>>>, <<"OpForceMove", <<"$OpForceMove">>>>,
    <<"MSearchPas", <<"$MultiSearch", "Hub:">>>>, <<"MSearch", <<"$MultiSearch">>>>,
    <<"MCTo", <<"$MCTo:">>>>, <<"Ban", <<"$Ban">>>>, <<"TempBan", <<"$TempBan">>>>,
    <<"MyIP", <<"$MyIP">>>>, <<"Lock", <<"$Lock">>>>, <<"IN", <<"$IN">>>>>>

Known == {c[1] : c \in Range(Commands)} \cup {"Chat"}
Keyword == [t \in Known |-> IF t = "Chat" THEN <<"<">>
                            ELSE (CHOOSE c \in Range(Commands) : c[1] = t)[2]]

AreYou(s, kw) == IsPrefix(kw, s)

\* the first in the table, the chat before
Recognise(s) ==
    IF s = <<>> THEN Unknown
    ELSE IF Head(s) = "<" THEN "Chat"
    ELSE LET mine == {i \in DOMAIN Commands : AreYou(s, Commands[i][2])} IN
         IF mine = {} THEN Unknown ELSE Commands[Min(mine)][1]

\* an unknown message keeps the length 0 of ReInit
Parse(s) ==
    LET t == Recognise(s) IN
    /\ mStr' = s
    /\ mType' = t
    /\ mKWSize' = IF t = Unknown THEN 0 ELSE Len(Keyword[t])
    /\ mLen' = IF t = Unknown THEN 0 ELSE Len(s)

-----------------------------------------------------------------------------
(* Division.  A division is a record [ch, err]: mChunks and mError.        *)

\* string::find and string::rfind, -1 for npos
Is(s, lim, i) == i >= 0 /\ i + Len(lim) <= Len(s) /\ SubSeq(s, i + 1, i + Len(lim)) = lim
Found0(s, lim, from) == {i \in from..(Len(s) - Len(lim)) : Is(s, lim, i)}
Find(s, lim, from) ==
    LET f == Found0(s, lim, from) IN IF f = {} THEN -1 ELSE CHOOSE i \in f : \A j \in f : i <= j
RFind(s, lim, upto) ==
    LET f == {i \in Found0(s, lim, 0) : i <= upto}
    IN IF f = {} THEN -1 ELSE CHOOSE i \in f : \A j \in f : j <= i

With(f, n, x) == [k \in DOMAIN f \cup {n} |-> IF k = n THEN x ELSE f[k]]
SetChunk(d, n, first, second) == [d EXCEPT !.ch = With(@, n, <<first, second>>)]
Chunk(d, n) == IF n \in DOMAIN d.ch THEN d.ch[n] ELSE <<0, 0>>
Failed(d) == [d EXCEPT !.err = TRUE]

\* a length of 0 means the whole message, a negative one is a huge size_t;
\* the second part goes to the end of the message, whatever was split
SplitAt(d, m, start, lim, a, b, length, left) ==
    LET len == IF length = 0 THEN m.len ELSE length
        i == IF left THEN Find(m.s, lim, start) ELSE RFind(m.s, lim, start + len - Len(lim))
        none == i = -1 \/ IF left THEN len >= 0 /\ i - start >= len ELSE i < start
    IN IF none THEN Failed(d)
       ELSE SetChunk(SetChunk(d, a, start, i - start), b, i + Len(lim), m.len - i - Len(lim))

\* SplitOnTwo of a chunk
SplitOnTwo(d, m, step) ==
    SplitAt(d, m, IF step.of = "" THEN m.kw ELSE Chunk(d, step.of)[1], step.lim, step.a, step.b,
            IF step.of = "" THEN 0 ELSE Chunk(d, step.of)[2], step.left)


ChunkRedLeft(d, m, n, amount) ==
    IF Chunk(d, n)[1] + amount < m.len
    THEN SetChunk(d, n, Chunk(d, n)[1] + amount, Chunk(d, n)[2] - amount)
    ELSE Failed(d)
\* of the right end, whose name in the code is ChunkIncLeft when it grows
ChunkRedRight(d, n, amount) == SetChunk(d, n, Chunk(d, n)[1], Chunk(d, n)[2] - amount)

\* the steps of SplitChunks
Start(lim, a, b) == [do |-> "split", of |-> "", lim |-> lim, a |-> a, b |-> b, left |-> TRUE]
Split(of, lim, a, b) == [do |-> "split", of |-> of, lim |-> lim, a |-> a, b |-> b, left |-> TRUE]
SplitEnd(of, lim, a, b) == [Split(of, lim, a, b) EXCEPT !.left = FALSE]
Skip(of, amount) == [do |-> "skip", of |-> of, amount |-> amount]
Trim(of, amount) == [do |-> "trim", of |-> of, amount |-> amount]

Space == "space"
Blank == <<Space>>
Dollar == <<"$">>
Colon == <<":">>
Mark == <<"?">>
Five == <<"5">>
From == <<Space, "F">>         \* " From: "
OpensNick == <<Space, "$<">>   \* " $<"
ClosesNick == <<">", Space>>
WhereSize == 2               \* of "Where:", 6 in the code
MsgSize == 1                 \* of "Msg:", 4 in the code

PassiveSteps == <<Start(Blank, "nick", "query"), SplitEnd("query", Mark, "limits", "pattern"), Trim("limits", -1)>>
ActiveSteps == <<Start(Blank, "addr", "query"), Split("addr", Colon, "ip", "port"),
                 Split("port", Blank, "port", "query"),
                 SplitEnd("query", Mark, "limits", "pattern"), Trim("limits", -1)>>
MyINFOSteps == <<Start(Blank, "dest", "nick"), Split("nick", Blank, "nick", "info"),
                 Split("info", Dollar, "desc", "speed"), Skip("speed", 2),
                 Split("speed", Dollar, "speed", "mail"), Split("mail", Dollar, "mail", "size"),
                 Trim("size", 1)>>
OpForceMoveSteps == <<Start(Dollar, "nick", "dest"), Skip("dest", WhereSize),
                      Split("dest", Dollar, "dest", "reason"), Skip("reason", MsgSize)>>
ResultSteps == <<Start(Blank, "from", "path"), Split("path", Five, "path", "size"),
                 SplitEnd("size", Five, "info", "to")>>
ToSteps == <<Start(From, "to", "from"), Split("from", OpensNick, "from", "said"),
             Split("said", ClosesNick, "nick", "text")>>

Steps(t) ==
    CASE t = "ConnectToMe" -> <<Start(Blank, "nick", "active"), Split("active", Colon, "ip", "port")>>
      [] t = "RevConnectToMe" -> <<Start(Blank, "nick", "other")>>
      [] t = "SR" -> ResultSteps
      [] t \in {"SearchPas", "MSearchPas"} -> PassiveSteps
      [] t \in {"Search", "MSearch"} -> ActiveSteps
      [] t = "SA" -> <<Start(Blank, "tth", "addr"), Split("addr", Colon, "ip", "port")>>
      [] t = "SP" -> <<Start(Blank, "tth", "nick")>>
      [] t = "MyINFO" -> MyINFOSteps
      [] t = "ExtJSON" -> <<Start(Blank, "nick", "pars")>>
      [] t = "MyIP" -> <<Start(Blank, "ip", "vers")>>
      [] t = "To" -> ToSteps
      [] t = "Chat" -> <<Start(ClosesNick, "nick", "text")>>
      [] t = "GetINFO" -> <<Start(Blank, "other", "nick")>>
      [] t = "OpForceMove" -> OpForceMoveSteps
      [] t = "MCTo" -> <<Start(OpensNick, "to", "said"), Split("said", Blank, "nick", "text")>>
      [] t = "Ban" -> <<Start(Dollar, "nick", "reason")>>
      [] t = "TempBan" -> <<Start(Dollar, "nick", "time"), Split("time", Dollar, "time", "reason")>>
      [] t = "IN" -> <<Start(Dollar, "nick", "data")>>
      [] OTHER -> <<>>

\* the middle of a search result: with a size, or without
SizeOfResult(d, m) ==
    LET sized == SplitOnTwo([d EXCEPT !.err = FALSE], m, Split("info", Five, "size", "info"))
        slots == SplitOnTwo([sized EXCEPT !.err = d.err], m, Split("size", Blank, "size", "slots"))
    IN IF sized.err THEN SetChunk(d, "size", 0, 0)
       ELSE SplitOnTwo(slots, m, Split("slots", <<"/">>, "free", "all"))

Divide(d, m, step) ==
    CASE step.do = "split" -> SplitOnTwo(d, m, step)
      [] step.do = "skip" -> ChunkRedLeft(d, m, step.of, step.amount)
      [] OTHER -> ChunkRedRight(d, step.of, step.amount)

\* every step is taken, also after one that failed
DivideBy(steps, m, d0) ==
    LET after[i \in 0 .. Len(steps)] ==
            IF i = 0 THEN d0 ELSE Divide(after[i - 1], m, steps[i])
    IN after[Len(steps)]

SplitChunks(t, m, d0) ==
    IF t = "SR" THEN SizeOfResult(DivideBy(Steps(t), m, d0), m)
    ELSE IF t = "OneParameter" \/ t = "Lock" THEN SetChunk(d0, "par", m.kw, m.len - m.kw)
    ELSE DivideBy(Steps(t), m, d0)

-----------------------------------------------------------------------------
(* Chunks as strings *)

Valid(c) == c[1] >= 0 /\ c[2] >= 0 /\ c[1] <= Len(mStr) /\ c[2] <= Len(mStr)

Part(s, c) == SubSeq(s, c[1] + 1, IF c[1] + c[2] < Len(s) THEN c[1] + c[2] ELSE Len(s))

\* ChunkString: one that does not fit keeps what was there, of another message
ChunkString(n) ==
    IF n \in DOMAIN strings THEN strings[n]
    ELSE IF Valid(chunk[n]) THEN Part(mStr, chunk[n])
    ELSE Stale

\* ApplyChunk: the place and the length are those of SplitChunks
ApplyChunk(n, text) ==
    /\ thrown' = (chunk[n][1] > Len(mStr))
    /\ mStr' = IF chunk[n][1] > Len(mStr) THEN mStr
               ELSE SubSeq(mStr, 1, chunk[n][1]) \o text
                      \o SubSeq(mStr, chunk[n][1] + chunk[n][2] + 1, Len(mStr))
    /\ sentText' = IF rewritten = <<>> THEN mStr ELSE sentText
    /\ strings' = With(strings, n, text)
    /\ rewritten' = Append(rewritten, n)

-----------------------------------------------------------------------------
(* The life of a message *)

Null == "Null"
UntilNull(s) == SelectInSeq(s, LAMBDA x : x = Null) - 1
HasNull(s) == Contains(s, Null)
\* the message without the nulls at its end
Trimmed(s) ==
    LET ends == {i \in 0..Len(s) : \A j \in (i + 1)..Len(s) : s[j] = Null}
    IN SubSeq(s, 1, CHOOSE i \in ends : \A j \in ends : i <= j)

\* ReInit, for the next message; after an exception, of the hub that is started again
ReInit ==
    /\ stage # "ready"
    /\ stage' = "ready"
    /\ mStr' = <<>> /\ mLen' = 0 /\ mKWSize' = 0 /\ mType' = Unparsed
    /\ chunk' = <<>> /\ mError' = FALSE
    /\ strings' = <<>> /\ thrown' = FALSE /\ rewritten' = <<>> /\ sentText' = <<>>

\* OnNewMessage and the first half of TreatMsg; unknown messages are not searched
TakeMessage(s) ==
    /\ IF HasNull(s) /\ Recognise(s) # Unknown
       THEN LET kept == IF Recognise(s) = "Lock" THEN SubSeq(s, 1, UntilNull(s)) ELSE Trimmed(s)
            IN /\ Parse(kept)
               /\ stage' = IF kept = s \/ HasNull(kept) THEN "closed" ELSE "parsed"
       ELSE Parse(s) /\ stage' = "parsed"
    /\ UNCHANGED <<division, changing>>

Divided(s, len) == SplitChunks(mType, [s |-> s, len |-> len, kw |-> mKWSize],
                               [ch |-> chunk, err |-> mError])

\* CheckProtoSyntax: a message with an error ends its connection
SplitMessage ==
    /\ stage = "parsed" /\ mType # Unknown
    /\ chunk' = Divided(mStr, mLen).ch /\ mError' = Divided(mStr, mLen).err
    /\ stage' = "split"
    /\ UNCHANGED <<mStr, mLen, mKWSize, mType, changing>>

\* what DC_Chat and DC_MyINFO look at before they ask the plugins
FieldsRead == IF mType = "Chat" THEN {"nick", "text"} ELSE {"nick", "desc", "speed", "size"}
ReadFields ==
    /\ stage = "split" /\ ~mError /\ mType \in {"Chat", "MyINFO"}
    /\ strings' = [n \in FieldsRead |-> ChunkString(n)]
    /\ stage' = "read"
    /\ UNCHANGED <<mStr, mLen, mKWSize, mType, division, thrown, rewritten, sentText>>

\* a plugin puts its text in the place of a chunk: python scripts of a chat
\* message, one after the other; isp of the description, once
ChangesChat(n) == mType = "Chat" /\ n \in {"nick", "text"}
ChangesDesc(n) == mType = "MyINFO" /\ n = "desc" /\ rewritten = <<>>
Rewrite(n, text) ==
    /\ ~mError /\ ~thrown /\ Len(rewritten) < 2
    /\ ChangesChat(n) \/ ChangesDesc(n)
    /\ ApplyChunk(n, text)
    /\ UNCHANGED <<stage, mLen, mKWSize, mType, division>>

\* DC_MyINFO divides a modified message again, with the length it had before
SplitAgain ==
    /\ stage = "read" /\ mType = "MyINFO" /\ rewritten # <<>>
    /\ chunk' = Divided(mStr, mLen).ch /\ mError' = Divided(mStr, mLen).err
    /\ stage' = "again"
    /\ UNCHANGED <<mStr, mLen, mKWSize, mType, changing>>

\* the messages: a keyword and the letters that its division tells apart
Letters(t) ==
    CASE t = "OneParameter" -> {"a"}
      [] t = "Lock" -> {"a", Null}
      [] t \in {"RevConnectToMe", "SP", "ExtJSON", "GetINFO", "MyIP"} -> {"a", Space, Null}
      [] t \in {"ConnectToMe", "SA"} -> {"a", Space, ":"}
      [] t = "SR" -> {"a", Space, "5", "/"}
      [] t \in {"SearchPas", "MSearchPas"} -> {"a", Space, "?"}
      [] t \in {"Search", "MSearch"} -> {"a", Space, ":", "?", "Hub:"}
      [] t \in {"MyINFO", "MCTo"} -> {"a", Space, "$", "$<"} \ (IF t = "MyINFO" THEN {"$<"} ELSE {"$"})
      [] t = "To" -> {Space, "F", "$<", ">"}
      [] t = "Chat" -> {"a", Space, ">"}
      [] OTHER -> {"a", "$"}

Lines == {<<>>, <<"$What", "a", Null>>}
           \cup UNION {{Keyword[t] \o b : b \in UNION {[1..k -> Letters(t)] : k \in 0..BodyLength[t]}} : t \in Known}

ParserInit ==
    /\ stage = "ready" /\ mStr = <<>> /\ mLen = 0 /\ mKWSize = 0 /\ mType = Unparsed
    /\ chunk = <<>> /\ mError = FALSE
    /\ strings = <<>> /\ thrown = FALSE /\ rewritten = <<>> /\ sentText = <<>>

ParserNext ==
    \/ ReInit \/ SplitMessage \/ ReadFields \/ SplitAgain
    \/ stage = "ready" /\ \E s \in Lines : TakeMessage(s)
    \/ stage = "read" /\ \E n \in {"nick", "text", "desc"}, text \in Replacements : Rewrite(n, text)

-----------------------------------------------------------------------------
(* Properties *)

(***************************************************************************)
(* No handler sees a null character, and a message is taken for the        *)
(* command with the longest keyword that it begins with: the table is      *)
(* searched from its start (cmessagedc.cpp, TreatMsg).                     *)
(***************************************************************************)
LongestWins ==
    stage = "parsed" /\ mType # Unknown =>
        /\ ~HasNull(mStr)
        /\ AreYou(mStr, Keyword[mType])
        /\ \A t \in Known : AreYou(mStr, Keyword[t]) => Len(Keyword[t]) <= mKWSize

\* the fields in their order, each with what stands between it and the next
Field(n, d) == [n |-> n, d |-> d, skip |-> 0]
Layout(t) ==
    CASE t = "ConnectToMe" -> <<Field("nick", Blank), Field("ip", Colon), Field("port", <<>>)>>
      [] t = "RevConnectToMe" -> <<Field("nick", Blank), Field("other", <<>>)>>
      [] t \in {"SearchPas", "MSearchPas"} ->
           <<Field("nick", Blank), Field("limits", <<>>), Field("pattern", <<>>)>>
      [] t \in {"Search", "MSearch"} ->
           <<Field("ip", Colon), Field("port", Blank), Field("limits", <<>>), Field("pattern", <<>>)>>
      [] t = "SA" -> <<Field("tth", Blank), Field("ip", Colon), Field("port", <<>>)>>
      [] t = "SP" -> <<Field("tth", Blank), Field("nick", <<>>)>>
      [] t = "MyINFO" ->
           <<Field("dest", Blank), Field("nick", Blank), [Field("desc", Dollar) EXCEPT !.skip = 2],
             Field("speed", Dollar), Field("mail", Dollar), Field("size", <<>>)>>
      [] t = "ExtJSON" -> <<Field("nick", Blank), Field("pars", <<>>)>>
      [] t = "MyIP" -> <<Field("ip", Blank), Field("vers", <<>>)>>
      [] t = "To" -> <<Field("to", From), Field("from", OpensNick), Field("nick", ClosesNick), Field("text", <<>>)>>
      [] t = "Chat" -> <<Field("nick", ClosesNick), Field("text", <<>>)>>
      [] t = "GetINFO" -> <<Field("other", Blank), Field("nick", <<>>)>>
      [] t = "OpForceMove" ->
           <<[Field("nick", Dollar) EXCEPT !.skip = WhereSize],
             [Field("dest", Dollar) EXCEPT !.skip = MsgSize], Field("reason", <<>>)>>
      [] t = "MCTo" -> <<Field("to", OpensNick), Field("nick", Blank), Field("text", <<>>)>>
      [] t = "Ban" -> <<Field("nick", Dollar), Field("reason", <<>>)>>
      [] t = "TempBan" -> <<Field("nick", Dollar), Field("time", Dollar), Field("reason", <<>>)>>
      [] t = "IN" -> <<Field("nick", Dollar), Field("data", <<>>)>>
      [] OTHER -> <<Field("par", <<>>)>>

TailOf(t) == IF t = "MyINFO" THEN 1 ELSE 0
EndOf(n) == chunk[n][1] + chunk[n][2]

\* the fields with what stands between them are the whole message, and none
\* of them holds the delimiter that ends it
Tiled(l) ==
    /\ chunk[l[1].n][1] = mKWSize
    /\ EndOf(Last(l).n) + TailOf(mType) = Len(mStr)
    /\ \A i \in 1..(Len(l) - 1) :
         LET f == l[i] IN
         /\ Is(mStr, f.d, EndOf(f.n))
         /\ chunk[l[i + 1].n][1] = EndOf(f.n) + Len(f.d) + f.skip
         /\ f.d # <<>> => \A j \in chunk[f.n][1]..(EndOf(f.n) - 1) : ~Is(mStr, f.d, j)

\* the delimiters stand in the message in their order, and there is room to skip
Dividable(l) ==
    LET k == Len(l) - 1 IN
    \E p \in [1..k -> mKWSize..Len(mStr)] :
        \A i \in 1..k :
           /\ Is(mStr, l[i].d, p[i])
           /\ i < k => p[i] + Len(l[i].d) + l[i].skip <= p[i + 1]
           /\ i = k /\ l[i].skip > 0 => p[i] + Len(l[i].d) + l[i].skip < Len(mStr)

Plain(t) == t \notin {"SR", "Search", "SearchPas", "MSearch", "MSearchPas", "MyINFO"}

(***************************************************************************)
(* SplitChunks loses and doubles no letter: if it reports no error the     *)
(* fields tile the message, and it reports one only of a message that      *)
(* cannot be divided (cprotocol.cpp, cmessagedc.cpp).  A field is text of  *)
(* this message and of no earlier one, but for the share of a $MyINFO that *)
(* ends with its mail: ChunkRedRight makes its length -1 there.            *)
(***************************************************************************)
FieldsRight ==
    LET l == Layout(mType) IN
    stage = "split" /\ rewritten = <<>> =>
        /\ ~mError /\ mType # "SR" =>
             /\ Tiled(l)
             /\ \A f \in Range(l) : Valid(chunk[f.n]) \/ (f.n = "size" /\ mType = "MyINFO" /\ Last(mStr) = "$")
        /\ ~mError /\ mType = "SR" =>
             /\ chunk["from"][1] = mKWSize /\ Is(mStr, Blank, EndOf("from"))
             /\ EndOf("to") = Len(mStr) /\ Is(mStr, Five, chunk["to"][1] - 1)
             /\ "5" \notin Range(ChunkString("to"))
        /\ ~mError /\ mType \in {"Search", "SearchPas", "MSearch", "MSearchPas"} =>
             /\ ChunkString("limits") # <<>> /\ Last(ChunkString("limits")) = "?"
             /\ "?" \notin Range(ChunkString("pattern"))
        /\ mError /\ Plain(mType) => ~Dividable(l)

(***************************************************************************)
(* A plugin that replaces one field leaves the rest as its author sent it  *)
(* (ApplyChunk).  The new division of a $MyINFO is made with the length of *)
(* the old message: the mail is cut short when the description has grown.  *)
(***************************************************************************)
OneRewrite ==
    LET old == SplitChunks(mType, [s |-> sentText, len |-> mLen, kw |-> mKWSize],
                           [ch |-> <<>>, err |-> FALSE]).ch
        Was(n) == Part(sentText, old[n])
    IN /\ Len(rewritten) = 1 =>
            LET n == Head(rewritten) IN
            mStr = SubSeq(sentText, 1, old[n][1]) \o strings[n]
                     \o SubSeq(sentText, old[n][1] + old[n][2] + 1, Len(sentText))
       /\ stage = "again" /\ Len(mStr) <= Len(sentText) =>
            ~mError /\ ChunkString("mail") = Was("mail")

MessageRight == LongestWins /\ FieldsRight /\ OneRewrite

(***************************************************************************)
(* Python scripts may change a chat message one after the other:           *)
(* "this kind of message modification allows you to process it not by just *)
(* one but as many scripts as you want" (cpipython.cpp).                   *)
(***************************************************************************)
ChangesCompose ==
    mType = "Chat" /\ rewritten # <<>> =>
        ~thrown /\ mStr = Keyword["Chat"] \o ChunkString("nick") \o ClosesNick \o ChunkString("text")
=============================================================================
