----------------------------- MODULE KeypadProofs -----------------------------
(* Proofs about the line that is typed on the keypad and about what it        *)
(* evaluates to, for any digits, lengths and numbers of commands.             *)
EXTENDS Keypad, FiniteSetTheorems, WellFoundedInduction, TLAPS

-----------------------------------------------------------------------------
(* Sequences: what is appended, taken away or replaced at the end.          *)

LEMMA AppendEnd ==
    ASSUME NEW S, NEW q \in Seq(S), NEW e \in S
    PROVE  /\ Append(q, e) \in Seq(S) /\ Append(q, e) # <<>>
           /\ Len(q) \in Nat /\ Len(Append(q, e)) = Len(q) + 1
           /\ DOMAIN q = 1..Len(q) /\ DOMAIN Append(q, e) = 1..(Len(q) + 1)
           /\ \A i \in 1..Len(q) : Append(q, e)[i] = q[i]
           /\ Append(q, e)[Len(q) + 1] = e /\ Last(Append(q, e)) = e
           /\ Front(Append(q, e)) = q
<1>1. /\ Append(q, e) \in Seq(S) /\ Append(q, e) # <<>>
      /\ Len(q) \in Nat /\ Len(Append(q, e)) = Len(q) + 1
      /\ DOMAIN q = 1..Len(q) /\ DOMAIN Append(q, e) = 1..(Len(q) + 1)
      /\ \A i \in 1..Len(q) : Append(q, e)[i] = q[i]
      /\ Append(q, e)[Len(q) + 1] = e
  OBVIOUS
<1>2. SubSeq(Append(q, e), 1, Len(q)) = q
  OBVIOUS
<1>3. Len(q) + 1 - 1 = Len(q)
  BY <1>1
<1>. QED
  BY <1>1, <1>2, <1>3 DEF Last, Front

LEMMA DropEnd ==
    ASSUME NEW S, NEW q \in Seq(S), q # <<>>
    PROVE  /\ Len(q) \in Nat \ {0} /\ DOMAIN q = 1..Len(q) /\ Last(q) \in S
           /\ Last(q) = q[Len(q)]
           /\ Front(q) \in Seq(S) /\ Len(Front(q)) = Len(q) - 1
           /\ DOMAIN Front(q) = 1..(Len(q) - 1)
           /\ \A i \in 1..(Len(q) - 1) : Front(q)[i] = q[i]
<1>1. Len(q) \in Nat \ {0} /\ DOMAIN q = 1..Len(q) /\ q[Len(q)] \in S
  OBVIOUS
<1>2. /\ SubSeq(q, 1, Len(q) - 1) \in Seq(S) /\ Len(SubSeq(q, 1, Len(q) - 1)) = Len(q) - 1
      /\ DOMAIN SubSeq(q, 1, Len(q) - 1) = 1..(Len(q) - 1)
      /\ \A i \in 1..(Len(q) - 1) : SubSeq(q, 1, Len(q) - 1)[i] = q[i]
  BY <1>1
<1>. QED
  BY <1>1, <1>2 DEF Last, Front

LEMMA ReplaceEnd ==
    ASSUME NEW S, NEW q \in Seq(S), q # <<>>, NEW e \in S
    PROVE  /\ [q EXCEPT ![Len(q)] = e] \in Seq(S)
           /\ Len([q EXCEPT ![Len(q)] = e]) = Len(q)
           /\ \A i \in 1..(Len(q) - 1) : [q EXCEPT ![Len(q)] = e][i] = q[i]
           /\ [q EXCEPT ![Len(q)] = e][Len(q)] = e
<1>. PICK n \in Nat \ {0} : n = Len(q)
  OBVIOUS
<1>. PICK r : r = [q EXCEPT ![n] = e]
  OBVIOUS
<1>1. q \in [1..n -> S] /\ n \in 1..n
  OBVIOUS
<1>2. r \in [1..n -> S] /\ r[n] = e /\ \A i \in 1..n : i # n => r[i] = q[i]
  BY <1>1
<1>3. r \in Seq(S) /\ Len(r) = n
  BY <1>2
<1>4. \A i \in 1..(n - 1) : i \in 1..n /\ i # n
  OBVIOUS
<1>5. r \in Seq(S) /\ Len(r) = n /\ (\A i \in 1..(n - 1) : r[i] = q[i]) /\ r[n] = e
  BY <1>2, <1>3, <1>4
<1>. QED
  BY <1>5

-----------------------------------------------------------------------------
(* The lines there can be.                                                  *)

TokenRecord == [type : TokenType, digits : Seq(Digit \cup HexDigit)]

\* A number has digits, and nothing else has.
Tokens(line) ==
    \A i \in DOMAIN line : IsNumber(line[i]) <=> line[i].digits # <<>>

AtBefore(line, i) == \E j \in 1..(i - 1) : line[j].type = "AT"

\* What the token after one of type before may be, by whether an at comes
\* before it.
Follows(before, type, at) ==
    /\ type = "NUMBER" => before \notin {"NUMBER", "ENTER"}
    /\ type \in {"PLUS", "MINUS"} => before = IF at THEN "AT" ELSE "NUMBER"
    /\ type = "THRU" => before = "NUMBER"
    /\ type = "AT" => before = "NUMBER" /\ ~at
    /\ type = "ENTER" => before = "NUMBER" /\ at

MayFollow(line, i) == Follows(line[i - 1].type, line[i].type, AtBefore(line, i))

Sentence(line) ==
    /\ line # <<>> => IsNumber(line[1])
    /\ \A i \in 2..Len(line) : MayFollow(line, i)

LineOK(line) == line \in Seq(TokenRecord) /\ Tokens(line) /\ Sentence(line)

LineInv ==
    /\ LineOK(cmdLine)
    /\ mode \in LevelDisplayMode
    /\ enters \in 0..MaxEnters /\ others \in 0..MaxOther

\* A line that is typed further, in any way that keeps to MayFollow.
LEMMA LongerLine ==
    ASSUME NEW line, LineOK(line), NEW token \in TokenRecord,
           IsNumber(token) <=> token.digits # <<>>,
           IF line = <<>> THEN IsNumber(token) ELSE MayFollow(Append(line, token), Len(line) + 1)
    PROVE  LineOK(Append(line, token))
<1>. DEFINE new == Append(line, token)
            n == Len(line)
<1>1. line \in Seq(TokenRecord) /\ Tokens(line) /\ Sentence(line)
  BY DEF LineOK
<1>2. /\ new \in Seq(TokenRecord) /\ new # <<>> /\ n \in Nat /\ Len(new) = n + 1
      /\ DOMAIN line = 1..n /\ DOMAIN new = 1..(n + 1)
      /\ \A i \in 1..n : new[i] = line[i]
      /\ new[n + 1] = token
  BY <1>1, AppendEnd
<1>3. line = <<>> <=> n = 0
  BY <1>1
<1>. HIDE DEF new
<1>4. Tokens(new)
  BY <1>1, <1>2 DEF Tokens
<1>5. IsNumber(new[1])
  BY <1>1, <1>2, <1>3 DEF Sentence
<1>6. \A i \in 2..(n + 1) : MayFollow(new, i)
  <2>. SUFFICES ASSUME NEW i \in 2..(n + 1) PROVE MayFollow(new, i)
    OBVIOUS
  <2>1. CASE i = n + 1
    BY <1>2, <1>3, <2>1 DEF new
  <2>2. CASE i # n + 1
    <3>1. i \in 2..n /\ i - 1 \in 1..n /\ \A j \in 1..(i - 1) : j \in 1..n
      BY <1>2, <2>2
    <3>2. MayFollow(line, i)
      BY <1>1, <3>1 DEF Sentence
    <3>3. AtBefore(new, i) <=> AtBefore(line, i)
      BY <1>2, <3>1 DEF AtBefore
    <3>4. new[i].type = line[i].type /\ new[i - 1].type = line[i - 1].type
      BY <1>2, <3>1
    <3>. QED
      BY <3>2, <3>3, <3>4 DEF MayFollow, Follows
  <2>. QED
    BY <2>1, <2>2
<1>. QED
  BY <1>2, <1>4, <1>5, <1>6 DEF LineOK, Sentence, new

\* A line without its last token.
LEMMA ShorterLine ==
    ASSUME NEW line, LineOK(line), line # <<>>
    PROVE  LineOK(Front(line))
<1>1. line \in Seq(TokenRecord) /\ Tokens(line) /\ Sentence(line)
  BY DEF LineOK
<1>2. /\ Len(line) \in Nat \ {0} /\ DOMAIN line = 1..Len(line)
      /\ Front(line) \in Seq(TokenRecord) /\ Len(Front(line)) = Len(line) - 1
      /\ DOMAIN Front(line) = 1..(Len(line) - 1)
      /\ \A i \in 1..(Len(line) - 1) : Front(line)[i] = line[i]
  BY <1>1, DropEnd
<1>3. Tokens(Front(line))
  BY <1>1, <1>2 DEF Tokens
<1>4. Front(line) # <<>> => IsNumber(Front(line)[1])
  <2>1. Front(line) # <<>> => Len(line) - 1 # 0
    BY <1>2
  <2>. QED
    BY <1>1, <1>2, <2>1 DEF Sentence
<1>5. ASSUME NEW i \in 2..(Len(line) - 1) PROVE MayFollow(Front(line), i)
  <2>1. /\ i \in 2..Len(line) /\ i \in 1..(Len(line) - 1) /\ i - 1 \in 1..(Len(line) - 1)
        /\ \A j \in 1..(i - 1) : j \in 1..(Len(line) - 1)
    BY <1>2
  <2>2. MayFollow(line, i)
    BY <1>1, <2>1 DEF Sentence
  <2>. QED
    BY <1>2, <2>1, <2>2 DEF MayFollow, AtBefore
<1>. QED
  BY <1>2, <1>3, <1>4, <1>5 DEF LineOK, Sentence

\* A line whose last number has other digits.
LEMMA OtherDigits ==
    ASSUME NEW line, LineOK(line), line # <<>>, IsNumber(Last(line)),
           NEW ds \in Seq(Digit \cup HexDigit), ds # <<>>,
           NEW new, new = [line EXCEPT ![Len(line)] = Number(ds)]
    PROVE  /\ LineOK(new) /\ new # <<>> /\ Last(new) = Number(ds) /\ Len(new) = Len(line)
           /\ HasAt(new) <=> HasAt(line)
<1>1. line \in Seq(TokenRecord) /\ Tokens(line) /\ Sentence(line)
  BY DEF LineOK
<1>2. Number(ds) \in TokenRecord /\ Number(ds).type = "NUMBER" /\ Number(ds).digits = ds
  BY DEF Number, TokenRecord, TokenType
<1>3. /\ [line EXCEPT ![Len(line)] = Number(ds)] \in Seq(TokenRecord)
      /\ Len([line EXCEPT ![Len(line)] = Number(ds)]) = Len(line)
      /\ \A i \in 1..(Len(line) - 1) : [line EXCEPT ![Len(line)] = Number(ds)][i] = line[i]
      /\ [line EXCEPT ![Len(line)] = Number(ds)][Len(line)] = Number(ds)
  BY <1>1, <1>2, ReplaceEnd
<1>. PICK n \in Nat \ {0} : n = Len(line)
  BY <1>1
<1>. PICK e : e = Number(ds)
  OBVIOUS
<1>4. /\ n \in 1..n /\ 1 \in 1..n /\ DOMAIN line = 1..n /\ line[n].type = "NUMBER"
      /\ e \in TokenRecord /\ e.type = "NUMBER" /\ e.digits = ds
  <2>1. DOMAIN line = 1..Len(line) /\ Last(line) = line[Len(line)]
    BY <1>1, DropEnd, Zenon
  <2>. QED
    BY <1>2, <2>1 DEF IsNumber
<1>5. /\ new \in Seq(TokenRecord) /\ new # <<>> /\ Len(new) = n /\ DOMAIN new = 1..n
      /\ \A i \in 1..(n - 1) : new[i] = line[i]
      /\ new[n] = e /\ Last(new) = e
  BY <1>3 DEF Last
<1>6. \A i \in 1..n : i = n \/ i \in 1..(n - 1)
  OBVIOUS
<1>7. \A i \in 1..n : new[i].type = line[i].type
  BY <1>4, <1>5, <1>6
<1>8. Tokens(new)
  <2>. SUFFICES ASSUME NEW i \in 1..n PROVE IsNumber(new[i]) <=> new[i].digits # <<>>
    BY <1>5 DEF Tokens
  <2>1. CASE i = n
    BY <1>4, <1>5, <2>1 DEF IsNumber
  <2>2. CASE i \in 1..(n - 1)
    BY <1>1, <1>4, <1>5, <2>2 DEF Tokens
  <2>. QED
    BY <1>6, <2>1, <2>2
<1>9. Sentence(new)
  <2>1. IsNumber(new[1])
    BY <1>1, <1>4, <1>7 DEF Sentence, IsNumber
  <2>2. ASSUME NEW i \in 2..n PROVE MayFollow(new, i)
    <3>1. i \in 1..n /\ i - 1 \in 1..n /\ \A j \in 1..(i - 1) : j \in 1..n
      OBVIOUS
    <3>2. MayFollow(line, i)
      BY <1>1 DEF Sentence
    <3>3. AtBefore(new, i) <=> AtBefore(line, i)
      BY <1>7, <3>1 DEF AtBefore
    <3>4. new[i].type = line[i].type /\ new[i - 1].type = line[i - 1].type
      BY <1>7, <3>1
    <3>. QED
      BY <3>2, <3>3, <3>4 DEF MayFollow, Follows
  <2>. QED
    BY <1>5, <2>1, <2>2 DEF Sentence
<1>10. HasAt(new) <=> HasAt(line)
  BY <1>4, <1>5, <1>7 DEF HasAt
<1>. QED
  BY <1>5, <1>8, <1>9, <1>10 DEF LineOK

-----------------------------------------------------------------------------
(* A key more, and a key less, as the grammar sees them.                    *)

LEMMA OneMore ==
    ASSUME NEW line, LineOK(line), NEW token \in TokenRecord,
           IsNumber(token) <=> token.digits # <<>>,
           IF line = <<>> THEN IsNumber(token)
                          ELSE Follows(Last(line).type, token.type, HasAt(line))
    PROVE  /\ LineOK(Append(line, token)) /\ Append(line, token) # <<>>
           /\ Last(Append(line, token)) = token /\ Front(Append(line, token)) = line
           /\ HasAt(Append(line, token)) <=> HasAt(line) \/ token.type = "AT"
<1>. PICK new : new = Append(line, token)
  OBVIOUS
<1>. PICK n : n = Len(line)
  OBVIOUS
<1>1. line \in Seq(TokenRecord)
  BY DEF LineOK
<1>2. /\ new # <<>> /\ n \in Nat /\ DOMAIN line = 1..n /\ DOMAIN new = 1..(n + 1)
      /\ \A i \in 1..n : new[i] = line[i]
      /\ new[n + 1] = token /\ Last(new) = token /\ Front(new) = line
  BY <1>1, AppendEnd
<1>3. \A i : i \in 1..(n + 1) <=> i \in 1..n \/ i = n + 1
  BY <1>2
<1>4. HasAt(new) <=> HasAt(line) \/ token.type = "AT"
  BY <1>2, <1>3 DEF HasAt
<1>5. CASE line = <<>>
  <2>1. LineOK(new)
    BY <1>5, LongerLine
  <2>. QED
    BY <1>2, <1>4, <2>1
<1>6. CASE line # <<>>
  <2>1. n \in 1..n /\ Last(line) = line[n] /\ n + 1 - 1 = n
    <3>1. Len(line) \in Nat \ {0} /\ Last(line) = line[Len(line)]
      BY <1>1, <1>6, DropEnd
    <3>. QED
      BY <3>1
  <2>2. new[n + 1 - 1].type = Last(line).type /\ new[n + 1].type = token.type
    BY <1>2, <2>1
  <2>3. AtBefore(new, n + 1) <=> HasAt(line)
    BY <1>2, <2>1 DEF AtBefore, HasAt
  <2>4. MayFollow(new, n + 1)
    BY <1>6, <2>2, <2>3 DEF MayFollow, Follows
  <2>5. LineOK(new)
    BY <1>6, <2>4, LongerLine
  <2>. QED
    BY <1>2, <1>4, <2>5
<1>. QED
  BY <1>5, <1>6

LEMMA OneLess ==
    ASSUME NEW line, LineOK(line), line # <<>>
    PROVE  /\ LineOK(Front(line)) /\ Last(line) \in TokenRecord
           /\ IsNumber(Last(line)) <=> Last(line).digits # <<>>
           /\ HasAt(line) <=> HasAt(Front(line)) \/ Last(line).type = "AT"
           /\ IF Front(line) = <<>> THEN IsNumber(Last(line))
              ELSE Follows(Last(Front(line)).type, Last(line).type, HasAt(Front(line)))
<1>. PICK rest : rest = Front(line)
  OBVIOUS
<1>. PICK n : n = Len(line)
  OBVIOUS
<1>1. line \in Seq(TokenRecord) /\ Tokens(line) /\ Sentence(line)
  BY DEF LineOK
<1>2. /\ n \in Nat \ {0} /\ DOMAIN line = 1..n /\ Last(line) \in TokenRecord
      /\ Last(line) = line[n] /\ rest \in Seq(TokenRecord) /\ Len(rest) = n - 1
      /\ DOMAIN rest = 1..(n - 1) /\ \A i \in 1..(n - 1) : rest[i] = line[i]
  BY <1>1, DropEnd
<1>3. \A i : i \in 1..n <=> i \in 1..(n - 1) \/ i = n
  BY <1>2
<1>4. LineOK(rest)
  BY ShorterLine
<1>5. IsNumber(Last(line)) <=> Last(line).digits # <<>>
  BY <1>1, <1>2, <1>3 DEF Tokens
<1>6. HasAt(line) <=> HasAt(rest) \/ Last(line).type = "AT"
  BY <1>2, <1>3 DEF HasAt
<1>7. CASE rest = <<>>
  <2>1. n = 1
    BY <1>2, <1>7
  <2>2. IsNumber(Last(line))
    BY <1>1, <1>2, <2>1 DEF Sentence
  <2>. QED
    BY <1>2, <1>4, <1>5, <1>6, <1>7, <2>2
<1>8. CASE rest # <<>>
  <2>1. n - 1 \in 1..(n - 1) /\ n \in 2..n /\ Last(rest) = rest[n - 1]
    <3>1. Len(rest) \in Nat \ {0} /\ Last(rest) = rest[Len(rest)]
      BY <1>2, <1>8, DropEnd
    <3>. QED
      BY <1>2, <3>1
  <2>2. Last(rest).type = line[n - 1].type
    BY <1>2, <2>1
  <2>3. AtBefore(line, n) <=> HasAt(rest)
    BY <1>2 DEF AtBefore, HasAt
  <2>4. MayFollow(line, n)
    BY <1>1, <2>1 DEF Sentence
  <2>5. Follows(Last(rest).type, Last(line).type, HasAt(rest))
    BY <1>2, <2>2, <2>3, <2>4 DEF MayFollow, Follows
  <2>. QED
    BY <1>2, <1>4, <1>5, <1>6, <1>8, <2>5
<1>. QED
  BY <1>7, <1>8

\* The buttons that are enabled: digits, and the other keys that may follow.
LEMMA EnabledKeys ==
    ASSUME NEW line, LineOK(line), NEW token \in EnabledTokens(line)
    PROVE  \/ \E d \in Digit \cup HexDigit : token = Number(<<d>>)
           \/ /\ token \in TokenRecord /\ token.digits = <<>>
              /\ token.type \in {"PLUS", "MINUS", "THRU", "AT"}
              /\ line # <<>> /\ ~IsCommitted(line)
              /\ Follows(Last(line).type, token.type, HasAt(line))
<1>1. CASE token \in {Token(type) : type \in allowedTokens(line) \ {"NUMBER", "HEX_DIGIT"}}
  <2>1. PICK type \in allowedTokens(line) \ {"NUMBER", "HEX_DIGIT"} : token = Token(type)
    BY <1>1
  <2>2. line # <<>>
    BY <2>1 DEF allowedTokens
  <2>3. \/ /\ Last(line).type = "NUMBER" /\ ~HasAt(line)
           /\ type \in {"PLUS", "MINUS", "THRU", "AT"}
        \/ Last(line).type = "NUMBER" /\ HasAt(line) /\ type = "THRU"
        \/ Last(line).type = "AT" /\ type \in {"PLUS", "MINUS"}
    BY <2>1, <2>2 DEF allowedTokens
  <2>4. Last(line).type = "AT" => HasAt(line)
    BY <2>2, OneLess
  <2>5. /\ token.type = type /\ token.digits = <<>> /\ token \in TokenRecord
        /\ type \in {"PLUS", "MINUS", "THRU", "AT"}
    BY <2>1, <2>3 DEF Token, TokenRecord, TokenType
  <2>6. Follows(Last(line).type, type, HasAt(line))
    BY <2>3, <2>4 DEF Follows
  <2>7. ~IsCommitted(line)
    BY <2>3 DEF IsCommitted
  <2>. QED
    BY <2>2, <2>5, <2>6, <2>7
<1>. QED
  BY <1>1 DEF EnabledTokens

-----------------------------------------------------------------------------
(* The actions.                                                             *)

\* The moves of the grammar that a button makes, and those of Clear.
KeyMove(from, to) ==
    \/ from \in {"empty", "selection", "operator", "done"} /\ to = "selection"
    \/ from \in {"at", "sign", "level", "levelThru"} /\ to = "level"
    \/ from = "selection" /\ to \in {"operator", "at"}
    \/ from = "at" /\ to = "sign"
    \/ from = "level" /\ to = "levelThru"

ClearMove(from, to) ==
    \/ from = "done" /\ to = "empty"
    \/ from = "selection" /\ to \in {"selection", "operator", "empty"}
    \/ from \in {"operator", "at"} /\ to = "selection"
    \/ from = "level" /\ to \in {"level", "levelThru", "sign", "at"}
    \/ from = "levelThru" /\ to = "level"
    \/ from = "sign" /\ to = "at"

\* A digit that is run together with the number before it.
LEMMA DigitJoined ==
    ASSUME NEW line, LineOK(line), line # <<>>, IsNumber(Last(line)),
           NEW d \in Digit \cup HexDigit,
           NEW new, new = updateCmdLine(line, Number(<<d>>))
    PROVE  LineOK(new) /\ backspaced(new) = line /\ KeyMove(PhaseOf(line), PhaseOf(new))
<1>. PICK old : old = Last(line).digits
  OBVIOUS
<1>. PICK ds : ds = Append(old, d)
  OBVIOUS
<1>1. /\ Last(line).type = "NUMBER" /\ ~IsCommitted(line)
      /\ Last(line) \in TokenRecord /\ old \in Seq(Digit \cup HexDigit) /\ old # <<>>
      /\ Last(line) = Number(old)
  BY OneLess DEF IsNumber, IsCommitted, TokenRecord, Number
<1>2. /\ ds \in Seq(Digit \cup HexDigit) /\ ds # <<>> /\ Front(ds) = old /\ Len(ds) > 1
      /\ old \o <<d>> = ds
  <2>1. Len(ds) = Len(old) + 1 /\ Len(old) \in Nat \ {0} /\ Front(ds) = old
    BY <1>1, AppendEnd
  <2>. QED
    BY <1>1, <2>1
<1>3. line \in Seq(TokenRecord) /\ Last(line) = line[Len(line)] /\ Len(line) \in Nat \ {0}
  BY DropEnd DEF LineOK
<1>4. new = [line EXCEPT ![Len(line)] = Number(ds)]
  BY <1>1, <1>2, <1>3 DEF updateCmdLine, ClearIfCommitted, Number, IsNumber
<1>5. /\ LineOK(new) /\ new # <<>> /\ Last(new) = Number(ds) /\ Len(new) = Len(line)
      /\ HasAt(new) <=> HasAt(line)
  BY <1>2, <1>4, OtherDigits
<1>6. ~IsCommitted(new) /\ IsNumber(Last(new)) /\ Last(new).digits = ds
  BY <1>5 DEF IsCommitted, IsNumber, Number
<1>7. backspaced(new) = [new EXCEPT ![Len(line)] = Last(line)]
  BY <1>1, <1>2, <1>5, <1>6 DEF backspaced
<1>8. [new EXCEPT ![Len(line)] = Last(line)] = line
  <2>. PICK n \in Nat \ {0} : n = Len(line)
    BY <1>3
  <2>1. DOMAIN line = 1..n /\ line = [i \in 1..n |-> line[i]] /\ line[n] = Last(line)
    BY <1>3
  <2>2. new = [line EXCEPT ![n] = Number(ds)]
    BY <1>4
  <2>3. [new EXCEPT ![n] = Last(line)] = line
    BY <2>1, <2>2
  <2>. QED
    BY <2>3
<1>9. KeyMove(PhaseOf(line), PhaseOf(new))
  BY <1>1, <1>5, <1>6 DEF KeyMove, PhaseOf, IsNumber
<1>. QED
  BY <1>5, <1>7, <1>8, <1>9

LEMMA KeyPressed ==
    ASSUME NEW line, LineOK(line), NEW token \in EnabledTokens(line),
           NEW new, new = updateCmdLine(line, token)
    PROVE  /\ LineOK(new) /\ KeyMove(PhaseOf(line), PhaseOf(new))
           /\ backspaced(new) = ClearIfCommitted(line)
<1>. PICK base : base = ClearIfCommitted(line)
  OBVIOUS
<1>1. CASE base # <<>> /\ IsNumber(token) /\ IsNumber(Last(base))
  <2>1. base = line /\ line # <<>> /\ IsNumber(Last(line))
    BY <1>1 DEF ClearIfCommitted
  <2>2. PICK d \in Digit \cup HexDigit : token = Number(<<d>>)
    BY <1>1, EnabledKeys DEF IsNumber
  <2>. QED
    BY <2>1, <2>2, DigitJoined
<1>2. CASE ~(base # <<>> /\ IsNumber(token) /\ IsNumber(Last(base)))
  <2>1. new = Append(base, token)
    BY <1>2 DEF updateCmdLine
  <2>2. LineOK(base) /\ token \in TokenRecord /\ (IsNumber(token) <=> token.digits # <<>>)
        /\ ~(token.type = "ENTER") /\ (IsNumber(token) => Len(token.digits) = 1)
    <3>1. LineOK(<<>>)
      BY DEF LineOK, Tokens, Sentence
    <3>2. LineOK(base)
      BY <3>1 DEF ClearIfCommitted
    <3>3. ASSUME NEW d \in Digit \cup HexDigit, token = Number(<<d>>)
          PROVE  /\ token \in TokenRecord /\ token.type = "NUMBER" /\ token.digits # <<>>
                 /\ Len(token.digits) = 1
      BY <3>3 DEF Number, TokenRecord, TokenType
    <3>. QED
      BY <3>2, <3>3, EnabledKeys DEF IsNumber
  <2>3. IF base = <<>> THEN IsNumber(token)
                       ELSE Follows(Last(base).type, token.type, HasAt(base))
    <3>1. CASE IsNumber(token)
      <4>1. base # <<>> => Last(base).type \notin {"NUMBER", "ENTER"}
        BY <1>2, <3>1 DEF ClearIfCommitted, IsCommitted, IsNumber
      <4>. QED
        BY <3>1, <4>1 DEF Follows, IsNumber
    <3>2. CASE ~IsNumber(token)
      <4>1. /\ line # <<>> /\ ~IsCommitted(line)
            /\ Follows(Last(line).type, token.type, HasAt(line))
        BY <3>2, EnabledKeys DEF IsNumber, Number
      <4>. QED
        BY <4>1 DEF ClearIfCommitted
    <3>. QED
      BY <3>1, <3>2
  <2>4. /\ LineOK(new) /\ new # <<>> /\ Last(new) = token /\ Front(new) = base
        /\ HasAt(new) <=> HasAt(base) \/ token.type = "AT"
    BY <2>1, <2>2, <2>3, OneMore
  <2>5. backspaced(new) = base
    <3>1. ~IsCommitted(new)
      BY <2>2, <2>4 DEF IsCommitted
    <3>2. ~(IsNumber(token) /\ Len(token.digits) > 1)
      <4>1. IsNumber(token) => Len(token.digits) = 1
        BY <2>2
      <4>2. ~(1 > 1)
        OBVIOUS
      <4>. QED
        BY <4>1, <4>2
    <3>3. ~(IsNumber(Last(new)) /\ Len(Last(new).digits) > 1)
      BY <2>4, <3>2
    <3>. QED
      BY <2>4, <3>1, <3>3 DEF backspaced
  <2>6. KeyMove(PhaseOf(line), PhaseOf(new))
    <3>1. CASE line = <<>> \/ IsCommitted(line)
      <4>1. base = <<>> /\ PhaseOf(line) \in {"empty", "done"}
        BY <3>1 DEF ClearIfCommitted, PhaseOf, IsCommitted
      <4>2. ~HasAt(base)
        BY <4>1 DEF HasAt
      <4>3. PhaseOf(new) = "selection"
        BY <2>3, <2>4, <4>1, <4>2 DEF PhaseOf, IsNumber
      <4>. QED
        BY <4>1, <4>3 DEF KeyMove
    <3>2. CASE line # <<>> /\ ~IsCommitted(line)
      <4>1. base = line /\ Last(line).type # "ENTER"
        BY <3>2 DEF ClearIfCommitted, IsCommitted
      <4>2. Last(line).type \in TokenType /\ token.type \in TokenType
            /\ (Last(line).type = "AT" => HasAt(line))
        BY <2>2, <3>2, OneLess DEF TokenRecord
      <4>. QED
        BY <2>2, <2>3, <2>4, <3>2, <4>1, <4>2 DEF KeyMove, PhaseOf, Follows, TokenType
    <3>. QED
      BY <3>1, <3>2
  <2>. QED
    BY <2>4, <2>5, <2>6
<1>. QED
  BY <1>1, <1>2

LEMMA KeyTakenBack ==
    ASSUME NEW line, LineOK(line), line # <<>>, NEW new, new = backspaced(line)
    PROVE  LineOK(new) /\ ClearMove(PhaseOf(line), PhaseOf(new))
<1>1. /\ Last(line) \in TokenRecord /\ Last(line).type \in TokenType
      /\ LineOK(Front(line))
  BY OneLess DEF TokenRecord
<1>2. CASE IsCommitted(line)
  <2>1. new = <<>>
    BY <1>2 DEF backspaced, IsCommitted, IsNumber
  <2>2. LineOK(new)
    BY <2>1 DEF LineOK, Tokens, Sentence
  <2>. QED
    BY <1>2, <2>1, <2>2 DEF ClearMove, PhaseOf, IsCommitted
<1>3. CASE ~IsCommitted(line) /\ IsNumber(Last(line)) /\ Len(Last(line).digits) > 1
  <2>. PICK ds : ds = Front(Last(line).digits)
    OBVIOUS
  <2>1. ds \in Seq(Digit \cup HexDigit) /\ ds # <<>>
    <3>1. Last(line).digits \in Seq(Digit \cup HexDigit) /\ Last(line).digits # <<>>
      BY <1>1, <1>3 DEF TokenRecord
    <3>2. ds \in Seq(Digit \cup HexDigit) /\ Len(ds) = Len(Last(line).digits) - 1
          /\ Len(Last(line).digits) \in Nat
      BY <3>1, DropEnd
    <3>. QED
      BY <1>3, <3>2
  <2>2. new = [line EXCEPT ![Len(line)] = Number(ds)]
    BY <1>3 DEF backspaced
  <2>3. /\ LineOK(new) /\ new # <<>> /\ Last(new) = Number(ds)
        /\ HasAt(new) <=> HasAt(line)
    BY <1>3, <2>1, <2>2, OtherDigits
  <2>4. Last(new).type = "NUMBER" /\ Last(line).type = "NUMBER"
    BY <1>3, <2>3 DEF Number, IsNumber
  <2>. QED
    BY <2>3, <2>4 DEF ClearMove, PhaseOf
<1>4. CASE ~IsCommitted(line) /\ ~(IsNumber(Last(line)) /\ Len(Last(line).digits) > 1)
  <2>1. new = Front(line)
    BY <1>4 DEF backspaced
  <2>2. Last(line).type # "ENTER"
    BY <1>4 DEF IsCommitted
  <2>3. /\ HasAt(line) <=> HasAt(new) \/ Last(line).type = "AT"
        /\ IF new = <<>> THEN IsNumber(Last(line))
           ELSE Follows(Last(new).type, Last(line).type, HasAt(new))
    BY <2>1, OneLess
  <2>4. CASE new = <<>>
    <3>1. ~HasAt(new)
      BY <2>4 DEF HasAt
    <3>. QED
      BY <1>1, <2>1, <2>3, <2>4, <3>1 DEF ClearMove, PhaseOf, IsNumber
  <2>5. CASE new # <<>>
    <3>1. Last(new).type \in TokenType /\ (Last(new).type = "AT" => HasAt(new))
      BY <1>1, <2>1, <2>5, OneLess DEF TokenRecord
    <3>. QED
      BY <1>1, <2>1, <2>2, <2>3, <2>5, <3>1 DEF ClearMove, PhaseOf, Follows, TokenType
  <2>. QED
    BY <2>4, <2>5
<1>. QED
  BY <1>2, <1>3, <1>4

\* Enter is enabled at the end of a whole command.
LEMMA LineCommitted ==
    ASSUME NEW line, LineOK(line), line # <<>>, cmdLineIsComplete(line),
           NEW new, new = updateCmdLine(line, Token("ENTER"))
    PROVE  LineOK(new) /\ PhaseOf(line) = "level" /\ PhaseOf(new) = "done"
<1>1. HasAt(line) /\ Last(line).type = "NUMBER"
  BY DEF cmdLineIsComplete, IsNumber
<1>2. Token("ENTER") \in TokenRecord /\ Token("ENTER").type = "ENTER" /\ Token("ENTER").digits = <<>>
  BY DEF Token, TokenRecord, TokenType
<1>3. new = Append(line, Token("ENTER"))
  BY <1>1, <1>2 DEF updateCmdLine, ClearIfCommitted, IsCommitted, IsNumber
<1>4. Follows("NUMBER", "ENTER", HasAt(line))
  BY <1>1 DEF Follows
<1>5. LineOK(new) /\ new # <<>> /\ Last(new) = Token("ENTER")
  <2>. PICK key : key = Token("ENTER")
    OBVIOUS
  <2>1. /\ key \in TokenRecord /\ (IsNumber(key) <=> key.digits # <<>>)
        /\ Follows(Last(line).type, key.type, HasAt(line))
    BY <1>1, <1>2, <1>4 DEF IsNumber
  <2>2. LineOK(Append(line, key)) /\ Append(line, key) # <<>> /\ Last(Append(line, key)) = key
    BY <2>1, OneMore
  <2>. QED
    BY <1>3, <2>2
<1>. QED
  BY <1>1, <1>2, <1>5 DEF PhaseOf

-----------------------------------------------------------------------------
LEMMA InitLineInv == Init => LineInv
  BY KeypadAssumption DEF Init, LineInv, LineOK, Tokens, Sentence

\* What a step does to the line, its phase and the levels.
LEMMA StepOfLine ==
    ASSUME LineInv, [Next]_vars
    PROVE  /\ LineOK(cmdLine')
           /\ \/ KeyMove(PhaseOf(cmdLine), PhaseOf(cmdLine')) /\ levels' = levels
              \/ ClearMove(PhaseOf(cmdLine), PhaseOf(cmdLine')) /\ levels' = levels
              \/ PhaseOf(cmdLine) = "level" /\ PhaseOf(cmdLine') = "done"
              \/ PhaseOf(cmdLine') = PhaseOf(cmdLine)
<1>1. LineOK(cmdLine)
  BY DEF LineInv
<1>2. CASE Press
  <2>1. PICK token \in EnabledTokens(cmdLine) : cmdLine' = updateCmdLine(cmdLine, token)
    BY <1>2 DEF Press
  <2>. QED
    BY <1>1, <1>2, <2>1, KeyPressed DEF Press
<1>3. CASE backspace
  BY <1>1, <1>3, KeyTakenBack DEF backspace
<1>4. CASE enter
  <2>1. cmdLine # <<>>
    BY <1>4 DEF enter, cmdLineIsComplete, HasAt
  <2>. QED
    BY <1>1, <1>4, <2>1, LineCommitted DEF enter
<1>5. CASE MoveFader \/ ChooseMode \/ UNCHANGED vars
  BY <1>1, <1>5 DEF MoveFader, ChooseMode, Other, vars
<1>. QED
  BY <1>2, <1>3, <1>4, <1>5 DEF Next

LEMMA NextLineInv == LineInv /\ [Next]_vars => LineInv'
<1>. SUFFICES ASSUME LineInv, [Next]_vars PROVE LineInv'
  OBVIOUS
<1>1. LineOK(cmdLine')
  BY StepOfLine
<1>2. mode' \in LevelDisplayMode /\ enters' \in 0..MaxEnters /\ others' \in 0..MaxOther
  <2>1. MaxEnters \in Nat /\ MaxOther \in Nat
    BY KeypadAssumption
  <2>. QED
    BY <2>1 DEF LineInv, Next, Press, backspace, enter, MoveFader, ChooseMode, Other, vars
<1>. QED
  BY <1>1, <1>2 DEF LineInv

\* Every line that the buttons, the joining of digits and Clear can make has
\* numbers with digits, operators between numbers, one at, and an Enter only
\* after a whole command (cmdline.ts, allowedTokens).
THEOREM LinesAreSentences == Spec => []LineInv
  BY InitLineInv, NextLineInv, PTL DEF Spec

\* Clear takes back exactly the key that was pressed last, also a digit that
\* was run together with others and a key that began a new line.
THEOREM ClearUndoesKey == Spec => []BackspaceUndoesKey
<1>1. LineInv => BackspaceUndoesKey
  BY KeyPressed DEF LineInv, BackspaceUndoesKey
<1>. QED
  BY <1>1, LinesAreSentences, PTL

\* The grammar, with the levels set aside.
Phases == INSTANCE CmdLineGrammar
          WITH phase <- PhaseOf(cmdLine), levels <- [a \in Address |-> 0], Level <- {0}

\* What can be typed, taken back and committed follows the grammar, whatever
\* the keys and however long the line.
THEOREM LinesFollowGrammar == Spec => Phases!Spec
<1>1. Init => Phases!Init
  BY DEF Init, PhaseOf, Phases!Init
<1>2. LineInv /\ [Next]_vars => [Phases!Next]_(Phases!vars)
  <2>. SUFFICES ASSUME LineInv, [Next]_vars PROVE Phases!Next
    OBVIOUS
  <2>1. \/ KeyMove(PhaseOf(cmdLine), PhaseOf(cmdLine'))
        \/ ClearMove(PhaseOf(cmdLine), PhaseOf(cmdLine'))
        \/ PhaseOf(cmdLine) = "level" /\ PhaseOf(cmdLine') = "done"
        \/ PhaseOf(cmdLine') = PhaseOf(cmdLine)
    BY StepOfLine
  <2>. QED
    BY <2>1 DEF KeyMove, ClearMove, Phases!Next, Phases!PressNumber, Phases!Operator, Phases!At,
                Phases!Enter, Phases!Clear, Phases!Fader, Phases!Go
<1>. QED
  BY <1>1, <1>2, LinesAreSentences, PTL DEF Spec, Phases!Spec

-----------------------------------------------------------------------------
(* Recursive functions over an interval: the loops over digits and tokens.  *)

\* Induction on lo..hi, for the set of the numbers that have a property.
LEMMA UpFrom ==
    ASSUME NEW lo \in Nat, NEW hi \in Nat, NEW T, lo <= hi => lo \in T,
           \A n \in (lo + 1)..hi : n - 1 \in T => n \in T
    PROVE  \A n \in lo..hi : n \in T
<1>. SUFFICES ASSUME NEW n \in lo..hi, n \notin T PROVE FALSE
  OBVIOUS
<1>. DEFINE Bad == {m \in lo..hi : m \notin T}
            R == OpToRel(<, Nat)
<1>1. Bad \in SUBSET Nat /\ Bad # {}
  OBVIOUS
<1>2. \A x, y \in Nat : <<y, x>> \in R <=> y < x
  BY DEF OpToRel
<1>3. IsWellFoundedOn(R, Nat)
  BY NatLessThanWellFounded
<1>4. PICK k \in Bad : \A m \in Bad : ~ (<<m, k>> \in R)
  <2>. HIDE DEF R, Bad
  <2>. QED
    BY <1>1, <1>3, WFMin
<1>5. \A m \in Bad : ~ (m < k)
  BY <1>1, <1>2, <1>4
<1>. QED
  BY <1>5

\* A loop whose steps, next[n] for each n, stay in S, and what it computes.
Stays(lo, hi, S, base, next) ==
    /\ lo \in Nat /\ hi \in Nat /\ lo <= hi /\ base \in S
    /\ \A n \in (lo + 1)..hi, v \in S : next[n][v] \in S

Computes(g, lo, hi, S, base, next) ==
    /\ DOMAIN g = lo..hi /\ g = [n \in lo..hi |-> g[n]]
    /\ g[lo] = base /\ \A n \in (lo + 1)..hi : g[n] = next[n][g[n - 1]]
    /\ \A n \in lo..hi : g[n] \in S

LEMMA LoopExists ==
    ASSUME NEW lo, NEW hi, NEW S, NEW base, NEW next, Stays(lo, hi, S, base, next)
    PROVE  \E g : Computes(g, lo, hi, S, base, next)
<1>. USE DEF Stays
<1>. DEFINE Good(g, k) ==
              g[lo] = base /\ \A n \in (lo + 1)..k : g[n] = next[n][g[n - 1]]
            T == {k \in lo..hi : \E g \in [lo..k -> S] : Good(g, k)}
<1>1. lo \in T
  <2>. DEFINE g == [n \in lo..lo |-> base]
  <2>1. g \in [lo..lo -> S] /\ Good(g, lo)
    OBVIOUS
  <2>2. \E h \in [lo..lo -> S] : Good(h, lo)
    BY <2>1, Zenon
  <2>. QED
    BY <2>2
<1>2. ASSUME NEW k \in (lo + 1)..hi, k - 1 \in T PROVE k \in T
  <2>1. PICK g \in [lo..(k - 1) -> S] : Good(g, k - 1)
    BY <1>2
  <2>. DEFINE h == [n \in lo..k |-> IF n = k THEN next[k][g[k - 1]] ELSE g[n]]
  <2>2. k - 1 \in lo..(k - 1) /\ lo # k /\ lo \in lo..k
        /\ \A n \in lo..k : n # k => n \in lo..(k - 1)
    OBVIOUS
  <2>3. g[k - 1] \in S /\ next[k][g[k - 1]] \in S
    BY <2>2
  <2>4. h \in [lo..k -> S]
    BY <2>2, <2>3
  <2>5. h[lo] = base
    BY <2>1, <2>2
  <2>6. ASSUME NEW n \in (lo + 1)..k PROVE h[n] = next[n][h[n - 1]]
    <3>1. n - 1 \in lo..k /\ n - 1 # k /\ n \in lo..k
      OBVIOUS
    <3>2. h[n - 1] = g[n - 1]
      BY <3>1
    <3>3. CASE n = k
      BY <3>1, <3>2, <3>3
    <3>4. CASE n # k
      <4>1. n \in (lo + 1)..(k - 1)
        BY <3>4
      <4>2. g[n] = next[n][g[n - 1]]
        BY <2>1, <4>1
      <4>. QED
        BY <3>1, <3>2, <3>4, <4>2
    <3>. QED
      BY <3>3, <3>4
  <2>7. Good(h, k)
    BY <2>5, <2>6
  <2>8. \E f \in [lo..k -> S] : Good(f, k)
    <3>. HIDE DEF h, Good
    <3>. QED
      BY <2>4, <2>7
  <2>. QED
    BY <2>8
<1>3. hi \in T
  <2>. HIDE DEF T
  <2>1. \A n \in lo..hi : n \in T
    BY <1>1, <1>2, UpFrom
  <2>. QED
    BY <2>1
<1>4. PICK g \in [lo..hi -> S] : Good(g, hi)
  BY <1>3
<1>5. Computes(g, lo, hi, S, base, next)
  BY <1>4 DEF Computes
<1>. QED
  BY <1>5

Loop(lo, hi, S, base, next) == CHOOSE g : Computes(g, lo, hi, S, base, next)

LEMMA LoopComputes ==
    ASSUME NEW lo, NEW hi, NEW S, NEW base, NEW next, Stays(lo, hi, S, base, next)
    PROVE  Computes(Loop(lo, hi, S, base, next), lo, hi, S, base, next)
  BY LoopExists DEF Loop

\* ... and a function that satisfies the recursion stays in S.
LEMMA LoopStays ==
    ASSUME NEW lo \in Nat, NEW hi \in Nat, lo <= hi, NEW S, NEW f,
           f[lo] \in S, NEW I, I = (lo + 1)..hi, \A n \in I : f[n - 1] \in S => f[n] \in S
    PROVE  \A n \in lo..hi : f[n] \in S
<1>. DEFINE T == {n \in lo..hi : f[n] \in S}
<1>1. lo \in T
  OBVIOUS
<1>2. \A n \in (lo + 1)..hi : n - 1 \in T => n \in T
  OBVIOUS
<1>. HIDE DEF T
<1>3. \A n \in lo..hi : n \in T
  BY <1>1, <1>2, UpFrom
<1>. QED
  BY <1>3 DEF T

-----------------------------------------------------------------------------
(* What the code's loops compute.                                           *)

Parsed == Nat \cup {NaN}

LEMMA NaNNegative == NaN \in Int /\ NaN < 0 /\ \A n \in Nat : n # NaN
  BY ScaleAssumption DEF NaN

LEMMA ParseIntType ==
    ASSUME NEW ds \in Seq(Nat), NEW base \in Nat
    PROVE  parseInt(ds, base) \in Parsed
<1>. DEFINE Step(n, v) == IF \E i \in 1..n : ds[i] >= base THEN v
                          ELSE (IF v = NaN THEN 0 ELSE v * base) + ds[n]
            value == CHOOSE g : g = [n \in 0..Len(ds) |-> IF n = 0 THEN NaN ELSE Step(n, g[n - 1])]
            next == [n \in 1..Len(ds) |-> [v \in Parsed |-> Step(n, v)]]
<1>1. parseInt(ds, base) = value[Len(ds)]
  BY DEF parseInt
<1>2. PICK k \in Nat : k = Len(ds) /\ k \in 0..k /\ 0 <= k /\ 0 \in Nat
  OBVIOUS
<1>3. NaN \in Parsed /\ \A n \in 1..k : ds[n] \in Nat
  BY <1>2 DEF Parsed
<1>4. ASSUME NEW n \in 1..k, NEW v \in Parsed PROVE Step(n, v) \in Parsed
  <2>1. v # NaN => v * base \in Nat
    BY DEF Parsed
  <2>2. (IF v = NaN THEN 0 ELSE v * base) + ds[n] \in Nat
    BY <1>3, <2>1
  <2>. QED
    BY <2>2 DEF Parsed
<1>. HIDE DEF Step
<1>5. /\ \A n \in 1..k, v \in Parsed : next[n][v] \in Parsed
      /\ \A n \in 1..k, v \in Parsed : next[n][v] = Step(n, v)
  BY <1>2, <1>4
<1>. DEFINE g == Loop(0, k, Parsed, NaN, next)
<1>6. Computes(g, 0, k, Parsed, NaN, next)
  <2>1. Stays(0, k, Parsed, NaN, next)
    <3>. HIDE DEF next
    <3>. QED
      BY <1>2, <1>3, <1>5 DEF Stays
  <2>. HIDE DEF next
  <2>. QED
    BY <2>1, LoopComputes
<1>. HIDE DEF next, g
<1>7. /\ g = [n \in 0..k |-> g[n]] /\ g[0] = NaN
      /\ \A n \in 1..k : g[n - 1] \in Parsed /\ g[n] = Step(n, g[n - 1])
  <2>1. \A n \in 1..k : n - 1 \in 0..k
    OBVIOUS
  <2>2. /\ g = [n \in 0..k |-> g[n]] /\ g[0] = NaN /\ \A n \in 0..k : g[n] \in Parsed
        /\ \A n \in (0 + 1)..k : g[n] = next[n][g[n - 1]]
    BY <1>6, Zenon DEF Computes
  <2>3. \A n \in 1..k : n \in (0 + 1)..k
    OBVIOUS
  <2>4. \A n \in 1..k : g[n - 1] \in Parsed /\ g[n] = next[n][g[n - 1]]
    BY <2>1, <2>2, <2>3, Zenon
  <2>5. \A n \in 1..k : g[n] = Step(n, g[n - 1])
    BY <1>5, <2>4, Zenon
  <2>. QED
    BY <2>2, <2>4, <2>5, Zenon
<1>8. g = [n \in 0..k |-> IF n = 0 THEN NaN ELSE Step(n, g[n - 1])]
  <2>1. \A n \in 0..k : n = 0 \/ n \in 1..k
    OBVIOUS
  <2>. QED
    BY <1>7, <2>1
<1>9. value = [n \in 0..k |-> IF n = 0 THEN NaN ELSE Step(n, value[n - 1])]
  BY <1>2, <1>8
<1>. HIDE DEF value
<1>10. value[0] = NaN /\ \A n \in 1..k : value[n] = Step(n, value[n - 1])
  <2>1. 0 \in 0..k /\ \A n \in 1..k : n \in 0..k /\ n # 0
    BY <1>2
  <2>. QED
    BY <1>9, <2>1
<1>11. PICK o \in Nat : o = 0
  OBVIOUS
<1>12. o <= k /\ 1..k = (o + 1)..k /\ k \in o..k
  BY <1>11
<1>13. value[o] \in Parsed /\ \A n \in 1..k : value[n - 1] \in Parsed => value[n] \in Parsed
  BY <1>3, <1>4, <1>10, <1>11
<1>14. \A n \in o..k : value[n] \in Parsed
  BY <1>12, <1>13, LoopStays
<1>. QED
  BY <1>1, <1>2, <1>12, <1>14

-----------------------------------------------------------------------------
(* The loop over the selection.                                             *)

LEMMA TokenRead ==
    ASSUME NEW token \in TokenRecord, NEW base \in {10, 16}
    PROVE  parseInt(token.digits, base) \in Parsed
<1>1. token.digits \in Seq(Digit \cup HexDigit) /\ Digit \cup HexDigit \subseteq Nat
  BY KeypadAssumption DEF TokenRecord
<1>2. token.digits \in Seq(Nat)
  BY <1>1
<1>3. base \in Nat
  OBVIOUS
<1>. QED
  BY <1>2, <1>3, ParseIntType

\* The at of a line, and the tokens on either side of it.
LEMMA AtOfLine ==
    ASSUME NEW line, LineOK(line), HasAt(line), NEW at, at = AtPosition(line)
    PROVE  /\ Len(line) \in Nat /\ DOMAIN line = 1..Len(line)
           /\ at \in 2..Len(line) /\ line[at].type = "AT"
           /\ \A i \in 1..Len(line) : line[i] \in TokenRecord /\ line[i].type \in TokenType
           /\ \A i \in 1..Len(line) : line[i].type = "AT" => i = at
           /\ \A i \in 1..(at - 1) : line[i].type \in {"NUMBER", "PLUS", "MINUS", "THRU"}
           /\ \A i \in (at + 1)..Len(line) : line[i].type \in {"NUMBER", "PLUS", "MINUS", "THRU", "ENTER"}
<1>1. line \in Seq(TokenRecord) /\ Sentence(line)
  BY DEF LineOK
<1>2. Len(line) \in Nat /\ DOMAIN line = 1..Len(line) /\ \A i \in 1..Len(line) : line[i] \in TokenRecord
  BY <1>1
<1>3. \A i \in 1..Len(line) : line[i].type \in TokenType
  BY <1>2 DEF TokenRecord
<1>4. at \in 1..Len(line) /\ line[at].type = "AT"
  BY <1>2 DEF HasAt, AtPosition
<1>5. ASSUME NEW i \in 1..Len(line), line[i].type \in {"AT", "ENTER"}
      PROVE  i \in 2..Len(line) /\ Follows(line[i - 1].type, line[i].type, AtBefore(line, i))
  <2>1. i # 1
    BY <1>1, <1>2, <1>5 DEF Sentence, IsNumber
  <2>2. i \in 2..Len(line)
    BY <2>1, <1>2
  <2>. QED
    BY <1>1, <2>2 DEF Sentence, MayFollow
<1>6. \A i \in 1..Len(line) : line[i].type = "AT" => ~AtBefore(line, i) /\ i \in 2..Len(line)
  BY <1>5 DEF Follows
<1>7. \A i \in 1..Len(line) : line[i].type = "ENTER" => AtBefore(line, i)
  BY <1>5 DEF Follows
<1>8. ASSUME NEW i \in 1..Len(line), line[i].type = "AT" PROVE i = at
  <2>1. ~AtBefore(line, i) /\ ~AtBefore(line, at)
    BY <1>4, <1>6, <1>8
  <2>2. ~(at \in 1..(i - 1)) /\ ~(i \in 1..(at - 1))
    BY <1>4, <1>8, <2>1 DEF AtBefore
  <2>. QED
    BY <1>2, <1>4, <2>2
<1>9. \A i \in 1..(at - 1) : line[i].type \in {"NUMBER", "PLUS", "MINUS", "THRU"}
  <2>. SUFFICES ASSUME NEW i \in 1..(at - 1)
                PROVE  line[i].type \in {"NUMBER", "PLUS", "MINUS", "THRU"}
    OBVIOUS
  <2>1. i \in 1..Len(line) /\ i # at /\ \A j \in 1..(i - 1) : j \in 1..Len(line) /\ j # at
    BY <1>2, <1>4
  <2>2. line[i].type # "AT" /\ ~AtBefore(line, i)
    BY <1>8, <2>1 DEF AtBefore
  <2>3. line[i].type # "ENTER"
    BY <1>7, <2>1, <2>2
  <2>. QED
    BY <1>3, <2>1, <2>2, <2>3 DEF TokenType
<1>10. \A i \in (at + 1)..Len(line) : line[i].type \in {"NUMBER", "PLUS", "MINUS", "THRU", "ENTER"}
  <2>1. \A i \in (at + 1)..Len(line) : i \in 1..Len(line) /\ i # at
    BY <1>2, <1>4
  <2>. QED
    BY <1>3, <1>8, <2>1 DEF TokenType
<1>. QED
  BY <1>2, <1>3, <1>4, <1>6, <1>8, <1>9, <1>10

SelectState ==
    [when : [Address -> Nat], now : Nat, plus : BOOLEAN, thru : BOOLEAN, last : Parsed]

SelectStart ==
    [when |-> [a \in Address |-> 0], now |-> 0, plus |-> TRUE, thru |-> FALSE, last |-> 1]

\* What a number does to each address.
LEMMA NumberSelects ==
    ASSUME NEW s \in SelectState, NEW value \in Parsed,
           NEW t, t = SelectNumber(s, value),
           NEW range, range = AddressRange(IF s.thru THEN s.last ELSE value, value)
    PROVE  /\ t \in SelectState
           /\ t.plus = s.plus /\ t.thru = s.thru /\ t.last = value
           /\ t.now = s.now + DMX_MAX
           /\ \A a \in Address :
                 t.when[a] = IF a \notin range THEN s.when[a]
                             ELSE IF ~s.plus THEN 0
                             ELSE IF s.when[a] > 0 THEN s.when[a] ELSE s.now + a
<1>. DEFINE new == [a \in Address |->
                        IF a \notin range THEN s.when[a]
                        ELSE IF ~s.plus THEN 0
                        ELSE IF s.when[a] > 0 THEN s.when[a] ELSE s.now + a]
<1>1. DMX_MAX \in Nat /\ s.now \in Nat /\ s.now + DMX_MAX \in Nat /\ s.when \in [Address -> Nat]
      /\ \A a \in Address : a \in Nat /\ s.now + a \in Nat
  BY CmdLineAssumption DEF SelectState, Address, DMX_MIN
<1>2. \A a \in Address : new[a] \in Nat
  <2>. HIDE DEF Address
  <2>. QED
    BY <1>1
<1>3. new \in [Address -> Nat]
  BY <1>2
<1>. HIDE DEF new
<1>4. t = [s EXCEPT !.last = value, !.now = s.now + DMX_MAX, !.when = new]
  BY DEF SelectNumber, new
<1>5. /\ t \in SelectState /\ t.when = new
      /\ t.plus = s.plus /\ t.thru = s.thru /\ t.last = value /\ t.now = s.now + DMX_MAX
  BY <1>1, <1>3, <1>4 DEF SelectState
<1>. QED
  BY <1>5 DEF new

\* What a token of each type does.
StepOfToken(s, token, t) ==
    /\ t \in SelectState
    /\ IsNumber(token) => t = SelectNumber(s, parseInt(token.digits, 10))
    /\ ~IsNumber(token) => t.when = s.when /\ t.now = s.now /\ t.last = s.last
    /\ token.type = "PLUS" => t.plus = TRUE /\ t.thru = FALSE
    /\ token.type = "MINUS" => t.plus = FALSE /\ t.thru = FALSE
    /\ token.type = "THRU" => t.plus = s.plus /\ t.thru = TRUE

LEMMA SelectStepCases ==
    ASSUME NEW s \in SelectState, NEW token \in TokenRecord, NEW t, t = SelectStep(s, token)
    PROVE  StepOfToken(s, token, t)
<1>. USE DEF StepOfToken
<1>1. CASE IsNumber(token)
  <2>1. token.type = "NUMBER"
    BY <1>1 DEF IsNumber
  <2>. PICK value : value = parseInt(token.digits, 10)
    OBVIOUS
  <2>. PICK u : u = SelectNumber(s, value)
    OBVIOUS
  <2>2. t = u
    BY <1>1, <2>1 DEF SelectStep
  <2>3. value \in Parsed
    BY TokenRead
  <2>4. u \in SelectState
    BY <2>3, NumberSelects
  <2>. QED
    BY <1>1, <2>1, <2>2, <2>4
<1>2. CASE ~IsNumber(token)
  BY <1>2 DEF SelectStep, SelectState
<1>. QED
  BY <1>1, <1>2

LEMMA SelectionSteps ==
    ASSUME NEW line, LineOK(line), HasAt(line), NEW at, at = AtPosition(line),
           NEW s, s = SelectionLoop(line)
    PROVE  /\ s[0] = SelectStart /\ \A n \in 1..(at - 1) : s[n] = SelectStep(s[n - 1], line[n])
           /\ \A n \in 0..(at - 1) : s[n] \in SelectState
           /\ Selection(line) = s[at - 1].when /\ Selection(line) \in [Address -> Nat]
<1>. PICK k \in Nat : k = at - 1 /\ k \in 0..k /\ 0 <= k
  BY AtOfLine
<1>. DEFINE next == [n \in 1..k |-> [v \in SelectState |-> SelectStep(v, line[n])]]
            g == Loop(0, k, SelectState, SelectStart, next)
<1>1. \A n \in 1..k : line[n] \in TokenRecord
  BY AtOfLine
<1>2. SelectStart \in SelectState
  BY DEF SelectStart, SelectState, Parsed
<1>3. \A n \in 1..k, v \in SelectState :
         next[n][v] = SelectStep(v, line[n]) /\ next[n][v] \in SelectState
  BY <1>1, SelectStepCases DEF StepOfToken
<1>. HIDE DEF next
<1>4. Stays(0, k, SelectState, SelectStart, next)
  BY <1>2, <1>3 DEF Stays
<1>5. Computes(g, 0, k, SelectState, SelectStart, next)
  BY <1>4, LoopComputes
<1>. HIDE DEF g
<1>6. /\ g = [n \in 0..k |-> g[n]] /\ g[0] = SelectStart /\ \A n \in 0..k : g[n] \in SelectState
      /\ \A n \in (0 + 1)..k : g[n] = next[n][g[n - 1]]
  BY <1>5, Zenon DEF Computes
<1>7. /\ \A n \in 1..k : n \in (0 + 1)..k /\ n - 1 \in 0..k /\ n \in 0..k /\ n # 0
      /\ \A n \in 0..k : n = 0 \/ n \in 1..k
  OBVIOUS
<1>8. \A n \in 1..k : g[n] = SelectStep(g[n - 1], line[n])
  BY <1>3, <1>6, <1>7, Zenon
<1>9. g = [n \in 0..k |-> IF n = 0 THEN SelectStart ELSE SelectStep(g[n - 1], line[n])]
  BY <1>6, <1>7, <1>8
<1>10. SelectionLoop(line) =
         CHOOSE f : f = [n \in 0..k |-> IF n = 0 THEN SelectStart ELSE SelectStep(f[n - 1], line[n])]
  BY DEF SelectionLoop, SelectStart
<1>11. s = [n \in 0..k |-> IF n = 0 THEN SelectStart ELSE SelectStep(s[n - 1], line[n])]
  BY <1>9, <1>10
<1>12. s[0] = SelectStart /\ \A n \in 1..k : s[n] = SelectStep(s[n - 1], line[n])
  BY <1>7, <1>11
<1>13. PICK o \in Nat : o = 0
  OBVIOUS
<1>14. o <= k /\ 1..k = (o + 1)..k /\ 0..k = o..k
  BY <1>13
<1>15. s[o] \in SelectState /\ \A n \in 1..k : s[n - 1] \in SelectState => s[n] \in SelectState
  BY <1>1, <1>2, <1>12, <1>13, SelectStepCases DEF StepOfToken
<1>16. \A n \in o..k : s[n] \in SelectState
  BY <1>14, <1>15, LoopStays
<1>17. Selection(line) = s[at - 1].when /\ s[k].when \in [Address -> Nat]
  BY <1>14, <1>16 DEF Selection, SelectState
<1>. QED
  BY <1>12, <1>14, <1>16, <1>17

\* Numbers and operators take turns before the at.
LEMMA SelectionTurns ==
    ASSUME NEW line, LineOK(line), HasAt(line), NEW at, at = AtPosition(line)
    PROVE  /\ IsNumber(line[1])
           /\ \A i \in 2..(at - 1) : IsNumber(line[i]) <=> ~IsNumber(line[i - 1])
<1>. USE DEF IsNumber
<1>1. /\ at \in 2..Len(line) /\ Len(line) \in Nat
      /\ \A i \in 1..(at - 1) : line[i].type \in {"NUMBER", "PLUS", "MINUS", "THRU"}
  BY AtOfLine
<1>2. Sentence(line) /\ line # <<>>
  BY <1>1 DEF LineOK
<1>3. ASSUME NEW i \in 2..(at - 1) PROVE IsNumber(line[i]) <=> ~IsNumber(line[i - 1])
  <2>1. i \in 2..Len(line) /\ \A j \in 1..(i - 1) : j \in 1..(at - 1)
    BY <1>1
  <2>2. ~AtBefore(line, i) /\ line[i].type \in {"NUMBER", "PLUS", "MINUS", "THRU"}
    BY <1>1, <2>1 DEF AtBefore
  <2>3. Follows(line[i - 1].type, line[i].type, FALSE)
    BY <1>2, <2>1, <2>2 DEF Sentence, MayFollow, Follows
  <2>. QED
    BY <2>2, <2>3 DEF Follows
<1>. QED
  BY <1>2, <1>3 DEF Sentence

\* The number that a thru in front of the token after n would start from.
LastRead(line, n) == parseInt(line[IF IsNumber(line[n]) THEN n ELSE n - 1].digits, 10)

\* After n tokens: the flags say what the last operators were, and the ordered
\* set holds what the clauses so far select, no two addresses added at once.
SelectInv(line, n, s) ==
    /\ s.plus <=> ~MinusBefore(line, n + 1)
    /\ s.thru <=> ThruBefore(line, n + 1)
    /\ n > 0 => s.last = LastRead(line, n)
    /\ \A a \in Address : s.when[a] > 0 <=> Adds(line, n, a)
    /\ \A a \in Address : s.when[a] <= s.now
    /\ \A a, b \in Address : s.when[a] = s.when[b] /\ s.when[a] > 0 => a = b

\* One token more.
LEMMA BeforeStep ==
    ASSUME NEW line, NEW n \in Nat \ {0}
    PROVE  /\ MinusBefore(line, n + 1) <=>
                line[n].type = "MINUS" \/ (MinusBefore(line, n) /\ line[n].type # "PLUS")
           /\ ThruBefore(line, n + 1) <=>
                \/ line[n].type = "THRU"
                \/ ThruBefore(line, n) /\ line[n].type \notin {"PLUS", "MINUS"}
           /\ \A a : Adds(line, n, a) <=>
                \/ Covers(line, n, a) /\ ~MinusBefore(line, n)
                \/ Adds(line, n - 1, a) /\ ~Covers(line, n, a)
<1>1. /\ n + 1 - 1 = n /\ n \in 1..n /\ n + 1 > n
      /\ \A k : k \in 1..n <=> k = n \/ k \in 1..(n - 1)
      /\ \A k \in 1..(n - 1) : \A j : j \in k..n <=> j = n \/ j \in k..(n - 1)
      /\ \A j : j \in n..n <=> j = n
      /\ \A j : j \notin (n + 1)..n
      /\ \A k \in 1..(n - 1) : \A j : j \in (k + 1)..n <=> j = n \/ j \in (k + 1)..(n - 1)
  OBVIOUS
<1>2. MinusBefore(line, n + 1) <=>
         line[n].type = "MINUS" \/ (MinusBefore(line, n) /\ line[n].type # "PLUS")
  <2>1. MinusBefore(line, n + 1) <=>
          \E k \in 1..n : line[k].type = "MINUS" /\ \A j \in k..n : line[j].type # "PLUS"
    BY <1>1 DEF MinusBefore
  <2>2. line[n].type = "MINUS" => MinusBefore(line, n + 1)
    BY <1>1, <2>1
  <2>3. MinusBefore(line, n) /\ line[n].type # "PLUS" => MinusBefore(line, n + 1)
    BY <1>1, <2>1 DEF MinusBefore
  <2>4. ASSUME MinusBefore(line, n + 1)
        PROVE  line[n].type = "MINUS" \/ (MinusBefore(line, n) /\ line[n].type # "PLUS")
    BY <1>1, <2>1, <2>4 DEF MinusBefore
  <2>. QED
    BY <2>2, <2>3, <2>4
<1>3. ThruBefore(line, n + 1) <=>
         \/ line[n].type = "THRU"
         \/ ThruBefore(line, n) /\ line[n].type \notin {"PLUS", "MINUS"}
  <2>1. ThruBefore(line, n + 1) <=>
          \E k \in 1..n : line[k].type = "THRU" /\ \A j \in k..n : line[j].type \notin {"PLUS", "MINUS"}
    BY <1>1 DEF ThruBefore
  <2>2. line[n].type = "THRU" => ThruBefore(line, n + 1)
    BY <1>1, <2>1
  <2>3. ThruBefore(line, n) /\ line[n].type \notin {"PLUS", "MINUS"} => ThruBefore(line, n + 1)
    BY <1>1, <2>1 DEF ThruBefore
  <2>4. ASSUME ThruBefore(line, n + 1)
        PROVE  \/ line[n].type = "THRU"
               \/ ThruBefore(line, n) /\ line[n].type \notin {"PLUS", "MINUS"}
    BY <1>1, <2>1, <2>4 DEF ThruBefore
  <2>. QED
    BY <2>2, <2>3, <2>4
<1>4. ASSUME NEW a
      PROVE  Adds(line, n, a) <=> \/ Covers(line, n, a) /\ ~MinusBefore(line, n)
                                  \/ Adds(line, n - 1, a) /\ ~Covers(line, n, a)
  <2>1. Covers(line, n, a) /\ ~MinusBefore(line, n) => Adds(line, n, a)
    BY <1>1 DEF Adds
  <2>2. Adds(line, n - 1, a) /\ ~Covers(line, n, a) => Adds(line, n, a)
    BY <1>1 DEF Adds
  <2>3. ASSUME Adds(line, n, a)
        PROVE  \/ Covers(line, n, a) /\ ~MinusBefore(line, n)
               \/ Adds(line, n - 1, a) /\ ~Covers(line, n, a)
    <3>1. PICK i \in 1..n : /\ Covers(line, i, a) /\ ~MinusBefore(line, i)
                            /\ \A j \in (i + 1)..n : ~Covers(line, j, a)
      BY <2>3 DEF Adds
    <3>2. CASE i = n
      BY <3>1, <3>2
    <3>3. CASE i \in 1..(n - 1)
      BY <1>1, <3>1, <3>3 DEF Adds
    <3>. QED
      BY <1>1, <3>2, <3>3
  <2>. QED
    BY <2>1, <2>2, <2>3
<1>. QED
  BY <1>2, <1>3, <1>4

\* The range of a number is what its clause covers.
LEMMA RangeIsCovered ==
    ASSUME NEW line, LineOK(line), HasAt(line), NEW at, at = AtPosition(line),
           NEW n \in 1..(at - 1), IsNumber(line[n]),
           NEW s \in SelectState, SelectInv(line, n - 1, s),
           NEW value, value = parseInt(line[n].digits, 10),
           NEW a \in Address
    PROVE  a \in AddressRange(IF s.thru THEN s.last ELSE value, value) <=> Covers(line, n, a)
<1>1. /\ \A i \in 1..(at - 1) : line[i] \in TokenRecord
      /\ at \in Nat
  BY AtOfLine
<1>2. value \in Parsed /\ a \in Int
  BY <1>1, TokenRead DEF Address, DMX_MIN
<1>3. s.thru <=> ThruBefore(line, n)
  <2>1. n - 1 + 1 = n
    OBVIOUS
  <2>. QED
    BY <2>1 DEF SelectInv
<1>4. CASE ~ThruBefore(line, n)
  <2>1. a \in AddressRange(value, value) <=> value # NaN /\ a = value
    BY <1>2, NaNNegative DEF AddressRange, Parsed
  <2>2. Covers(line, n, a) <=> value # NaN /\ a = value
    BY <1>4 DEF Covers
  <2>. QED
    BY <1>3, <1>4, <2>1, <2>2
<1>5. CASE ThruBefore(line, n)
  <2>1. n # 1
    BY <1>5 DEF ThruBefore
  <2>2. n \in 2..(at - 1) /\ n - 1 > 0
    BY <1>1, <2>1
  <2>3. ~IsNumber(line[n - 1]) /\ IsNumber(line[n - 2]) /\ n - 2 \in 1..(at - 1)
    <3>1. ~IsNumber(line[n - 1]) /\ IsNumber(line[1])
      BY <2>2, SelectionTurns
    <3>2. n # 2
      BY <3>1
    <3>3. n - 1 \in 2..(at - 1) /\ n - 1 - 1 = n - 2 /\ n - 2 \in 1..(at - 1)
      BY <1>1, <2>2, <3>2
    <3>4. IsNumber(line[n - 1]) <=> ~IsNumber(line[n - 1 - 1])
      BY <3>3, SelectionTurns
    <3>. QED
      BY <3>1, <3>3, <3>4
  <2>. PICK from : from = parseInt(line[n - 2].digits, 10)
    OBVIOUS
  <2>4. s.last = from
    <3>1. n - 1 - 1 = n - 2
      BY <2>2
    <3>. QED
      BY <2>2, <2>3, <3>1 DEF SelectInv, LastRead
  <2>5. from \in Parsed
    BY <1>1, <2>3, TokenRead
  <2>6. a \in AddressRange(from, value) <=> value # NaN /\ from # NaN /\ a \in from..value
    BY <1>2, <2>5, NaNNegative DEF AddressRange, Parsed
  <2>7. Covers(line, n, a) <=> value # NaN /\ from # NaN /\ a \in from..value
    BY <1>5 DEF Covers
  <2>. QED
    BY <1>3, <1>5, <2>4, <2>6, <2>7
<1>. QED
  BY <1>4, <1>5

LEMMA SelectInvStep ==
    ASSUME NEW line, LineOK(line), HasAt(line), NEW at, at = AtPosition(line),
           NEW n \in 1..(at - 1), NEW s \in SelectState, SelectInv(line, n - 1, s),
           NEW t, t = SelectStep(s, line[n])
    PROVE  SelectInv(line, n, t)
<1>. PICK token : token = line[n]
  OBVIOUS
<1>1. /\ token \in TokenRecord /\ at \in Nat
      /\ token.type \in {"NUMBER", "PLUS", "MINUS", "THRU"}
      /\ n \in Nat \ {0} /\ n - 1 + 1 = n
  BY AtOfLine
<1>2. /\ s.plus <=> ~MinusBefore(line, n)
      /\ s.thru <=> ThruBefore(line, n)
      /\ n - 1 > 0 => s.last = LastRead(line, n - 1)
      /\ \A a \in Address : s.when[a] > 0 <=> Adds(line, n - 1, a)
      /\ \A a \in Address : s.when[a] <= s.now
      /\ \A a, b \in Address : s.when[a] = s.when[b] /\ s.when[a] > 0 => a = b
  BY <1>1 DEF SelectInv
<1>3. /\ t \in SelectState
      /\ IsNumber(token) => t = SelectNumber(s, parseInt(token.digits, 10))
      /\ ~IsNumber(token) => t.when = s.when /\ t.now = s.now /\ t.last = s.last
      /\ token.type = "PLUS" => t.plus = TRUE /\ t.thru = FALSE
      /\ token.type = "MINUS" => t.plus = FALSE /\ t.thru = FALSE
      /\ token.type = "THRU" => t.plus = s.plus /\ t.thru = TRUE
  <2>1. StepOfToken(s, token, t)
    BY <1>1, SelectStepCases
  <2>. QED
    BY <2>1 DEF StepOfToken
<1>31. /\ MinusBefore(line, n + 1) <=>
                token.type = "MINUS" \/ (MinusBefore(line, n) /\ token.type # "PLUS")
       /\ ThruBefore(line, n + 1) <=>
                \/ token.type = "THRU"
                \/ ThruBefore(line, n) /\ token.type \notin {"PLUS", "MINUS"}
       /\ \A a : Adds(line, n, a) <=>
                \/ Covers(line, n, a) /\ ~MinusBefore(line, n)
                \/ Adds(line, n - 1, a) /\ ~Covers(line, n, a)
  BY <1>1, BeforeStep
<1>4. CASE ~IsNumber(token)
  <2>1. t.when = s.when /\ t.now = s.now /\ t.last = s.last
    BY <1>3, <1>4
  <2>2. token.type \in {"PLUS", "MINUS", "THRU"}
    BY <1>1, <1>4 DEF IsNumber
  <2>3. (t.plus <=> ~MinusBefore(line, n + 1)) /\ (t.thru <=> ThruBefore(line, n + 1))
    <3>1. CASE token.type = "PLUS"
      BY <1>3, <1>31, <3>1
    <3>2. CASE token.type = "MINUS"
      BY <1>3, <1>31, <3>2
    <3>3. CASE token.type = "THRU"
      BY <1>2, <1>3, <1>31, <3>3
    <3>. QED
      BY <2>2, <3>1, <3>2, <3>3
  <2>4. t.last = LastRead(line, n)
    <3>1. n # 1 /\ IsNumber(line[1])
      BY <1>4, SelectionTurns
    <3>2. n \in 2..(at - 1) /\ n - 1 > 0
      BY <1>1, <3>1
    <3>3. IsNumber(line[n - 1])
      BY <1>4, <3>2, SelectionTurns
    <3>. QED
      BY <1>2, <1>4, <2>1, <3>2, <3>3 DEF LastRead
  <2>5. \A a : ~Covers(line, n, a)
    BY <1>4 DEF Covers
  <2>6. \A a \in Address : t.when[a] > 0 <=> Adds(line, n, a)
    BY <1>2, <1>31, <2>1, <2>5
  <2>. QED
    BY <1>2, <2>1, <2>3, <2>4, <2>6 DEF SelectInv
<1>5. CASE IsNumber(token)
  <2>. PICK value : value = parseInt(token.digits, 10)
    OBVIOUS
  <2>. PICK range : range = AddressRange(IF s.thru THEN s.last ELSE value, value)
    OBVIOUS
  <2>1. value \in Parsed
    BY <1>1, TokenRead
  <2>2. t = SelectNumber(s, value)
    BY <1>3, <1>5
  <2>3. /\ t.plus = s.plus /\ t.thru = s.thru /\ t.last = value /\ t.now = s.now + DMX_MAX
        /\ \A a \in Address :
                 t.when[a] = IF a \notin range THEN s.when[a]
                             ELSE IF ~s.plus THEN 0
                             ELSE IF s.when[a] > 0 THEN s.when[a] ELSE s.now + a
    BY <2>1, <2>2, NumberSelects
  <2>4. \A a \in Address : a \in range <=> Covers(line, n, a)
    BY <1>5, RangeIsCovered
  <2>5. (t.plus <=> ~MinusBefore(line, n + 1)) /\ (t.thru <=> ThruBefore(line, n + 1))
    <3>1. token.type = "NUMBER"
      BY <1>5 DEF IsNumber
    <3>. QED
      BY <1>2, <1>31, <2>3, <3>1
  <2>6. t.last = LastRead(line, n)
    BY <1>5, <2>3 DEF LastRead
  <2>7. /\ s.now \in Nat /\ DMX_MAX \in Nat
        /\ \A a \in Address : s.when[a] \in Nat /\ a \in Nat /\ 1 <= a /\ a <= DMX_MAX
    BY CmdLineAssumption DEF SelectState, Address, DMX_MIN
  <2>8. \A a \in Address : t.when[a] > 0 <=> Adds(line, n, a)
    <3>. SUFFICES ASSUME NEW a \in Address PROVE t.when[a] > 0 <=> Adds(line, n, a)
      OBVIOUS
    <3>1. Adds(line, n, a) <=> \/ Covers(line, n, a) /\ ~MinusBefore(line, n)
                               \/ Adds(line, n - 1, a) /\ ~Covers(line, n, a)
      BY <1>31
    <3>2. t.when[a] > 0 <=> (a \in range /\ s.plus) \/ (s.when[a] > 0 /\ a \notin range)
      <4>1. s.now + a > 0 /\ ~(0 > 0)
        BY <2>7
      <4>. QED
        BY <2>3, <4>1
    <3>. QED
      BY <1>2, <2>4, <3>1, <3>2
  <2>9. \A a \in Address : t.when[a] <= t.now
    <3>. SUFFICES ASSUME NEW a \in Address PROVE t.when[a] <= t.now
      OBVIOUS
    <3>1. s.when[a] <= s.now /\ s.now \in Nat /\ a \in Nat /\ a <= DMX_MAX /\ s.when[a] \in Nat
      BY <1>2, <2>7
    <3>2. t.when[a] \in {s.when[a], 0, s.now + a}
      BY <2>3
    <3>. QED
      BY <2>3, <2>7, <3>1, <3>2
  <2>10. \A a, b \in Address : t.when[a] = t.when[b] /\ t.when[a] > 0 => a = b
    <3>. SUFFICES ASSUME NEW a \in Address, NEW b \in Address,
                         t.when[a] = t.when[b], t.when[a] > 0
                  PROVE  a = b
      OBVIOUS
    <3>1. ASSUME NEW c \in Address, t.when[c] > 0
          PROVE  t.when[c] = s.when[c] \/ t.when[c] = s.now + c
      <4>1. ~(0 > 0)
        OBVIOUS
      <4>. QED
        BY <2>3, <3>1, <4>1
    <3>2. /\ t.when[a] = s.when[a] \/ t.when[a] = s.now + a
          /\ t.when[b] = s.when[b] \/ t.when[b] = s.now + b
      BY <3>1
    <3>3. /\ s.when[a] <= s.now /\ s.when[b] <= s.now /\ s.when[a] \in Nat /\ s.when[b] \in Nat
          /\ s.now \in Nat /\ a \in Nat /\ b \in Nat /\ 1 <= a /\ 1 <= b
      BY <1>2, <2>7
    <3>4. CASE t.when[a] = s.when[a] /\ t.when[b] = s.when[b]
      BY <1>2, <3>4
    <3>5. CASE ~(t.when[a] = s.when[a] /\ t.when[b] = s.when[b])
      BY <3>2, <3>3, <3>5
    <3>. QED
      BY <3>4, <3>5
  <2>. QED
    BY <2>5, <2>6, <2>8, <2>9, <2>10 DEF SelectInv
<1>. QED
  BY <1>4, <1>5

LEMMA SelectionInv ==
    ASSUME NEW line, LineOK(line), HasAt(line), NEW at, at = AtPosition(line)
    PROVE  SelectInv(line, at - 1, SelectionLoop(line)[at - 1])
<1>. PICK s : s = SelectionLoop(line)
  OBVIOUS
<1>. PICK o \in Nat : o = 0
  OBVIOUS
<1>. PICK k \in Nat : k = at - 1 /\ o <= k /\ 1..k = (o + 1)..k /\ o..k = 0..k /\ k \in o..k
  BY AtOfLine
<1>1. /\ s[0] = SelectStart /\ \A n \in 1..k : s[n] = SelectStep(s[n - 1], line[n])
      /\ \A n \in 0..k : s[n] \in SelectState
  BY SelectionSteps
<1>. DEFINE T == {n \in 0..k : SelectInv(line, n, s[n])}
<1>2. o \in T
  <2>1. ~MinusBefore(line, 0 + 1) /\ ~ThruBefore(line, 0 + 1) /\ \A a : ~Adds(line, 0, a)
    BY DEF MinusBefore, ThruBefore, Adds
  <2>2. s[0].plus = TRUE /\ s[0].thru = FALSE /\ s[0].now = 0 /\ \A a \in Address : s[0].when[a] = 0
    BY <1>1 DEF SelectStart
  <2>3. ~(0 > 0) /\ 0 <= 0
    OBVIOUS
  <2>4. SelectInv(line, 0, s[0])
    <3>1. \A a, b \in Address : ~(s[0].when[a] > 0)
      BY <2>2, <2>3
    <3>. QED
      BY <2>1, <2>2, <2>3, <3>1 DEF SelectInv
  <2>. QED
    BY <2>4
<1>3. ASSUME NEW n \in (o + 1)..k, n - 1 \in T PROVE n \in T
  <2>1. n \in 1..k /\ n \in 0..k /\ n - 1 \in 0..k
    BY <1>3
  <2>2. SelectInv(line, n - 1, s[n - 1]) /\ s[n - 1] \in SelectState
        /\ s[n] = SelectStep(s[n - 1], line[n])
    BY <1>1, <1>3, <2>1
  <2>3. SelectInv(line, n, s[n])
    BY <2>1, <2>2, SelectInvStep
  <2>. QED
    BY <2>1, <2>3
<1>. HIDE DEF T
<1>4. \A n \in o..k : n \in T
  BY <1>2, <1>3, UpFrom
<1>5. k \in T
  BY <1>4
<1>. QED
  BY <1>5 DEF T

LEMMA SelectionFits ==
    ASSUME NEW when
    PROVE  Cardinality(Selected(when)) <= DMX_MAX
<1>. PICK n \in Nat \ {0} : n = DMX_MAX
  BY CmdLineAssumption
<1>1. IsFiniteSet(1..n) /\ Cardinality(1..n) = n
  <2>1. IsFiniteSet(1..n) /\ Cardinality(1..n) = IF 1 > n THEN 0 ELSE n - 1 + 1
    BY FS_Interval
  <2>. QED
    BY <2>1
<1>2. Selected(when) \in SUBSET (1..n)
  BY DEF Selected, Address, DMX_MIN
<1>3. Cardinality(Selected(when)) <= Cardinality(1..n)
  BY <1>1, <1>2, FS_Subset
<1>. QED
  BY <1>1, <1>3

\* Addresses that were added at different times have different places.
LEMMA Places ==
    ASSUME NEW when \in [Address -> Nat],
           \A a, b \in Address : when[a] = when[b] /\ when[a] > 0 => a = b
    PROVE  /\ IsFiniteSet(Selected(when)) /\ Cardinality(Selected(when)) \in Nat
           /\ \A a \in Selected(when) : Place(when, a) \in 1..Cardinality(Selected(when))
           /\ \A a, b \in Selected(when) : Place(when, a) = Place(when, b) => a = b
<1>. DEFINE S == Selected(when)
            Until(a) == {b \in S : when[b] <= when[a]}
<1>1. IsFiniteSet(Address)
  BY CmdLineAssumption, FS_Interval DEF Address, DMX_MIN
<1>2. S \in SUBSET Address /\ \A a \in S : when[a] \in Nat /\ a \in Address
  BY DEF Selected
<1>3. IsFiniteSet(S) /\ Cardinality(S) \in Nat
  BY <1>1, <1>2, FS_Subset, FS_CardinalityType
<1>. HIDE DEF S
<1>4. ASSUME NEW a \in S
      PROVE  /\ IsFiniteSet(Until(a)) /\ Cardinality(Until(a)) \in 1..Cardinality(S)
             /\ Place(when, a) = Cardinality(Until(a))
  <2>1. Until(a) \in SUBSET S /\ a \in Until(a)
    BY <1>2
  <2>2. IsFiniteSet(Until(a)) /\ Cardinality(Until(a)) <= Cardinality(S)
    BY <1>3, <2>1, FS_Subset
  <2>3. Cardinality(Until(a)) \in Nat /\ Cardinality(Until(a)) # 0
    BY <2>1, <2>2, FS_CardinalityType, FS_EmptySet
  <2>4. Place(when, a) = Cardinality(Until(a))
    BY DEF Place, S
  <2>. HIDE DEF Until
  <2>. QED
    BY <1>3, <2>2, <2>3, <2>4
<1>5. ASSUME NEW a \in S, NEW b \in S, Place(when, a) = Place(when, b), when[a] <= when[b]
      PROVE  a = b
  <2>1. Until(a) \in SUBSET Until(b) /\ b \in Until(b)
    BY <1>2, <1>5
  <2>2. Until(b) = Until(a)
    <3>1. IsFiniteSet(Until(b)) /\ Cardinality(Until(b)) = Cardinality(Until(a))
      BY <1>4, <1>5
    <3>. HIDE DEF Until
    <3>. QED
      BY <2>1, <3>1, FS_Subset
  <2>3. when[b] <= when[a]
    BY <2>1, <2>2
  <2>4. when[a] = when[b] /\ when[a] > 0 /\ a \in Address /\ b \in Address
    BY <1>2, <1>5, <2>3 DEF S, Selected
  <2>. QED
    BY <2>4
<1>6. ASSUME NEW a \in S, NEW b \in S, Place(when, a) = Place(when, b) PROVE a = b
  <2>1. when[a] <= when[b] \/ when[b] <= when[a]
    BY <1>2
  <2>. QED
    BY <1>5, <1>6, <2>1
<1>. QED
  BY <1>3, <1>4, <1>6 DEF S

LEMMA SelectionIsClauses ==
    ASSUME NEW line, LineOK(line), HasAt(line), NEW when, when = Selection(line)
    PROVE  /\ when \in [Address -> Nat]
           /\ \A a, b \in Address : when[a] = when[b] /\ when[a] > 0 => a = b
           /\ Selected(when) = {a \in Address : Adds(line, AtPosition(line) - 1, a)}
<1>. PICK at : at = AtPosition(line)
  OBVIOUS
<1>1. when = SelectionLoop(line)[at - 1].when /\ when \in [Address -> Nat]
  BY SelectionSteps
<1>2. SelectInv(line, at - 1, SelectionLoop(line)[at - 1])
  BY SelectionInv
<1>. QED
  BY <1>1, <1>2 DEF SelectInv, Selected

LEMMA CompleteLineSelects ==
    ASSUME LineOK(cmdLine) PROVE LastClauseWins
<1>. SUFFICES ASSUME cmdLineIsComplete(cmdLine), NEW when, when = Selection(cmdLine)
              PROVE  /\ Selected(when) = {a \in Address : Adds(cmdLine, AtPosition(cmdLine) - 1, a)}
                     /\ \A a, b \in Selected(when) : Place(when, a) = Place(when, b) => a = b
  BY DEF LastClauseWins
<1>1. HasAt(cmdLine)
  BY DEF cmdLineIsComplete
<1>2. /\ when \in [Address -> Nat]
      /\ \A a, b \in Address : when[a] = when[b] /\ when[a] > 0 => a = b
      /\ Selected(when) = {a \in Address : Adds(cmdLine, AtPosition(cmdLine) - 1, a)}
  BY <1>1, SelectionIsClauses
<1>. QED
  BY <1>2, Places

-----------------------------------------------------------------------------
(* The loop over the level part.                                            *)

LevelState == [range : Seq(Int), sign : {"none", "PLUS", "MINUS"}, thru : BOOLEAN]

LevelStart == [range |-> <<>>, sign |-> "none", thru |-> FALSE]

LEMMA LevelReadType ==
    ASSUME NEW token \in TokenRecord, NEW m
    PROVE  LevelRead(token, m) \in Parsed
<1>1. Base(m) \in {10, 16}
  BY DEF Base
<1>2. PICK parsed \in Parsed : parsed = parseInt(token.digits, Base(m))
  BY <1>1, TokenRead
<1>3. parsed # NaN => Scale * parsed \in Nat
  BY ScaleAssumption DEF Parsed
<1>. QED
  BY <1>2, <1>3 DEF LevelRead, Parsed

LEMMA RoundDivType ==
    ASSUME NEW n \in Int, NEW d \in Nat \ {0}
    PROVE  RoundDiv(n, d) \in Int
<1>1. 2 * n + d \in Int /\ 2 * d \in Nat \ {0}
  OBVIOUS
<1>. QED
  BY <1>1 DEF RoundDiv

LEMMA RoundDivIs ==
    ASSUME NEW n \in Int, NEW d \in Nat \ {0}, NEW u, u = RoundDiv(n, d)
    PROVE  u \in Int /\ 2 * (d * u) <= 2 * n + d /\ 2 * n + d < 2 * (d * u) + 2 * d
<1>. PICK e \in Nat \ {0} : e = 2 * d
  OBVIOUS
<1>. PICK x \in Int : x = 2 * n + d
  OBVIOUS
<1>1. u = x \div e
  BY DEF RoundDiv
<1>2. u \in Int /\ e * u <= x /\ x < e * u + e
  BY <1>1
<1>3. e * u = 2 * (d * u)
  BY <1>2
<1>. QED
  BY <1>2, <1>3

LEMMA WholeQuotient ==
    ASSUME NEW n \in Int, NEW d \in Nat \ {0}, n % d = 0
    PROVE  \E q \in Int : n = d * q
<1>1. n = d * (n \div d)
  OBVIOUS
<1>2. n \div d \in Int
  OBVIOUS
<1>. QED
  BY <1>1, <1>2

\* From the first level, the same step again and again.
IsRamp(r, from, to, size) ==
    /\ r \in Seq(Int) /\ Len(r) = size /\ r # <<>>
    /\ r[1] = from
    /\ from # NaN /\ to # NaN =>
         \A i \in 1..size : r[i] = from + (i - 1) * RoundDiv(to - from, size - 1)

LEMMA RampIs ==
    ASSUME NEW from \in Int, NEW to \in Int, NEW size \in Nat, size > 1
    PROVE  IsRamp(Ramp(from, to, size), from, to, size)
<1>. PICK r : r = Ramp(from, to, size)
  OBVIOUS
<1>. PICK change \in Int : change = RoundDiv(to - from, size - 1)
  <2>1. to - from \in Int /\ size - 1 \in Nat \ {0}
    OBVIOUS
  <2>. QED
    BY <2>1, RoundDivType
<1>. DEFINE step(i) == (i - 1) * change
<1>1. \A i \in 1..size : step(i) \in Int
  OBVIOUS
<1>2. step(1) = 0
  OBVIOUS
<1>3. r = [i \in 1..size |-> IF from = NaN \/ (i > 1 /\ to = NaN) THEN NaN ELSE from + step(i)]
  BY DEF Ramp
<1>4. NaN \in Int
  BY NaNNegative
<1>. HIDE DEF step
<1>5. \A i \in 1..size : r[i] \in Int
  BY <1>1, <1>3, <1>4
<1>6. r \in Seq(Int) /\ Len(r) = size
  BY <1>3, <1>5
<1>7. r[1] = from
  <2>1. 1 \in 1..size /\ ~(1 > 1)
    OBVIOUS
  <2>. QED
    BY <1>2, <1>3, <2>1
<1>8. from # NaN /\ to # NaN => \A i \in 1..size : r[i] = from + step(i)
  BY <1>3
<1>9. r # <<>>
  BY <1>6
<1>. QED
  BY <1>6, <1>7, <1>8, <1>9 DEF step, IsRamp

FirstOf(range) == IF range = <<>> THEN NaN ELSE range[1]

\* What a token of each type does.
StepOfLevel(s, token, size, m, t) ==
    /\ t \in LevelState
    /\ IsNumber(token) =>
         /\ t.sign = s.sign /\ t.thru = s.thru
         /\ t.range = IF ~s.thru THEN <<LevelRead(token, m)>>
                      ELSE IF size > 1 THEN Ramp(FirstOf(s.range), LevelRead(token, m), size)
                      ELSE <<>>
    /\ token.type \in {"PLUS", "MINUS"} =>
         t.range = s.range /\ t.sign = token.type /\ t.thru = FALSE
    /\ token.type = "THRU" => t.range = s.range /\ t.sign = "none" /\ t.thru = TRUE
    /\ token.type = "ENTER" => t = s

LEMMA LevelStepCases ==
    ASSUME NEW s \in LevelState, NEW token \in TokenRecord, NEW size \in Nat, NEW m,
           NEW t, t = LevelStep(s, token, size, m)
    PROVE  StepOfLevel(s, token, size, m, t)
<1>1. CASE IsNumber(token)
  <2>. PICK level : level = LevelRead(token, m)
    OBVIOUS
  <2>. PICK from : from = FirstOf(s.range)
    OBVIOUS
  <2>. PICK range : range = IF ~s.thru THEN <<level>>
                            ELSE IF size > 1 THEN Ramp(from, level, size) ELSE <<>>
    OBVIOUS
  <2>1. token.type = "NUMBER"
    BY <1>1 DEF IsNumber
  <2>2. t = [s EXCEPT !.range = range]
    BY <1>1, <2>1 DEF LevelStep, FirstOf
  <2>3. level \in Int /\ from \in Int
    <3>1. level \in Parsed
      BY LevelReadType
    <3>2. s.range \in Seq(Int)
      BY DEF LevelState
    <3>3. s.range # <<>> => s.range[1] \in Int
      BY <3>2
    <3>. QED
      BY <3>1, <3>3, NaNNegative DEF Parsed, FirstOf
  <2>4. range \in Seq(Int)
    <3>1. <<level>> \in Seq(Int) /\ <<>> \in Seq(Int)
      BY <2>3
    <3>2. size > 1 => Ramp(from, level, size) \in Seq(Int)
      BY <2>3, RampIs DEF IsRamp
    <3>. QED
      BY <3>1, <3>2
  <2>5. t \in LevelState /\ t.range = range /\ t.sign = s.sign /\ t.thru = s.thru
    BY <2>2, <2>4 DEF LevelState
  <2>. QED
    BY <1>1, <2>1, <2>5 DEF StepOfLevel
<1>2. CASE ~IsNumber(token)
  BY <1>2 DEF LevelStep, LevelState, StepOfLevel
<1>. QED
  BY <1>1, <1>2

LEMMA LevelSteps ==
    ASSUME NEW line, LineOK(line), HasAt(line), NEW at, at = AtPosition(line),
           NEW size \in Nat, NEW m, NEW s, s = LevelLoop(line, size, m)
    PROVE  /\ s[at] = LevelStart
           /\ \A n \in (at + 1)..Len(line) : StepOfLevel(s[n - 1], line[n], size, m, s[n])
           /\ \A n \in at..Len(line) : s[n] \in LevelState
           /\ LevelChange(line, size, m) = s[Len(line)]
<1>. PICK k \in Nat : k = Len(line)
  BY AtOfLine
<1>1. at \in Nat /\ at <= k /\ k \in at..k /\ \A n \in (at + 1)..k : line[n] \in TokenRecord
  BY AtOfLine
<1>. DEFINE next == [n \in (at + 1)..k |-> [v \in LevelState |-> LevelStep(v, line[n], size, m)]]
            g == Loop(at, k, LevelState, LevelStart, next)
<1>2. LevelStart \in LevelState
  BY DEF LevelStart, LevelState
<1>3. \A n \in (at + 1)..k, v \in LevelState :
         next[n][v] = LevelStep(v, line[n], size, m) /\ next[n][v] \in LevelState
  BY <1>1, LevelStepCases DEF StepOfLevel
<1>. HIDE DEF next
<1>4. Stays(at, k, LevelState, LevelStart, next)
  BY <1>1, <1>2, <1>3 DEF Stays
<1>5. Computes(g, at, k, LevelState, LevelStart, next)
  BY <1>4, LoopComputes
<1>. HIDE DEF g
<1>6. /\ g = [n \in at..k |-> g[n]] /\ g[at] = LevelStart /\ \A n \in at..k : g[n] \in LevelState
      /\ \A n \in (at + 1)..k : g[n] = next[n][g[n - 1]]
  BY <1>5, Zenon DEF Computes
<1>7. /\ \A n \in (at + 1)..k : n - 1 \in at..k /\ n \in at..k /\ n # at
      /\ \A n \in at..k : n = at \/ n \in (at + 1)..k
  BY <1>1
<1>8. \A n \in (at + 1)..k : g[n] = LevelStep(g[n - 1], line[n], size, m)
  BY <1>3, <1>6, <1>7, Zenon
<1>9. g = [n \in at..k |-> IF n = at THEN LevelStart ELSE LevelStep(g[n - 1], line[n], size, m)]
  BY <1>6, <1>7, <1>8
<1>10. LevelLoop(line, size, m) =
         CHOOSE f : f = [n \in at..k |->
                           IF n = at THEN LevelStart ELSE LevelStep(f[n - 1], line[n], size, m)]
  BY DEF LevelLoop, LevelStart
<1>11. s = [n \in at..k |-> IF n = at THEN LevelStart ELSE LevelStep(s[n - 1], line[n], size, m)]
  BY <1>9, <1>10
<1>12. s[at] = LevelStart
       /\ \A n \in (at + 1)..k : s[n] = LevelStep(s[n - 1], line[n], size, m)
  BY <1>1, <1>7, <1>11
<1>13. \A n \in (at + 1)..k : s[n - 1] \in LevelState => s[n] \in LevelState
  <2>. SUFFICES ASSUME NEW n \in (at + 1)..k, s[n - 1] \in LevelState PROVE s[n] \in LevelState
    OBVIOUS
  <2>1. StepOfLevel(s[n - 1], line[n], size, m, s[n])
    BY <1>1, <1>12, LevelStepCases
  <2>. QED
    BY <2>1 DEF StepOfLevel
<1>14. \A n \in at..k : s[n] \in LevelState
  BY <1>1, <1>2, <1>12, <1>13, LoopStays
<1>15. \A n \in (at + 1)..k : StepOfLevel(s[n - 1], line[n], size, m, s[n])
  BY <1>1, <1>7, <1>12, <1>14, LevelStepCases
<1>. QED
  BY <1>12, <1>14, <1>15 DEF LevelChange

-----------------------------------------------------------------------------
(* Levels: what is shown of them, and what a command makes of them.          *)

LEMMA WholeMultiple ==
    ASSUME NEW v \in Int
    PROVE  /\ Scale * v \in Int /\ (Scale * v) % Scale = 0 /\ (Scale * v) \div Scale = v
           /\ v >= 0 => Scale * v >= 0
  BY ScaleAssumption

\* Multiples of Scale are in the order of what is multiplied.
LEMMA WholeOrder ==
    ASSUME NEW v \in Int, NEW w \in Int
    PROVE  /\ v <= w <=> Scale * v <= Scale * w
           /\ Scale * v + Scale * w = Scale * (v + w)
           /\ Scale * v - Scale * w = Scale * (v - w)
<1>. PICK c \in Nat \ {0} : c = Scale
  BY ScaleAssumption
<1>1. c * (w - v) = c * w - c * v /\ c * (v + w) = c * v + c * w /\ c * (v - w) = c * v - c * w
  OBVIOUS
<1>2. ASSUME NEW d \in Int PROVE d >= 0 <=> c * d >= 0
  <2>1. CASE d >= 0
    BY <2>1
  <2>2. CASE d < 0
    BY <2>2
  <2>. QED
    BY <2>1, <2>2
<1>3. c * v \in Int /\ c * w \in Int /\ w - v \in Int
  OBVIOUS
<1>4. v <= w <=> w - v >= 0
  OBVIOUS
<1>5. c * v <= c * w <=> c * (w - v) >= 0
  BY <1>1, <1>3
<1>. QED
  BY <1>1, <1>2, <1>3, <1>4, <1>5

LEMMA ClampType ==
    ASSUME NEW l \in Int
    PROVE  clamp(l) \in LEVEL_MIN..LEVEL_MAX
<1>1. 255 * Scale \in Nat
  BY ScaleAssumption
<1>. QED
  BY <1>1 DEF clamp, LEVEL_MIN, LEVEL_MAX

\* The tables undo each other on whole percentages.
LEMMA TableType ==
    /\ \A p \in Int : PERCENT_LEVEL_TABLE(p) \in Int
    /\ \A l \in Int : LEVEL_PERCENT_TABLE(l) \in Int
<1>1. \A n \in Int : RoundDiv(n * 255, 100) \in Int /\ RoundDiv(n * 100, 255) \in Int
  BY RoundDivType
<1>. QED
  BY <1>1 DEF PERCENT_LEVEL_TABLE, LEVEL_PERCENT_TABLE

LEMMA TablesAgree ==
    ASSUME NEW p \in 0..100
    PROVE  /\ PERCENT_LEVEL_TABLE(p) \in 0..255
           /\ LEVEL_PERCENT_TABLE(PERCENT_LEVEL_TABLE(p)) = p
<1>. PICK l \in Int : l = PERCENT_LEVEL_TABLE(p)
  BY TableType
<1>1. 200 * l <= 510 * p + 100 /\ 510 * p + 100 < 200 * l + 200
  BY DEF PERCENT_LEVEL_TABLE, RoundDiv
<1>2. l \in 0..255 /\ (l = 0 => p = 0) /\ (l = 255 => p = 100)
  BY <1>1
<1>. PICK q \in Int : q = RoundDiv(l * 100, 255)
  BY RoundDivType
<1>3. 510 * q <= 200 * l + 255 /\ 200 * l + 255 < 510 * q + 510
  BY DEF RoundDiv
<1>4. q = p
  BY <1>1, <1>3
<1>5. (p = 0 => l = 0) /\ (p = 100 => l = 255)
  BY <1>1
<1>6. LEVEL_PERCENT_TABLE(l) = p
  BY <1>2, <1>4, <1>5 DEF LEVEL_PERCENT_TABLE
<1>. QED
  BY <1>2, <1>6

LEMMA LevelConversions ==
    ASSUME NEW l \in Int, NEW m
    PROVE  /\ LevelShown(l, m) \in Int
           /\ convertActualLevelToUserLevel(l, m) \in Int
           /\ convertUserLevelToActualLevel(l, m) \in Int
<1>1. Scale \in Nat \ {0} /\ 100 * Scale \in Nat \ {0} /\ l * 255 \in Int /\ l \div Scale \in Int
  BY ScaleAssumption
<1>2. \A n \in Int : Scale * n \in Int
  BY <1>1
<1>3. LevelShown(l, m) \in Int
  <2>1. Scale * LEVEL_PERCENT_TABLE(l \div Scale) \in Int
    BY <1>1, <1>2, TableType
  <2>. QED
    BY <2>1 DEF LevelShown, Unknown
<1>4. convertActualLevelToUserLevel(l, m) \in Int
  BY <1>3 DEF convertActualLevelToUserLevel
<1>5. convertUserLevelToActualLevel(l, m) \in Int
  <2>1. Scale * PERCENT_LEVEL_TABLE(l \div Scale) \in Int
    BY <1>1, <1>2, TableType
  <2>2. Scale * RoundDiv(l * 255, 100 * Scale) \in Int
    BY <1>1, <1>2, RoundDivType
  <2>. QED
    BY <2>1, <2>2 DEF convertUserLevelToActualLevel
<1>. QED
  BY <1>3, <1>4, <1>5

LEMMA NewLevelType ==
    ASSUME NEW l \in Int, NEW sign, NEW change \in Int, NEW m
    PROVE  NewLevel(l, sign, change, m) \in LEVEL_MIN..LEVEL_MAX
<1>. DEFINE current == convertActualLevelToUserLevel(l, m)
            level == CASE sign = "PLUS" -> current + change
                       [] sign = "MINUS" -> current - change
                       [] OTHER -> change
<1>1. level \in Int
  <2>1. current \in Int
    BY LevelConversions
  <2>. HIDE DEF current
  <2>. QED
    BY <2>1
<1>2. LEVEL_MIN \in LEVEL_MIN..LEVEL_MAX
  BY ScaleAssumption DEF LEVEL_MIN, LEVEL_MAX
<1>3. NewLevel(l, sign, change, m) =
         IF change = NaN THEN LEVEL_MIN ELSE clamp(convertUserLevelToActualLevel(level, m))
  BY DEF NewLevel
<1>. HIDE DEF level
<1>4. clamp(convertUserLevelToActualLevel(level, m)) \in LEVEL_MIN..LEVEL_MAX
  BY <1>1, LevelConversions, ClampType
<1>. QED
  BY <1>2, <1>3, <1>4

\* What a command does to each level.
LEMMA LevelsUpdated ==
    ASSUME NEW line, LineOK(line), HasAt(line), NEW m,
           NEW old \in [Address -> LEVEL_MIN..LEVEL_MAX],
           NEW new, new = updateLevelsFromCmdLine(line, old, m),
           NEW when, when = Selection(line),
           NEW size, size = Cardinality(Selected(when)),
           NEW change, change = LevelChange(line, size, m)
    PROVE  /\ new \in [Address -> LEVEL_MIN..LEVEL_MAX]
           /\ size \in Nat /\ change \in LevelState
           /\ change.range # <<>> =>
                \A a \in Selected(when) :
                   /\ Place(when, a) \in 1..size
                   /\ new[a] = NewLevel(old[a], change.sign,
                                 change.range[((Place(when, a) - 1) % Len(change.range)) + 1], m)
<1>1. /\ when \in [Address -> Nat] /\ Selected(when) \in SUBSET Address
      /\ \A a, b \in Address : when[a] = when[b] /\ when[a] > 0 => a = b
  BY SelectionIsClauses DEF Selected
<1>2. size \in Nat /\ \A a \in Selected(when) : Place(when, a) \in 1..size
  BY <1>1, Places
<1>3. change \in LevelState
  <2>. PICK at : at = AtPosition(line)
    OBVIOUS
  <2>1. at \in 2..Len(line) /\ Len(line) \in Nat
    BY AtOfLine
  <2>2. Len(line) \in at..Len(line)
    BY <2>1
  <2>. QED
    BY <1>2, <2>2, LevelSteps
<1>. PICK range : range = change.range
  OBVIOUS
<1>. PICK sign : sign = change.sign
  OBVIOUS
<1>4. range \in Seq(Int) /\ Len(range) \in Nat
  BY <1>3 DEF LevelState
<1>. DEFINE NewOf(a) == NewLevel(old[a], sign, range[((Place(when, a) - 1) % Len(range)) + 1], m)
<1>5. CASE range = <<>>
  <2>1. new = old
    BY <1>5 DEF updateLevelsFromCmdLine
  <2>. QED
    BY <1>2, <1>3, <1>5, <2>1
<1>6. CASE range # <<>>
  <2>1. new = [a \in Address |-> IF a \notin Selected(when) THEN old[a] ELSE NewOf(a)]
    BY <1>6 DEF updateLevelsFromCmdLine
  <2>2. ASSUME NEW a \in Selected(when) PROVE NewOf(a) \in LEVEL_MIN..LEVEL_MAX
    <3>. PICK p \in Nat : p = Place(when, a) - 1
      BY <1>2
    <3>. PICK n \in Nat \ {0} : n = Len(range)
      BY <1>4, <1>6
    <3>1. (p % n) + 1 \in 1..n
      OBVIOUS
    <3>2. range[(p % n) + 1] \in Int
      BY <1>4, <3>1
    <3>3. old[a] \in Int
      <4>1. LEVEL_MIN \in Int /\ LEVEL_MAX \in Int
        BY ScaleAssumption DEF LEVEL_MIN, LEVEL_MAX
      <4>2. a \in Address
        BY <1>1
      <4>. QED
        BY <4>1, <4>2
    <3>. QED
      BY <3>2, <3>3, NewLevelType
  <2>. HIDE DEF NewOf
  <2>3. new \in [Address -> LEVEL_MIN..LEVEL_MAX]
    BY <2>1, <2>2
  <2>4. \A a \in Selected(when) : new[a] = NewOf(a)
    BY <1>1, <2>1
  <2>. QED
    BY <1>2, <1>3, <2>3, <2>4 DEF NewOf
<1>. QED
  BY <1>5, <1>6

-----------------------------------------------------------------------------
(* What is shown after a command.                                           *)

FullOf(m) == IF m = "percent" THEN 100 ELSE 255

\* A level set to v, in the units of the mode, is shown as v, within its ends.
LEMMA ShownAsSet ==
    ASSUME NEW v \in Int, NEW m \in LevelDisplayMode,
           NEW l, l = clamp(convertUserLevelToActualLevel(Scale * v, m))
    PROVE  LevelShown(l, m) = Scale * (IF v < 0 THEN 0 ELSE IF v > FullOf(m) THEN FullOf(m) ELSE v)
<1>0. \A a, b \in Int : a <= b <=> Scale * a <= Scale * b
  BY WholeOrder
<1>1. Scale \in Nat \ {0} /\ Scale * v \in Int /\ (Scale * v) % Scale = 0 /\ (Scale * v) \div Scale = v
  BY ScaleAssumption, WholeMultiple
<1>2. LEVEL_MIN = Scale * 0 /\ LEVEL_MAX = Scale * 255 /\ Scale * 0 = 0
      /\ LEVEL_MIN \in Int /\ LEVEL_MAX \in Int
  BY <1>1 DEF LEVEL_MIN, LEVEL_MAX
<1>3. ASSUME NEW u \in Int
      PROVE  clamp(Scale * u) = Scale * (IF u < 0 THEN 0 ELSE IF u > 255 THEN 255 ELSE u)
  <2>1. /\ 0 <= u <=> Scale * 0 <= Scale * u
        /\ u <= 255 <=> Scale * u <= Scale * 255
        /\ Scale * u \in Int
    <3>1. \A f \in Int : (f <= u <=> Scale * f <= Scale * u) /\ (u <= f <=> Scale * u <= Scale * f)
      BY <1>0, Zenon
    <3>. QED
      BY <3>1, WholeMultiple
  <2>2. (u < 0 <=> Scale * u < LEVEL_MIN) /\ (u > 255 <=> Scale * u > LEVEL_MAX)
        /\ ~(u < 0 /\ u > 255)
    BY <1>2, <2>1
  <2>. PICK x : x = Scale * u
    OBVIOUS
  <2>3. clamp(x) = IF u < 0 THEN LEVEL_MIN ELSE IF u > 255 THEN LEVEL_MAX ELSE x
    BY <1>2, <2>2 DEF clamp
  <2>. QED
    BY <1>2, <2>3
<1>4. CASE m # "percent"
  <2>1. l = Scale * (IF v < 0 THEN 0 ELSE IF v > 255 THEN 255 ELSE v)
    BY <1>3, <1>4 DEF convertUserLevelToActualLevel
  <2>2. LevelShown(l, m) = l
    BY <1>4 DEF LevelShown
  <2>. QED
    BY <1>4, <2>1, <2>2 DEF FullOf
<1>5. CASE m = "percent"
  <2>1. \A w \in Int : LevelShown(Scale * w, m) = Scale * LEVEL_PERCENT_TABLE(w)
    BY <1>5, WholeMultiple DEF LevelShown, IsWhole
  <2>2. LEVEL_PERCENT_TABLE(0) = 0 /\ LEVEL_PERCENT_TABLE(255) = 100
    BY DEF LEVEL_PERCENT_TABLE
  <2>3. /\ 0 <= v <=> 0 <= Scale * v
        /\ v <= 100 <=> Scale * v <= 100 * Scale
    <3>. PICK z \in Int, f \in Int : z = 0 /\ f = 100
      OBVIOUS
    <3>1. Scale * f = 100 * Scale /\ Scale * z = 0
      BY <1>1
    <3>2. (z <= v <=> Scale * z <= Scale * v) /\ (v <= f <=> Scale * v <= Scale * f)
      BY WholeOrder
    <3>. QED
      BY <3>1, <3>2
  <2>4. CASE v \in 0..100
    <3>1. Scale * v \in 0..(100 * Scale)
      BY <1>1, <2>3, <2>4
    <3>2. convertUserLevelToActualLevel(Scale * v, m) = Scale * PERCENT_LEVEL_TABLE(v)
      BY <1>1, <1>5, <3>1 DEF convertUserLevelToActualLevel, IsWhole
    <3>. PICK w \in 0..255 : w = PERCENT_LEVEL_TABLE(v) /\ LEVEL_PERCENT_TABLE(w) = v
      BY <2>4, TablesAgree
    <3>3. l = Scale * w
      BY <1>3, <3>2
    <3>4. LevelShown(l, m) = Scale * v
      BY <2>1, <3>3
    <3>. QED
      BY <1>5, <2>4, <3>4 DEF FullOf
  <2>5. CASE v \notin 0..100
    <3>. PICK d \in Nat \ {0} : d = 100 * Scale
      BY <1>1
    <3>. PICK n \in Int : n = (Scale * v) * 255
      BY <1>1
    <3>. PICK u \in Int : u = RoundDiv(n, d)
      BY RoundDivType
    <3>1. Scale * v \notin 0..(100 * Scale)
      BY <1>1, <2>3, <2>5
    <3>2. l = clamp(Scale * u)
      BY <1>1, <1>5, <3>1 DEF convertUserLevelToActualLevel
    <3>3. (2 * d) * u <= 2 * n + d /\ 2 * n + d < (2 * d) * u + 2 * d
      <4>. PICK e \in Nat \ {0} : e = 2 * d
        OBVIOUS
      <4>. PICK x \in Int : x = 2 * n + d
        OBVIOUS
      <4>1. u = x \div e
        BY DEF RoundDiv
      <4>2. e * u <= x /\ x < e * u + e
        BY <4>1
      <4>. QED
        BY <4>2
    <3>4. v > 100 => u >= 255
      <4>. SUFFICES ASSUME v > 100, u < 255 PROVE FALSE
        OBVIOUS
      <4>1. n = 255 * (Scale * v)
        BY <1>1
      <4>2. Scale * v >= Scale * 101 /\ Scale * 101 = 101 * Scale
        <5>1. 101 <= v
          OBVIOUS
        <5>. QED
          BY <1>1, <5>1, WholeOrder
      <4>3. d * u <= d * 254
        <5>1. d * (254 - u) >= 0 /\ d * (254 - u) = d * 254 - d * u /\ d * u \in Int
          OBVIOUS
        <5>. QED
          BY <5>1
      <4>4. (2 * d) * u = 2 * (d * u) /\ d * u \in Int
        OBVIOUS
      <4>. QED
        BY <1>1, <3>3, <4>1, <4>2, <4>3, <4>4
    <3>5. v < 0 => u < 0
      <4>. SUFFICES ASSUME v < 0, u >= 0 PROVE FALSE
        OBVIOUS
      <4>1. n = 255 * (Scale * v)
        BY <1>1
      <4>2. Scale * v <= Scale * (-1) /\ Scale * (-1) = -Scale
        <5>1. v <= -1 /\ -1 \in Int
          OBVIOUS
        <5>. QED
          BY <1>1, <5>1, WholeOrder
      <4>3. d * u >= 0 /\ d * u \in Int /\ (2 * d) * u = 2 * (d * u)
        OBVIOUS
      <4>. QED
        BY <1>1, <3>3, <4>1, <4>2, <4>3
    <3>6. CASE v > 100
      <4>1. l = Scale * 255
        <5>1. clamp(Scale * u) = Scale * (IF u < 0 THEN 0 ELSE IF u > 255 THEN 255 ELSE u)
          BY <1>3
        <5>2. u >= 255
          BY <3>4, <3>6
        <5>3. (IF u < 0 THEN 0 ELSE IF u > 255 THEN 255 ELSE u) = 255
          BY <5>2
        <5>. QED
          BY <3>2, <5>1, <5>3
      <4>2. LevelShown(l, m) = Scale * 100
        BY <2>1, <2>2, <4>1
      <4>. QED
        BY <1>5, <3>6, <4>2 DEF FullOf
    <3>7. CASE v < 0
      <4>1. l = Scale * 0
        BY <1>3, <3>2, <3>5, <3>7
      <4>2. LevelShown(l, m) = Scale * 0
        BY <2>1, <2>2, <4>1
      <4>. QED
        BY <3>7, <4>2
    <3>. QED
      BY <2>5, <3>6, <3>7
  <2>. QED
    BY <2>4, <2>5
<1>. QED
  BY <1>4, <1>5

\* A level that is a little off, by less than a twelfth of a level: percent mode
\* does not show it, the other modes show it for what it is.
IsShownNear(shown, full, m, e) ==
    LET off == shown - Scale * full
    IN /\ m = "percent" => off = 0
       /\ 0 <= e => 0 <= off /\ off <= e
       /\ e <= 0 => e <= off /\ off <= 0

LEMMA PercentOf ==
    ASSUME NEW w \in Int, NEW q, q = RoundDiv(w * 100, 255)
    PROVE  q \in Int /\ 510 * q <= 200 * w + 255 /\ 200 * w + 255 < 510 * q + 510
<1>1. q = (200 * w + 255) \div 510
  BY DEF RoundDiv
<1>. QED
  BY <1>1

LEMMA NearTable ==
    ASSUME NEW v \in Nat, NEW w \in Int, v > 100 => w = 255,
           v <= 100 => 200 * w - 510 * v < 143 /\ -143 < 200 * w - 510 * v
    PROVE  LEVEL_PERCENT_TABLE(w) = IF v > 100 THEN 100 ELSE v
<1>. PICK q : q = RoundDiv(w * 100, 255)
  OBVIOUS
<1>1. q \in Int /\ 510 * q <= 200 * w + 255 /\ 200 * w + 255 < 510 * q + 510
  BY PercentOf
<1>2. CASE v > 100
  BY <1>2 DEF LEVEL_PERCENT_TABLE
<1>3. CASE v <= 100
  <2>1. 200 * w < 510 * v + 143 /\ 510 * v < 200 * w + 143 /\ v \in Int
    BY <1>3
  <2>2. q < v + 1 /\ v < q + 1
    BY <1>1, <2>1
  <2>3. q = v
    BY <1>1, <2>1, <2>2
  <2>4. w = 0 <=> v = 0
    BY <2>1
  <2>5. w = 255 <=> v = 100
    BY <2>1
  <2>. QED
    BY <1>3, <2>3, <2>4, <2>5 DEF LEVEL_PERCENT_TABLE
<1>. QED
  BY <1>2, <1>3

LEMMA PercentShownNear ==
    ASSUME NEW v \in Nat, NEW e \in Int, 12 * e < Scale, -Scale < 12 * e,
           NEW l, l = clamp(Scale * RoundDiv((Scale * v + e) * 255, 100 * Scale))
    PROVE  LevelShown(l, "percent") = Scale * (IF v > 100 THEN 100 ELSE v)
<1>. PICK c \in Nat \ {0} : c = Scale
  BY ScaleAssumption
<1>. PICK x \in Int : x = c * v
  OBVIOUS
<1>. PICK u \in Int : u = RoundDiv((x + e) * 255, 100 * c)
  <2>1. (x + e) * 255 \in Int /\ 100 * c \in Nat \ {0}
    OBVIOUS
  <2>. QED
    BY <2>1, RoundDivType
<1>. PICK y \in Int : y = c * u
  OBVIOUS
<1>1. 200 * y <= 510 * x + 510 * e + 100 * c /\ 510 * x + 510 * e + 100 * c < 200 * y + 200 * c
  <2>. PICK d \in Nat \ {0} : d = 100 * c
    OBVIOUS
  <2>. PICK n \in Int : n = (x + e) * 255
    OBVIOUS
  <2>1. 2 * (d * u) <= 2 * n + d /\ 2 * n + d < 2 * (d * u) + 2 * d
    BY RoundDivIs
  <2>2. d * u = 100 * y
    OBVIOUS
  <2>. QED
    BY <2>1, <2>2
<1>2. 510 * e < 43 * c /\ -(43 * c) < 510 * e
  OBVIOUS
<1>3. 200 * u - 510 * v < 143 /\ -143 < 200 * u - 510 * v
  <2>. PICK z \in Int : z = 200 * u - 510 * v
    OBVIOUS
  <2>1. c * z = 200 * y - 510 * x
    <3>1. c * z = c * (200 * u) - c * (510 * v) /\ c * (200 * u) = 200 * y /\ c * (510 * v) = 510 * x
      OBVIOUS
    <3>. QED
      BY <3>1
  <2>2. c * z < 143 * c /\ -(143 * c) < c * z
    BY <1>1, <1>2, <2>1
  <2>3. z < 143
    <3>. SUFFICES ASSUME z >= 143 PROVE FALSE
      OBVIOUS
    <3>1. c * (z - 143) >= 0 /\ c * (z - 143) = c * z - 143 * c /\ c * z \in Int
      OBVIOUS
    <3>. QED
      BY <2>2, <3>1
  <2>4. -143 < z
    <3>. SUFFICES ASSUME z <= -143 PROVE FALSE
      OBVIOUS
    <3>1. c * (-143 - z) >= 0 /\ c * (-143 - z) = -(143 * c) - c * z /\ c * z \in Int
      OBVIOUS
    <3>. QED
      BY <2>2, <3>1
  <2>. QED
    BY <2>3, <2>4
<1>4. u >= 0 /\ (v > 100 => u > 255) /\ (v <= 100 => u <= 255)
  BY <1>3
<1>. PICK w \in Int : w = IF u > 255 THEN 255 ELSE u
  OBVIOUS
<1>5. l = Scale * w
  <2>1. l = clamp(y) /\ LEVEL_MIN = 0 /\ LEVEL_MAX = 255 * c
    BY DEF LEVEL_MIN, LEVEL_MAX
  <2>2. y >= 0
    BY <1>4
  <2>3. u <= 255 => y <= 255 * c
    <3>1. c * (255 - u) = 255 * c - y /\ (u <= 255 => c * (255 - u) >= 0)
      OBVIOUS
    <3>. QED
      BY <3>1
  <2>4. u > 255 => y > 255 * c
    <3>1. c * (u - 255) = y - 255 * c /\ (u > 255 => c * (u - 255) > 0)
      OBVIOUS
    <3>. QED
      BY <3>1
  <2>5. clamp(y) = IF u > 255 THEN LEVEL_MAX ELSE y
    BY <2>1, <2>2, <2>3, <2>4 DEF clamp
  <2>. QED
    BY <2>1, <2>5
<1>6. LEVEL_PERCENT_TABLE(w) = IF v > 100 THEN 100 ELSE v
  <2>1. (v > 100 => w = 255) /\ (v <= 100 => 200 * w - 510 * v < 143 /\ -143 < 200 * w - 510 * v)
    BY <1>3, <1>4
  <2>. QED
    BY <2>1, NearTable
<1>7. LevelShown(l, "percent") = Scale * LEVEL_PERCENT_TABLE(w)
  BY <1>5, WholeMultiple DEF LevelShown, IsWhole
<1>. QED
  BY <1>6, <1>7

LEMMA ShownNear ==
    ASSUME NEW v \in Nat, NEW e \in Int, 12 * e < Scale, -Scale < 12 * e,
           NEW m \in LevelDisplayMode,
           NEW l, l = clamp(convertUserLevelToActualLevel(Scale * v + e, m)),
           NEW full, full = IF v > FullOf(m) THEN FullOf(m) ELSE v
    PROVE  IsShownNear(LevelShown(l, m), full, m, e)
<1>1. Scale \in Nat \ {0} /\ full \in Nat /\ Scale * full \in Nat
  BY ScaleAssumption DEF FullOf
<1>2. CASE e = 0
  <2>1. LevelShown(l, m) = Scale * full
    <3>1. Scale * v + e = Scale * v /\ v \in Int /\ ~(v < 0)
      BY <1>1, <1>2
    <3>. QED
      BY <3>1, ShownAsSet
  <2>2. Scale * full - Scale * full = 0
    BY <1>1
  <2>. QED
    BY <1>2, <2>1, <2>2 DEF IsShownNear
<1>3. CASE e # 0 /\ m # "percent"
  <2>. PICK x \in Nat : x = Scale * v
    BY <1>1
  <2>1. LevelShown(l, m) = clamp(x + e)
    BY <1>3 DEF LevelShown, convertUserLevelToActualLevel
  <2>2. LEVEL_MIN = 0 /\ LEVEL_MAX = 255 * Scale
    BY DEF LEVEL_MIN, LEVEL_MAX
  <2>3. CASE v > 255
    <3>1. x >= 256 * Scale
      <4>1. Scale * (v - 256) >= 0 /\ Scale * (v - 256) = x - 256 * Scale
        BY <1>1, <2>3
      <4>. QED
        BY <1>1, <4>1
    <3>2. clamp(x + e) = 255 * Scale
      BY <1>1, <2>2, <3>1 DEF clamp
    <3>3. full = 255
      BY <1>3, <2>3 DEF FullOf
    <3>. QED
      BY <1>1, <1>3, <2>1, <3>2, <3>3 DEF IsShownNear
  <2>4. CASE v <= 255
    <3>1. x <= 255 * Scale
      <4>1. Scale * (255 - v) >= 0 /\ Scale * (255 - v) = 255 * Scale - x
        BY <1>1, <2>4
      <4>. QED
        BY <1>1, <4>1
    <3>2. full = v
      BY <1>3, <2>4 DEF FullOf
    <3>. PICK y : y = clamp(x + e)
      OBVIOUS
    <3>3. y = IF x + e < 0 THEN 0 ELSE IF x + e > 255 * Scale THEN 255 * Scale ELSE x + e
      BY <1>1, <2>2 DEF clamp
    <3>4. (0 <= e => 0 <= y - x /\ y - x <= e) /\ (e <= 0 => e <= y - x /\ y - x <= 0)
      BY <1>1, <3>1, <3>3
    <3>. QED
      BY <1>3, <2>1, <3>2, <3>4 DEF IsShownNear
  <2>. QED
    BY <2>3, <2>4
<1>4. CASE e # 0 /\ m = "percent"
  <2>. PICK u : u = Scale * v + e
    OBVIOUS
  <2>1. ~IsWhole(u)
    <3>. SUFFICES ASSUME u % Scale = 0 PROVE FALSE
      BY DEF IsWhole
    <3>. PICK c \in Nat \ {0} : c = Scale
      BY <1>1
    <3>1. u \in Int
      BY <1>1
    <3>. PICK w \in Int : u = c * w
      BY <3>1, WholeQuotient
    <3>2. c * (w - v) = e
      <4>1. c * (w - v) = c * w - c * v /\ c * w \in Int /\ c * v \in Int
        OBVIOUS
      <4>. QED
        BY <4>1
    <3>. PICK z \in Int : z = w - v
      OBVIOUS
    <3>3. z >= 1 => c * z >= c
      <4>1. c * (z - 1) = c * z - c /\ (z >= 1 => c * (z - 1) >= 0)
        OBVIOUS
      <4>. QED
        BY <4>1
    <3>4. z <= -1 => c * z <= -c
      <4>1. c * (-1 - z) = -c - c * z /\ (z <= -1 => c * (-1 - z) >= 0)
        OBVIOUS
      <4>. QED
        BY <4>1
    <3>5. z = 0 => c * z = 0
      OBVIOUS
    <3>. QED
      BY <1>4, <3>2, <3>3, <3>4, <3>5
  <2>2. convertUserLevelToActualLevel(u, m) = Scale * RoundDiv(u * 255, 100 * Scale)
    BY <1>4, <2>1 DEF convertUserLevelToActualLevel
  <2>3. LevelShown(l, "percent") = Scale * full
    BY <1>4, <2>2, PercentShownNear DEF FullOf
  <2>4. Scale * full - Scale * full = 0
    BY <1>1
  <2>. QED
    BY <1>4, <2>3, <2>4 DEF IsShownNear
<1>. QED
  BY <1>2, <1>3, <1>4

-----------------------------------------------------------------------------
(* The level part of a command.                                             *)

\* A sign comes first if it comes at all, numbers and thrus take turns, and
\* nothing follows an Enter.
LEMMA AfterAt ==
    ASSUME NEW line, LineOK(line), HasAt(line), NEW at, at = AtPosition(line),
           NEW i \in (at + 1)..Len(line)
    PROVE  /\ line[i].type \in {"NUMBER", "PLUS", "MINUS", "THRU", "ENTER"}
           /\ line[i].type = "NUMBER" => line[i - 1].type \in {"AT", "PLUS", "MINUS", "THRU"}
           /\ line[i].type \in {"PLUS", "MINUS"} => i = at + 1
           /\ line[i].type \in {"THRU", "ENTER"} => i > at + 1 /\ line[i - 1].type = "NUMBER"
           /\ line[i - 1].type # "ENTER"
<1>1. /\ Len(line) \in Nat /\ at \in 2..Len(line) /\ line[at].type = "AT"
      /\ \A j \in 1..Len(line) : line[j].type \in TokenType
      /\ \A j \in 1..Len(line) : line[j].type = "AT" => j = at
      /\ \A j \in (at + 1)..Len(line) :
            line[j].type \in {"NUMBER", "PLUS", "MINUS", "THRU", "ENTER"}
  BY AtOfLine
<1>2. i \in 2..Len(line) /\ i - 1 \in 1..Len(line) /\ at \in 1..(i - 1)
  BY <1>1
<1>3. Follows(line[i - 1].type, line[i].type, TRUE)
  <2>1. AtBefore(line, i)
    BY <1>1, <1>2 DEF AtBefore
  <2>. QED
    BY <1>2, <2>1 DEF LineOK, Sentence, MayFollow, Follows
<1>4. line[i - 1].type = "AT" <=> i = at + 1
  BY <1>1, <1>2
<1>5. line[i - 1].type \in TokenType
  BY <1>1, <1>2
<1>6. line[i].type \in {"THRU", "ENTER"} => line[i - 1].type = "NUMBER" /\ i > at + 1
  <2>1. line[i].type \in {"THRU", "ENTER"} => line[i - 1].type = "NUMBER"
    BY <1>3 DEF Follows
  <2>. QED
    BY <1>1, <1>4, <2>1
<1>. QED
  BY <1>1, <1>3, <1>4, <1>5, <1>6 DEF Follows, TokenType

LEMMA EnterIsLast ==
    ASSUME NEW line, LineOK(line), HasAt(line), IsCommitted(line), NEW at, at = AtPosition(line)
    PROVE  /\ Len(line) \in Nat /\ at \in Nat /\ Len(line) > at + 1
           /\ line[Len(line)].type = "ENTER" /\ line[Len(line) - 1].type = "NUMBER"
<1>1. Len(line) \in Nat /\ at \in 2..Len(line) /\ line[at].type = "AT"
  BY AtOfLine
<1>2. line[Len(line)].type = "ENTER"
  BY DEF IsCommitted, Last
<1>3. Len(line) \in (at + 1)..Len(line)
  BY <1>1, <1>2
<1>. PICK k \in Nat : k = Len(line)
  BY <1>1
<1>4. k > at + 1 /\ line[k - 1].type = "NUMBER"
  BY <1>2, <1>3, AfterAt
<1>. QED
  BY <1>1, <1>2, <1>4

\* Without a sign: what the list of levels is after n tokens.
PlainInv(line, at, n, size, m, s) ==
    LET last == IF IsNumber(line[n]) THEN n ELSE n - 1
    IN /\ s.sign = "none" /\ last > at /\ IsNumber(line[last])
       /\ line[n].type = "THRU" => s.thru
       /\ s.range = IF last = at + 1 THEN <<LevelRead(line[last], m)>>
                    ELSE IF size > 1
                    THEN Ramp(LevelRead(line[at + 1], m), LevelRead(line[last], m), size)
                    ELSE <<>>

LEMMA PlainStep ==
    ASSUME NEW line, LineOK(line), HasAt(line), NEW at, at = AtPosition(line),
           NEW size \in Nat, NEW m, NEW n \in (at + 2)..Len(line),
           line[n].type \notin {"PLUS", "MINUS"},
           NEW s \in LevelState, PlainInv(line, at, n - 1, size, m, s),
           NEW t, StepOfLevel(s, line[n], size, m, t)
    PROVE  PlainInv(line, at, n, size, m, t)
<1>. USE DEF IsNumber
<1>1. /\ Len(line) \in Nat /\ at \in Nat /\ n \in Nat /\ n - 1 \in (at + 1)..Len(line)
      /\ n \in (at + 1)..Len(line) /\ n - 1 # n /\ n # at + 1
      /\ \A i \in (at + 1)..Len(line) : line[i] \in TokenRecord
  BY AtOfLine
<1>2. /\ line[n].type \in {"NUMBER", "THRU", "ENTER"}
      /\ line[n].type = "NUMBER" => line[n - 1].type \in {"AT", "PLUS", "MINUS", "THRU"}
      /\ line[n].type \in {"THRU", "ENTER"} => line[n - 1].type = "NUMBER"
      /\ line[n - 1].type # "AT"
      /\ line[n - 1].type \in {"PLUS", "MINUS"} => n - 1 = at + 1
  <2>1. line[n - 1].type \in {"NUMBER", "PLUS", "MINUS", "THRU", "ENTER"}
        /\ (line[n - 1].type \in {"PLUS", "MINUS"} => n - 1 = at + 1)
    BY <1>1, AfterAt
  <2>. QED
    BY <1>1, <2>1, AfterAt
<1>3. CASE IsNumber(line[n])
  <2>1. ~IsNumber(line[n - 1]) /\ n - 2 > at /\ IsNumber(line[n - 1 - 1]) /\ n - 1 # at + 1
    BY <1>1, <1>2, <1>3 DEF PlainInv
  <2>2. line[n - 1].type = "THRU"
    BY <1>1, <1>2, <1>3, <2>1
  <2>. PICK last : last = n - 1 - 1
    OBVIOUS
  <2>. PICK first : first = LevelRead(line[at + 1], m)
    OBVIOUS
  <2>. PICK level : level = LevelRead(line[n], m)
    OBVIOUS
  <2>3. /\ s.sign = "none" /\ s.thru
        /\ s.range = IF last = at + 1 THEN <<LevelRead(line[last], m)>>
                     ELSE IF size > 1 THEN Ramp(first, LevelRead(line[last], m), size) ELSE <<>>
    BY <2>1, <2>2 DEF PlainInv
  <2>4. t.sign = "none" /\ t.range = IF size > 1 THEN Ramp(FirstOf(s.range), level, size) ELSE <<>>
    BY <1>3, <2>3 DEF StepOfLevel
  <2>5. size > 1 => FirstOf(s.range) = first
    <3>. SUFFICES ASSUME size > 1 PROVE FirstOf(s.range) = first
      OBVIOUS
    <3>1. CASE last = at + 1
      BY <2>3, <3>1 DEF FirstOf
    <3>2. CASE last # at + 1
      <4>. PICK to : to = LevelRead(line[last], m)
        OBVIOUS
      <4>1. last \in (at + 1)..Len(line) /\ at + 1 \in (at + 1)..Len(line)
        BY <1>1, <2>1
      <4>2. first \in Int /\ to \in Int
        BY <1>1, <4>1, LevelReadType, NaNNegative DEF Parsed
      <4>3. s.range = Ramp(first, to, size)
        BY <2>3, <3>2
      <4>. QED
        <5>1. IsRamp(s.range, first, to, size)
          BY <4>2, <4>3, RampIs
        <5>. QED
          BY <5>1 DEF FirstOf, IsRamp
    <3>. QED
      BY <3>1, <3>2
  <2>6. t.range = IF size > 1 THEN Ramp(first, level, size) ELSE <<>>
    BY <2>4, <2>5
  <2>7. line[n].type # "THRU" /\ n > at /\ n # at + 1
    BY <1>1, <1>3
  <2>. QED
    BY <1>3, <2>4, <2>6, <2>7 DEF PlainInv
<1>4. CASE ~IsNumber(line[n])
  <2>1. IsNumber(line[n - 1]) /\ n - 1 > at
    BY <1>1, <1>2, <1>4
  <2>2. t.range = s.range /\ t.sign = "none" /\ (line[n].type = "THRU" => t.thru)
    BY <1>2, <1>4 DEF StepOfLevel, PlainInv
  <2>. QED
    BY <1>4, <2>1, <2>2 DEF PlainInv
<1>. QED
  BY <1>3, <1>4

\* What the loop has made of a command without a sign.
PlainChange(line, at, size, m, change) ==
    LET final == Len(line) - 1
    IN /\ change.sign = "none" /\ final > at
       /\ IsNumber(line[at + 1]) /\ IsNumber(line[final])
       /\ change.range = IF final = at + 1 THEN <<LevelRead(line[at + 1], m)>>
                         ELSE IF size > 1
                         THEN Ramp(LevelRead(line[at + 1], m), LevelRead(line[final], m), size)
                         ELSE <<>>

LEMMA PlainLine ==
    ASSUME NEW line, LineOK(line), HasAt(line), IsCommitted(line),
           NEW at, at = AtPosition(line),
           \A i \in (at + 1)..Len(line) : line[i].type \notin {"PLUS", "MINUS"},
           NEW size \in Nat, NEW m, NEW change, change = LevelChange(line, size, m)
    PROVE  PlainChange(line, at, size, m, change)
<1>. PICK s : s = LevelLoop(line, size, m)
  OBVIOUS
<1>. PICK k \in Nat : k = Len(line)
  BY EnterIsLast
<1>1. /\ at \in Nat /\ k > at + 1 /\ line[k].type = "ENTER" /\ line[k - 1].type = "NUMBER"
  BY EnterIsLast
<1>2. /\ s[at] = LevelStart
      /\ \A n \in (at + 1)..k : StepOfLevel(s[n - 1], line[n], size, m, s[n])
      /\ \A n \in at..k : s[n] \in LevelState
      /\ change = s[k]
  BY LevelSteps
<1>3. at + 1 \in (at + 1)..k /\ at + 1 - 1 = at /\ k \in (at + 1)..k /\ at + 1 \in Nat /\ at + 1 > at
  BY <1>1
<1>4. IsNumber(line[at + 1])
  <2>1. line[at + 1].type \in {"NUMBER", "THRU", "ENTER"}
        /\ (line[at + 1].type \in {"THRU", "ENTER"} => at + 1 > at + 1)
    BY <1>3, AfterAt
  <2>. QED
    BY <1>1, <2>1 DEF IsNumber
<1>5. PlainInv(line, at, at + 1, size, m, s[at + 1])
  <2>1. StepOfLevel(LevelStart, line[at + 1], size, m, s[at + 1])
    <3>. PICK f : f = at + 1
      OBVIOUS
    <3>1. f \in (at + 1)..k /\ f - 1 = at
      BY <1>1, <1>3
    <3>2. StepOfLevel(s[f - 1], line[f], size, m, s[f])
      BY <1>2, <3>1
    <3>3. StepOfLevel(LevelStart, line[f], size, m, s[f])
      BY <1>2, <3>1, <3>2
    <3>. QED
      BY <3>3
  <2>2. s[at + 1].sign = "none" /\ s[at + 1].range = <<LevelRead(line[at + 1], m)>>
    BY <1>4, <2>1 DEF StepOfLevel, LevelStart
  <2>. QED
    BY <1>3, <1>4, <2>2 DEF PlainInv, IsNumber
<1>. DEFINE T == {n \in (at + 1)..k : PlainInv(line, at, n, size, m, s[n])}
<1>6. \A n \in (at + 1 + 1)..k : n - 1 \in T => n \in T
  <2>. SUFFICES ASSUME NEW n \in (at + 2)..k, PlainInv(line, at, n - 1, size, m, s[n - 1])
                PROVE  PlainInv(line, at, n, size, m, s[n])
    BY <1>1
  <2>. PICK u : u = s[n - 1]
    OBVIOUS
  <2>. PICK t : t = s[n]
    OBVIOUS
  <2>1. n - 1 \in at..k /\ n \in (at + 1)..k
    BY <1>1
  <2>2. u \in LevelState /\ StepOfLevel(u, line[n], size, m, t)
        /\ line[n].type \notin {"PLUS", "MINUS"}
    BY <1>2, <2>1
  <2>3. PlainInv(line, at, n, size, m, t)
    BY <2>2, PlainStep
  <2>. QED
    BY <2>3
<1>7. at + 1 \in T
  BY <1>3, <1>5
<1>. HIDE DEF T
<1>8. \A n \in (at + 1)..k : n \in T
  BY <1>3, <1>6, <1>7, UpFrom
<1>9. PlainInv(line, at, k, size, m, change)
  BY <1>2, <1>3, <1>8 DEF T
<1>10. ~IsNumber(line[k])
  BY <1>1 DEF IsNumber
<1>11. /\ change.sign = "none" /\ k - 1 > at /\ IsNumber(line[k - 1])
       /\ change.range = IF k - 1 = at + 1 THEN <<LevelRead(line[k - 1], m)>>
                         ELSE IF size > 1
                         THEN Ramp(LevelRead(line[at + 1], m), LevelRead(line[k - 1], m), size)
                         ELSE <<>>
  BY <1>9, <1>10 DEF PlainInv
<1>. QED
  BY <1>4, <1>11 DEF PlainChange

\* What has added up after n steps to a difference d, but for e of it.
Strays(e, d, n) ==
    /\ 2 * e <= n /\ -n <= 2 * e
    /\ \A w \in Int : d = n * w => e = 0

LEMMA RampStrays ==
    ASSUME NEW d \in Int, NEW n \in Nat \ {0}, NEW e, e = n * RoundDiv(d, n) - d
    PROVE  e \in Int /\ Strays(e, d, n)
<1>. PICK x : x = RoundDiv(d, n)
  OBVIOUS
<1>1. x \in Int /\ 2 * (n * x) <= 2 * d + n /\ 2 * d + n < 2 * (n * x) + 2 * n
  BY RoundDivIs
<1>. PICK y \in Int : y = n * x
  BY <1>1
<1>2. e = y - d /\ e \in Int /\ 2 * e <= n /\ -n <= 2 * e
  BY <1>1
<1>3. ASSUME NEW w \in Int, d = n * w PROVE e = 0
  <2>. PICK z \in Int : z = x - w
    BY <1>1
  <2>1. n * z = e
    <3>1. n * z = n * x - n * w
      BY <1>1
    <3>. QED
      BY <1>2, <1>3, <3>1
  <2>2. z >= 1 => n * z >= n
    <3>1. n * (z - 1) = n * z - n /\ (z >= 1 => n * (z - 1) >= 0)
      OBVIOUS
    <3>. QED
      BY <3>1
  <2>3. z <= -1 => n * z <= -n
    <3>1. n * (-1 - z) = -n - n * z /\ (z <= -1 => n * (-1 - z) >= 0)
      OBVIOUS
    <3>. QED
      BY <3>1
  <2>4. z = 0 => n * z = 0
    OBVIOUS
  <2>. QED
    BY <1>2, <2>1, <2>2, <2>3, <2>4
<1>. QED
  BY <1>2, <1>3 DEF Strays

\* The ends of a list of levels: the first address has the level that was
\* typed first, and the last the one that was typed last, as the steps reach it.
TypedRange(one, first, to, size) ==
    IF one THEN <<first>> ELSE IF size > 1 THEN Ramp(first, to, size) ELSE <<>>

Reaches(level, first, to, size) ==
    \E e \in Int : level = to + e /\ Strays(e, to - first, size - 1)

RangeEnds(range, one, first, to, size, p) ==
    LET level == range[((p - 1) % Len(range)) + 1]
    IN /\ one => range # <<>> /\ level = first
       /\ size > 1 => range # <<>>
       /\ size > 1 /\ p = 1 => level = first
       /\ size > 1 /\ p = size /\ ~one => Reaches(level, first, to, size)

LEMMA TypedRangeEnds ==
    ASSUME NEW first \in Int, NEW to \in Int, first # NaN, to # NaN,
           NEW size \in Nat, NEW p \in 1..size, NEW one \in BOOLEAN,
           NEW range, range = TypedRange(one, first, to, size)
    PROVE  RangeEnds(range, one, first, to, size, p)
<1>. PICK index : index = ((p - 1) % Len(range)) + 1
  OBVIOUS
<1>1. ASSUME NEW q \in Nat PROVE q % 1 = 0
  OBVIOUS
<1>2. CASE one
  <2>. PICK q \in Nat : q = p - 1
    OBVIOUS
  <2>1. range = <<first>> /\ Len(range) = 1
    BY <1>2 DEF TypedRange
  <2>2. index = 1
    BY <1>1, <2>1
  <2>3. range # <<>> /\ range[index] = first
    BY <2>1, <2>2
  <2>. QED
    BY <1>2, <2>3, Zenon DEF RangeEnds
<1>3. CASE ~one /\ size > 1
  <2>1. range = Ramp(first, to, size)
    BY <1>3 DEF TypedRange
  <2>2. /\ Len(range) = size /\ range # <<>> /\ range[1] = first
        /\ \A i \in 1..size : range[i] = first + (i - 1) * RoundDiv(to - first, size - 1)
    <3>1. IsRamp(range, first, to, size)
      BY <1>3, <2>1, RampIs
    <3>. QED
      BY <3>1, Zenon DEF IsRamp
  <2>3. index = p
    <3>. PICK q \in Nat : q = p - 1 /\ q < size
      OBVIOUS
    <3>1. q % size = q
      OBVIOUS
    <3>. QED
      BY <2>2, <3>1
  <2>4. p = size => Reaches(range[p], first, to, size)
    <3>. SUFFICES ASSUME p = size PROVE Reaches(range[p], first, to, size)
      OBVIOUS
    <3>. PICK d \in Int : d = to - first
      OBVIOUS
    <3>. PICK n \in Nat \ {0} : n = size - 1
      BY <1>3
    <3>. PICK y : y = n * RoundDiv(d, n)
      OBVIOUS
    <3>. PICK e : e = y - d
      OBVIOUS
    <3>1. e \in Int /\ Strays(e, d, n)
      BY RampStrays
    <3>2. y \in Int
      BY RoundDivType
    <3>3. range[p] = first + y
      BY <2>2
    <3>4. range[p] = to + e
      BY <3>2, <3>3
    <3>. QED
      BY <3>1, <3>4, Zenon DEF Reaches
  <2>. QED
    BY <1>3, <2>2, <2>3, <2>4 DEF RangeEnds
<1>4. CASE ~one /\ ~(size > 1)
  BY <1>4 DEF RangeEnds
<1>. QED
  BY <1>2, <1>3, <1>4

LEMMA StrayIsNumber ==
    ASSUME NEW to \in Nat, NEW e \in Int, NEW size \in Nat, size <= DMX_MAX, 1 - size <= 2 * e
    PROVE  to + e \in Int /\ to + e # NaN
<1>1. DMX_MAX \in Nat /\ Scale \in Nat \ {0} /\ Scale >= 6 * DMX_MAX
  BY CmdLineAssumption, ScaleAssumption
<1>2. to + e > -Scale
  BY <1>1
<1>. QED
  BY <1>1, <1>2 DEF NaN

\* What a command without a sign sets the first and the last address to, when
\* vf and vg were typed.
SetTo(level, one, vf, vg, size, p, m) ==
    /\ one \/ (size > 1 /\ p = 1) => level = clamp(convertUserLevelToActualLevel(Scale * vf, m))
    /\ size > 1 /\ p = size /\ ~one =>
         \E e \in Int : /\ level = clamp(convertUserLevelToActualLevel(Scale * vg + e, m))
                        /\ Strays(e, Scale * vg - Scale * vf, size - 1)

LEMMA CommandSets ==
    ASSUME NEW line, LineOK(line), HasAt(line), IsCommitted(line),
           NEW at, at = AtPosition(line),
           \A i \in (at + 1)..Len(line) : line[i].type \notin {"PLUS", "MINUS"},
           NEW m \in LevelDisplayMode, NEW old \in [Address -> LEVEL_MIN..LEVEL_MAX],
           NEW new, new = updateLevelsFromCmdLine(line, old, m),
           NEW when, when = Selection(line),
           NEW size, size = Cardinality(Selected(when)),
           NEW numbers, numbers = LevelNumbers(line),
           \A i \in numbers : parseInt(line[i].digits, Base(m)) # NaN,
           NEW a \in Selected(when), NEW f \in numbers, NEW g \in numbers,
           \A j \in numbers : f <= j /\ j <= g,
           NEW vf, vf = parseInt(line[f].digits, Base(m)),
           NEW vg, vg = parseInt(line[g].digits, Base(m)),
           NEW one \in BOOLEAN, one <=> f = g,
           NEW p, p = Place(when, a)
    PROVE  vf \in Nat /\ vg \in Nat /\ SetTo(new[a], one, vf, vg, size, p, m)
<1>. PICK change : change = LevelChange(line, size, m)
  OBVIOUS
<1>. PICK k \in Nat : k = Len(line)
  BY EnterIsLast
<1>. PICK range : range = change.range
  OBVIOUS
<1>. PICK index : index = ((p - 1) % Len(range)) + 1
  OBVIOUS
<1>1. /\ size \in Nat /\ change \in LevelState
      /\ range # <<>> => p \in 1..size /\ new[a] = NewLevel(old[a], change.sign, range[index], m)
  BY LevelsUpdated
<1>2. PlainChange(line, at, size, m, change)
  BY <1>1, PlainLine
<1>3. /\ at \in Nat /\ k > at + 1 /\ ~IsNumber(line[k])
      /\ \A j \in (at + 1)..k : line[j] \in TokenRecord
  <2>1. at \in Nat /\ k > at + 1 /\ line[k].type = "ENTER"
    BY EnterIsLast
  <2>2. at \in 2..k /\ \A j \in 1..k : line[j] \in TokenRecord
    BY AtOfLine
  <2>. QED
    BY <2>1, <2>2 DEF IsNumber
<1>4. f = at + 1 /\ g = k - 1
  <2>. PICK b : b = at + 1
    OBVIOUS
  <2>. PICK c : c = k - 1
    OBVIOUS
  <2>1. IsNumber(line[b]) /\ IsNumber(line[c]) /\ b \in (at + 1)..k /\ c \in (at + 1)..k
    BY <1>2, <1>3 DEF PlainChange
  <2>2. b \in numbers /\ c \in numbers
    BY <2>1 DEF LevelNumbers
  <2>3. \A j \in numbers : j \in (at + 1)..k /\ j # k
    BY <1>3 DEF LevelNumbers
  <2>. QED
    BY <1>3, <2>2, <2>3
<1>5. \A j \in numbers : line[j] \in TokenRecord
  BY <1>3 DEF LevelNumbers
<1>6. \A j \in numbers : /\ LevelRead(line[j], m) \in Nat
                         /\ LevelRead(line[j], m) = Scale * parseInt(line[j].digits, Base(m))
                         /\ parseInt(line[j].digits, Base(m)) \in Nat
  <2>. SUFFICES ASSUME NEW j \in numbers,
                       NEW parsed, parsed = parseInt(line[j].digits, Base(m))
                PROVE  LevelRead(line[j], m) \in Nat /\ LevelRead(line[j], m) = Scale * parsed
                       /\ parsed \in Nat
    OBVIOUS
  <2>1. Base(m) \in {10, 16}
    BY DEF Base
  <2>2. parsed \in Parsed
    BY <1>5, <2>1, TokenRead
  <2>3. parsed # NaN
    OBVIOUS
  <2>4. LevelRead(line[j], m) = Scale * parsed
    BY <2>3 DEF LevelRead
  <2>5. parsed \in Nat /\ Scale * parsed \in Nat
    BY <2>2, <2>3, ScaleAssumption DEF Parsed
  <2>. QED
    BY <2>4, <2>5
<1>. PICK first \in Nat : first = LevelRead(line[f], m) /\ first = Scale * vf
  BY <1>6
<1>. PICK to \in Nat : to = LevelRead(line[g], m) /\ to = Scale * vg
  BY <1>6
<1>7. range = TypedRange(one, first, to, size)
  BY <1>2, <1>4 DEF PlainChange, TypedRange
<1>8. first # NaN /\ to # NaN /\ first \in Int /\ to \in Int
  BY NaNNegative
<1>9. one \/ size > 1 => range # <<>> /\ RangeEnds(range, one, first, to, size, p)
  <2>. SUFFICES ASSUME one \/ size > 1
                PROVE  range # <<>> /\ RangeEnds(range, one, first, to, size, p)
    OBVIOUS
  <2>1. one => range # <<>>
    BY <1>7 DEF TypedRange
  <2>2. ASSUME size > 1, ~one PROVE range # <<>>
    <3>. PICK r : r = Ramp(first, to, size)
      OBVIOUS
    <3>1. r # <<>>
      BY <1>1, <1>8, <2>2, RampIs DEF IsRamp
    <3>. QED
      BY <1>7, <2>2, <3>1 DEF TypedRange
  <2>3. range # <<>> /\ p \in 1..size
    BY <1>1, <2>1, <2>2
  <2>. QED
    BY <1>1, <1>7, <1>8, <2>3, TypedRangeEnds
<1>10. ASSUME NEW level \in Int, level # NaN, range # <<>>, range[index] = level
       PROVE  new[a] = clamp(convertUserLevelToActualLevel(level, m))
  <2>1. change.sign = "none"
    BY <1>2 DEF PlainChange
  <2>2. new[a] = NewLevel(old[a], "none", level, m)
    BY <1>1, <1>10, <2>1
  <2>. QED
    BY <1>10, <2>2 DEF NewLevel
<1>11. one \/ (size > 1 /\ p = 1) => new[a] = clamp(convertUserLevelToActualLevel(Scale * vf, m))
  <2>. SUFFICES ASSUME one \/ (size > 1 /\ p = 1)
                PROVE  new[a] = clamp(convertUserLevelToActualLevel(first, m))
    OBVIOUS
  <2>1. range # <<>> /\ range[index] = first
    BY <1>9 DEF RangeEnds
  <2>. QED
    BY <1>8, <1>10, <2>1
<1>12. ASSUME size > 1, p = size, ~one
       PROVE  \E e \in Int : /\ new[a] = clamp(convertUserLevelToActualLevel(to + e, m))
                             /\ Strays(e, to - first, size - 1)
  <2>1. range # <<>> /\ Reaches(range[index], first, to, size)
    BY <1>9, <1>12 DEF RangeEnds
  <2>. PICK e \in Int : range[index] = to + e /\ Strays(e, to - first, size - 1)
    BY <2>1 DEF Reaches
  <2>2. to + e \in Int /\ to + e # NaN
    <3>1. size <= DMX_MAX /\ DMX_MAX \in Nat /\ Scale \in Nat /\ Scale >= 6 * DMX_MAX
      BY SelectionFits, CmdLineAssumption, ScaleAssumption
    <3>2. 1 - size <= 2 * e
      BY <1>1 DEF Strays
    <3>. QED
      BY <1>1, <3>1, <3>2, StrayIsNumber
  <2>. QED
    BY <1>10, <2>1, <2>2
<1>13. SetTo(new[a], one, vf, vg, size, p, m)
  BY <1>11, <1>12, Zenon DEF SetTo
<1>. QED
  BY <1>6, <1>13

\* What a command without a sign shows at the first and the last address it
\* sets: off is by how much it misses what was typed.
Off(level, v, m) == LevelShown(level, m) - Scale * (IF v > FullOf(m) THEN FullOf(m) ELSE v)

LEMMA CommandIsShown ==
    ASSUME NEW level, NEW one \in BOOLEAN, NEW vf \in Nat, NEW vg \in Nat,
           NEW size \in Nat, size <= DMX_MAX, NEW p, NEW m \in LevelDisplayMode,
           SetTo(level, one, vf, vg, size, p, m)
    PROVE  /\ one \/ (size > 1 /\ p = 1) => Off(level, vf, m) = 0
           /\ size > 1 /\ p = size /\ ~one =>
                /\ 2 * Off(level, vg, m) \in (1 - size)..(size - 1)
                /\ m = "percent" \/ (vg - vf) % (size - 1) = 0 => Off(level, vg, m) = 0
<1>1. Scale \in Nat \ {0} /\ DMX_MAX \in Nat /\ Scale >= 6 * DMX_MAX
  BY CmdLineAssumption, ScaleAssumption
<1>2. ASSUME one \/ (size > 1 /\ p = 1) PROVE Off(level, vf, m) = 0
  <2>. PICK full : full = IF vf > FullOf(m) THEN FullOf(m) ELSE vf
    OBVIOUS
  <2>1. level = clamp(convertUserLevelToActualLevel(Scale * vf, m))
    BY <1>2 DEF SetTo
  <2>2. LevelShown(level, m) = Scale * full
    <3>1. vf \in Int /\ ~(vf < 0)
      OBVIOUS
    <3>. QED
      BY <2>1, <3>1, ShownAsSet
  <2>3. full \in Int /\ Scale * full - Scale * full = 0
    BY <1>1 DEF FullOf
  <2>. QED
    BY <2>2, <2>3 DEF Off
<1>3. ASSUME size > 1, p = size, ~one
      PROVE  /\ 2 * Off(level, vg, m) \in (1 - size)..(size - 1)
             /\ m = "percent" \/ (vg - vf) % (size - 1) = 0 => Off(level, vg, m) = 0
  <2>. PICK n \in Nat \ {0} : n = size - 1
    BY <1>3
  <2>. PICK e \in Int : /\ level = clamp(convertUserLevelToActualLevel(Scale * vg + e, m))
                        /\ Strays(e, Scale * vg - Scale * vf, n)
    BY <1>3 DEF SetTo
  <2>. PICK full : full = IF vg > FullOf(m) THEN FullOf(m) ELSE vg
    OBVIOUS
  <2>. PICK off : off = Off(level, vg, m)
    OBVIOUS
  <2>1. 2 * e <= n /\ -n <= 2 * e
    BY DEF Strays
  <2>2. IsShownNear(LevelShown(level, m), full, m, e)
    <3>1. 12 * e < Scale /\ -Scale < 12 * e
      BY <1>1, <2>1
    <3>. QED
      BY <3>1, ShownNear
  <2>3. off = LevelShown(level, m) - Scale * full
    BY DEF Off
  <2>4. off \in Int
    <3>1. LevelShown(level, m) \in Int
      <4>1. Scale * vg + e \in Int
        BY <1>1
      <4>2. level \in LEVEL_MIN..LEVEL_MAX /\ LEVEL_MIN \in Int /\ LEVEL_MAX \in Int
        BY <1>1, <4>1, LevelConversions, ClampType DEF LEVEL_MIN, LEVEL_MAX
      <4>3. level \in Int
        BY <4>2
      <4>. QED
        BY <4>3, LevelConversions
    <3>2. full \in Int /\ Scale * full \in Int
      BY <1>1 DEF FullOf
    <3>. QED
      BY <2>3, <3>1, <3>2
  <2>5. /\ m = "percent" => off = 0
        /\ 0 <= e => 0 <= off /\ off <= e
        /\ e <= 0 => e <= off /\ off <= 0
    BY <2>2, <2>3 DEF IsShownNear
  <2>6. 2 * off \in (1 - size)..(size - 1)
    BY <2>1, <2>4, <2>5
  <2>7. ASSUME (vg - vf) % n = 0 PROVE off = 0
    <3>1. vg - vf \in Int
      OBVIOUS
    <3>. PICK w \in Int : vg - vf = n * w
      BY <2>7, <3>1, WholeQuotient
    <3>2. Scale * vg - Scale * vf = n * (Scale * w) /\ Scale * w \in Int
      <4>1. Scale * (vg - vf) = Scale * vg - Scale * vf
        BY <1>1
      <4>2. Scale * (n * w) = n * (Scale * w) /\ Scale * w \in Int
        BY <1>1
      <4>. QED
        BY <4>1, <4>2
    <3>3. e = 0
      BY <3>2 DEF Strays
    <3>. QED
      BY <2>4, <2>5, <3>3
  <2>. QED
    BY <2>5, <2>6, <2>7
<1>. QED
  BY <1>2, <1>3

\* With a sign there is one number, and one level for every address.
LEMMA SignedLine ==
    ASSUME NEW line, LineOK(line), HasAt(line), IsCommitted(line),
           NEW at, at = AtPosition(line),
           \E i \in (at + 1)..Len(line) : line[i].type \in {"PLUS", "MINUS"},
           NEW numbers, numbers = LevelNumbers(line), NEW j \in numbers, numbers = {j},
           NEW size \in Nat, NEW m, NEW change, change = LevelChange(line, size, m)
    PROVE  /\ line[at + 1].type \in {"PLUS", "MINUS"}
           /\ \A i \in (at + 1)..Len(line) : line[i].type \in {"PLUS", "MINUS"} => i = at + 1
           /\ change.sign = line[at + 1].type
           /\ line[j] \in TokenRecord /\ change.range = <<LevelRead(line[j], m)>>
<1>. USE DEF IsNumber
<1>. PICK s : s = LevelLoop(line, size, m)
  OBVIOUS
<1>. PICK k \in Nat : k = Len(line)
  BY EnterIsLast
<1>1. /\ at \in Nat /\ k > at + 1 /\ line[k].type = "ENTER" /\ line[k - 1].type = "NUMBER"
  BY EnterIsLast
<1>2. /\ s[at] = LevelStart
      /\ \A n \in (at + 1)..k : StepOfLevel(s[n - 1], line[n], size, m, s[n])
      /\ change = s[k]
  BY LevelSteps
<1>3. \A i \in (at + 1)..k :
         /\ line[i].type \in {"NUMBER", "PLUS", "MINUS", "THRU", "ENTER"}
         /\ line[i].type = "NUMBER" => line[i - 1].type \in {"AT", "PLUS", "MINUS", "THRU"}
         /\ line[i].type \in {"PLUS", "MINUS"} => i = at + 1
         /\ line[i].type \in {"THRU", "ENTER"} => line[i - 1].type = "NUMBER"
         /\ line[i - 1].type # "ENTER"
  BY AfterAt
<1>. PICK f \in Nat : f = at + 1
  BY <1>1
<1>. PICK g \in Nat : g = at + 2
  BY <1>1
<1>. PICK h \in Nat : h = at + 3
  BY <1>1
<1>4. f \in (at + 1)..k /\ f - 1 = at /\ line[f].type \in {"PLUS", "MINUS"}
  BY <1>1, <1>3
<1>5. g \in (at + 1)..k /\ g - 1 = f /\ g # at + 1 /\ h - 1 = g /\ h # at + 1
  BY <1>1
<1>6. line[g].type = "NUMBER"
  BY <1>3, <1>4, <1>5
<1>7. k - 1 \in (at + 1)..k
  BY <1>1
<1>8. g \in numbers /\ k - 1 \in numbers
  BY <1>1, <1>5, <1>6, <1>7 DEF LevelNumbers
<1>9. j = g /\ k = h
  <2>1. j = g /\ k - 1 = j
    BY <1>8
  <2>. QED
    BY <1>1, <2>1
<1>10. StepOfLevel(LevelStart, line[f], size, m, s[f])
  BY <1>2, <1>4
<1>11. StepOfLevel(s[f], line[g], size, m, s[g])
  BY <1>2, <1>5
<1>12. StepOfLevel(s[g], line[h], size, m, s[h])
  <2>1. h \in (at + 1)..k
    BY <1>9, <1>1
  <2>. QED
    BY <1>2, <1>5, <2>1
<1>13. s[f].sign = line[f].type /\ s[f].thru = FALSE
  BY <1>4, <1>10 DEF StepOfLevel
<1>14. s[g].sign = line[f].type /\ s[g].range = <<LevelRead(line[g], m)>>
  BY <1>6, <1>11, <1>13 DEF StepOfLevel
<1>15. change = s[g]
  BY <1>1, <1>2, <1>9, <1>12 DEF StepOfLevel
<1>16. line[g] \in TokenRecord
  <2>1. at \in 2..k /\ \A i \in 1..k : line[i] \in TokenRecord
    BY AtOfLine
  <2>. QED
    BY <1>5, <2>1
<1>. QED
  BY <1>3, <1>4, <1>9, <1>14, <1>15, <1>16

\* What is shown of a whole level: a whole number, at most full.
LEMMA WholeIsShown ==
    ASSUME NEW l \in LEVEL_MIN..LEVEL_MAX, IsWhole(l), NEW m \in LevelDisplayMode
    PROVE  \E q \in 0..FullOf(m) : /\ LevelShown(l, m) = Scale * q
                                   /\ convertActualLevelToUserLevel(l, m) = Scale * q
<1>1. Scale \in Nat \ {0} /\ LEVEL_MIN = 0 /\ LEVEL_MAX = 255 * Scale
  BY ScaleAssumption DEF LEVEL_MIN, LEVEL_MAX
<1>. PICK c \in Nat \ {0} : c = Scale
  BY <1>1
<1>. PICK w \in Int : w = l \div c
  BY <1>1
<1>2. l = c * w /\ w \in 0..255
  <2>1. l \in Nat /\ l <= 255 * c /\ l % c = 0
    BY <1>1 DEF IsWhole
  <2>2. l = c * (l \div c) + (l % c) /\ l \div c \in Nat
    BY <2>1
  <2>3. l = c * w /\ w \in Nat
    BY <2>1, <2>2
  <2>4. w <= 255
    <3>. SUFFICES ASSUME w >= 256 PROVE FALSE
      BY <2>3
    <3>1. c * (w - 256) >= 0 /\ c * (w - 256) = c * w - 256 * c
      BY <2>3
    <3>. QED
      BY <2>1, <2>3, <3>1
  <2>. QED
    BY <2>3, <2>4
<1>. PICK q \in Int : q = IF m = "percent" THEN LEVEL_PERCENT_TABLE(w) ELSE w
  BY TableType
<1>3. LevelShown(l, m) = Scale * q
  <2>1. l \div Scale = w
    OBVIOUS
  <2>. QED
    BY <1>2, <2>1 DEF LevelShown
<1>4. q \in 0..FullOf(m)
  <2>1. LEVEL_PERCENT_TABLE(w) \in 0..100
    <3>. PICK r \in Int : r = RoundDiv(w * 100, 255)
      BY RoundDivType
    <3>1. 510 * r <= 200 * w + 255 /\ 200 * w + 255 < 510 * r + 510
      BY DEF RoundDiv
    <3>2. r \in 0..100
      BY <1>2, <3>1
    <3>. QED
      BY <3>2 DEF LEVEL_PERCENT_TABLE
  <2>. QED
    BY <1>2, <2>1 DEF FullOf
<1>5. Scale * q # Unknown
  <2>1. q \in Nat
    BY <1>4
  <2>2. c * q >= 0
    BY <2>1
  <2>. QED
    BY <2>2 DEF Unknown
<1>. QED
  BY <1>3, <1>4, <1>5 DEF convertActualLevelToUserLevel

\* A step from q by v, up or down, in the units of the mode.
LEMMA ShownAfterStep ==
    ASSUME NEW m \in LevelDisplayMode, NEW q \in 0..FullOf(m), NEW v \in Nat,
           NEW up \in BOOLEAN, NEW user, user = IF up THEN Scale * q + Scale * v ELSE Scale * q - Scale * v,
           NEW l, l = clamp(convertUserLevelToActualLevel(user, m))
    PROVE  LevelShown(l, m) =
             IF up THEN IF Scale * q + Scale * v > Scale * FullOf(m) THEN Scale * FullOf(m)
                        ELSE Scale * q + Scale * v
             ELSE IF Scale * q < Scale * v THEN 0 ELSE Scale * q - Scale * v
<1>. PICK f \in Nat : f = FullOf(m)
  BY DEF FullOf
<1>1. \A a, b \in Int : /\ a <= b <=> Scale * a <= Scale * b
                        /\ Scale * a + Scale * b = Scale * (a + b)
                        /\ Scale * a - Scale * b = Scale * (a - b)
                        /\ Scale * a \in Int
  BY WholeOrder, WholeMultiple
<1>2. q \in Int /\ v \in Int /\ f \in Int /\ q + v \in Int /\ q - v \in Int /\ q <= f /\ 0 <= q
  OBVIOUS
<1>3. Scale * 0 = 0
  BY ScaleAssumption
<1>4. CASE up
  <2>1. user = Scale * (q + v)
    BY <1>1, <1>2, <1>4
  <2>2. LevelShown(l, m) = Scale * (IF q + v < 0 THEN 0 ELSE IF q + v > f THEN f ELSE q + v)
    BY <1>2, <2>1, ShownAsSet
  <2>3. q + v > f <=> Scale * q + Scale * v > Scale * f
    <3>1. q + v <= f <=> Scale * (q + v) <= Scale * f
      BY <1>1, <1>2
    <3>2. Scale * (q + v) = Scale * q + Scale * v /\ Scale * (q + v) \in Int /\ Scale * f \in Int
      BY <1>1, <1>2
    <3>. QED
      BY <1>2, <3>1, <3>2
  <2>4. Scale * q + Scale * v = Scale * (q + v) /\ ~(q + v < 0)
    BY <1>1, <1>2
  <2>. QED
    BY <1>4, <2>2, <2>3, <2>4
<1>5. CASE ~up
  <2>1. user = Scale * (q - v)
    BY <1>1, <1>2, <1>5
  <2>2. LevelShown(l, m) = Scale * (IF q - v < 0 THEN 0 ELSE IF q - v > f THEN f ELSE q - v)
    BY <1>2, <2>1, ShownAsSet
  <2>3. q < v <=> Scale * q < Scale * v
    <3>1. v <= q <=> Scale * v <= Scale * q
      BY <1>1, <1>2
    <3>2. Scale * v \in Int /\ Scale * q \in Int
      BY <1>1, <1>2
    <3>. QED
      BY <1>2, <3>1, <3>2
  <2>4. Scale * q - Scale * v = Scale * (q - v)
    BY <1>1, <1>2
  <2>5. ~(q - v > f) /\ (q - v < 0 <=> q < v)
    BY <1>2
  <2>. QED
    BY <1>3, <1>5, <2>2, <2>3, <2>4, <2>5
<1>. QED
  BY <1>4, <1>5

\* What a command with a sign shows at the addresses it sets.
LEMMA CommandSteps ==
    ASSUME NEW line, LineOK(line), HasAt(line), IsCommitted(line),
           HasSign(line, "PLUS") \/ HasSign(line, "MINUS"),
           NEW m \in LevelDisplayMode, NEW old \in [Address -> LEVEL_MIN..LEVEL_MAX],
           NEW new, new = updateLevelsFromCmdLine(line, old, m),
           NEW when, when = Selection(line), NEW a \in Selected(when), IsWhole(old[a]),
           NEW i \in LevelNumbers(line), LevelNumbers(line) = {i},
           NEW v, v = parseInt(line[i].digits, Base(m)), v # NaN,
           NEW shown, shown = LevelShown(old[a], m)
    PROVE  LevelShown(new[a], m) =
             IF HasSign(line, "PLUS")
             THEN IF shown + Scale * v > Scale * FullOf(m) THEN Scale * FullOf(m)
                  ELSE shown + Scale * v
             ELSE IF shown < Scale * v THEN 0 ELSE shown - Scale * v
<1>. PICK at : at = AtPosition(line)
  OBVIOUS
<1>. PICK size : size = Cardinality(Selected(when))
  OBVIOUS
<1>. PICK change : change = LevelChange(line, size, m)
  OBVIOUS
<1>. PICK range : range = change.range
  OBVIOUS
<1>. PICK p : p = Place(when, a)
  OBVIOUS
<1>. PICK index : index = ((p - 1) % Len(range)) + 1
  OBVIOUS
<1>. PICK sign : sign = line[at + 1].type
  OBVIOUS
<1>1. /\ size \in Nat
      /\ range # <<>> => p \in 1..size /\ new[a] = NewLevel(old[a], change.sign, range[index], m)
  BY LevelsUpdated
<1>2. \E j \in (at + 1)..Len(line) : line[j].type \in {"PLUS", "MINUS"}
  BY DEF HasSign
<1>3. /\ sign \in {"PLUS", "MINUS"} /\ change.sign = sign
      /\ \A j \in (at + 1)..Len(line) : line[j].type \in {"PLUS", "MINUS"} => j = at + 1
      /\ line[i] \in TokenRecord /\ range = <<LevelRead(line[i], m)>>
  BY <1>1, <1>2, SignedLine
<1>4. HasSign(line, "PLUS") <=> sign = "PLUS"
  BY <1>2, <1>3 DEF HasSign
<1>5. v \in Nat /\ LevelRead(line[i], m) = Scale * v /\ Scale * v # NaN /\ Scale * v \in Int
  <2>1. Base(m) \in {10, 16}
    BY DEF Base
  <2>2. v \in Parsed
    BY <1>3, <2>1, TokenRead
  <2>3. v \in Nat
    BY <2>2 DEF Parsed
  <2>. QED
    BY <2>3, WholeMultiple, NaNNegative DEF LevelRead
<1>6. range # <<>> /\ range[index] = Scale * v
  <2>1. range = <<Scale * v>> /\ Len(range) = 1 /\ range # <<>> /\ range[1] = Scale * v
    BY <1>3, <1>5
  <2>2. p \in 1..size
    BY <1>1, <2>1
  <2>. PICK n \in Nat : n = p - 1
    BY <1>1, <2>2
  <2>3. n % 1 = 0
    OBVIOUS
  <2>4. index = 1
    BY <2>1, <2>3
  <2>. QED
    BY <2>1, <2>4
<1>7. new[a] = NewLevel(old[a], sign, Scale * v, m)
  BY <1>1, <1>3, <1>6
<1>. PICK l : l = old[a]
  OBVIOUS
<1>8. l \in LEVEL_MIN..LEVEL_MAX
  BY DEF Selected
<1>. PICK q \in 0..FullOf(m) : shown = Scale * q /\ convertActualLevelToUserLevel(l, m) = Scale * q
  BY <1>8, WholeIsShown
<1>. PICK up \in BOOLEAN : up <=> sign = "PLUS"
  OBVIOUS
<1>. PICK user : user = IF up THEN Scale * q + Scale * v ELSE Scale * q - Scale * v
  OBVIOUS
<1>9. new[a] = clamp(convertUserLevelToActualLevel(user, m))
  BY <1>3, <1>5, <1>7 DEF NewLevel
<1>10. LevelShown(new[a], m) =
         IF up THEN IF Scale * q + Scale * v > Scale * FullOf(m) THEN Scale * FullOf(m)
                    ELSE Scale * q + Scale * v
         ELSE IF Scale * q < Scale * v THEN 0 ELSE Scale * q - Scale * v
  BY <1>5, <1>9, ShownAfterStep
<1>. QED
  BY <1>4, <1>10

-----------------------------------------------------------------------------
(* The levels, in every step.                                               *)

LevelsInRange == levels \in [Address -> LEVEL_MIN..LEVEL_MAX]

KeypadInv == LineInv /\ LevelsInRange

\* A line that is committed now and was not before: Enter was pressed.
LEMMA EnterWasPressed ==
    ASSUME LineInv, [Next]_vars, Entered
    PROVE  enter /\ LineOK(cmdLine') /\ HasAt(cmdLine') /\ IsCommitted(cmdLine')
<1>1. LineOK(cmdLine) /\ LineOK(cmdLine') /\ IsCommitted(cmdLine') /\ cmdLine' # cmdLine
  BY StepOfLine DEF LineInv, Entered
<1>2. PhaseOf(cmdLine') = "done"
  BY <1>1 DEF PhaseOf, IsCommitted
<1>3. HasAt(cmdLine')
  <2>1. cmdLine' # <<>> /\ Last(cmdLine').type = "ENTER"
    BY <1>1 DEF IsCommitted
  <2>2. /\ HasAt(cmdLine') <=> HasAt(Front(cmdLine')) \/ Last(cmdLine').type = "AT"
        /\ IF Front(cmdLine') = <<>> THEN IsNumber(Last(cmdLine'))
           ELSE Follows(Last(Front(cmdLine')).type, Last(cmdLine').type, HasAt(Front(cmdLine')))
    BY <1>1, <2>1, OneLess
  <2>. QED
    BY <2>1, <2>2 DEF Follows, IsNumber
<1>4. CASE Press
  <2>1. PICK token \in EnabledTokens(cmdLine) : cmdLine' = updateCmdLine(cmdLine, token)
    BY <1>4 DEF Press
  <2>2. KeyMove(PhaseOf(cmdLine), PhaseOf(cmdLine'))
    BY <1>1, <2>1, KeyPressed
  <2>. QED
    BY <1>2, <2>2 DEF KeyMove
<1>5. CASE backspace
  <2>1. ClearMove(PhaseOf(cmdLine), PhaseOf(cmdLine'))
    BY <1>1, <1>5, KeyTakenBack DEF backspace
  <2>. QED
    BY <1>2, <2>1 DEF ClearMove
<1>6. CASE MoveFader \/ ChooseMode \/ UNCHANGED vars
  BY <1>1, <1>6 DEF MoveFader, ChooseMode, Other, vars
<1>. QED
  BY <1>1, <1>3, <1>4, <1>5, <1>6 DEF Next

LEMMA InitKeypadInv == Init => KeypadInv
<1>1. LEVEL_MIN \in LEVEL_MIN..LEVEL_MAX
  BY ScaleAssumption DEF LEVEL_MIN, LEVEL_MAX
<1>. QED
  BY <1>1, InitLineInv DEF Init, KeypadInv, LevelsInRange

LEMMA NextKeypadInv == KeypadInv /\ [Next]_vars => KeypadInv'
<1>. SUFFICES ASSUME LineInv, LevelsInRange, [Next]_vars PROVE KeypadInv'
  BY DEF KeypadInv
<1>1. LineInv'
  BY NextLineInv
<1>2. LevelsInRange'
  <2>1. CASE enter
    <3>1. cmdLine # <<>> /\ LineOK(cmdLine) /\ cmdLineIsComplete(cmdLine)
      BY <2>1 DEF enter, cmdLineIsComplete, HasAt, LineInv
    <3>. PICK line : line = updateCmdLine(cmdLine, Token("ENTER"))
      OBVIOUS
    <3>2. LineOK(line) /\ IsCommitted(line) /\ cmdLine' = line
      BY <2>1, <3>1, LineCommitted DEF enter, PhaseOf, IsCommitted
    <3>3. cmdLine' # cmdLine
      BY <3>1, <3>2 DEF cmdLineIsComplete, IsNumber, IsCommitted
    <3>4. HasAt(line)
      BY <3>2, <3>3, EnterWasPressed DEF Entered
    <3>5. levels' = updateLevelsFromCmdLine(line, levels, mode)
      BY <2>1, <3>2 DEF enter
    <3>. QED
      BY <3>2, <3>4, <3>5, LevelsUpdated DEF LevelsInRange
  <2>2. CASE MoveFader
    <3>1. PICK a \in Address, l \in FaderLevel : levels' = [levels EXCEPT ![a] = Scale * l]
      BY <2>2 DEF MoveFader
    <3>2. Scale * l \in LEVEL_MIN..LEVEL_MAX
      <4>1. l \in Int /\ 0 <= l /\ l <= 255 /\ 0 \in Int /\ 255 \in Int
        BY KeypadAssumption
      <4>2. Scale * l <= Scale * 255 /\ Scale * l >= 0
        BY <4>1, WholeOrder, WholeMultiple
      <4>. QED
        BY <4>1, <4>2, ScaleAssumption DEF LEVEL_MIN, LEVEL_MAX
    <3>. QED
      BY <3>1, <3>2 DEF LevelsInRange
  <2>3. CASE levels' = levels
    BY <2>3 DEF LevelsInRange
  <2>. QED
    BY <2>1, <2>2, <2>3 DEF Next, Press, backspace, ChooseMode, vars
<1>. QED
  BY <1>1, <1>2 DEF KeypadInv

LEMMA KeypadInvariant == Spec => []KeypadInv
  BY InitKeypadInv, NextKeypadInv, PTL DEF Spec

\* The keypad never sends a level outside what DMX carries, whatever command
\* is committed in whatever mode, and its variables keep their shapes
\* (TransmitLevelsPage.tsx, cmdline.ts).
THEOREM KeypadTypeCorrect == Spec => []TypeOK
<1>1. KeypadInv => TypeOK
  BY DEF KeypadInv, LineInv, LevelsInRange, LineOK, TokenRecord, TypeOK
<1>. QED
  BY <1>1, KeypadInvariant, PTL

\* A command selects exactly the addresses that its last covering clause adds,
\* each at a place of its own, however long the line and whatever the numbers
\* in it (cmdline.ts, the loop over the selection).
THEOREM SelectionIsLastClause == Spec => []LastClauseWins
<1>1. LineInv => LastClauseWins
  BY CompleteLineSelects DEF LineInv
<1>. QED
  BY <1>1, LinesAreSentences, PTL

\* Levels are shown as they were typed, in every mode, at both ends of a ramp:
\* the last for any selection and any numbers, exactly in percent mode or when
\* the steps are whole, and otherwise but for what the steps lost (cmdline.ts,
\* the loop over the levels and the conversions).
THEOREM LevelsAreShownAsTyped == Spec => ShownAsTyped
<1>. DEFINE Plain ==
       LET numbers == LevelNumbers(cmdLine')
           when == Selection(cmdLine')
           size == Cardinality(Selected(when))
           Value(i) == Typed(cmdLine', i)
           Miss(a, i) == Shown(levels'[a]) - Scale * AtMost(Value(i), Full)
           WholeSteps(i, j) == (Value(j) - Value(i)) % (size - 1) = 0
       IN (/\ \A i \in numbers : Value(i) # NaN
           /\ ~HasSign(cmdLine', "PLUS") /\ ~HasSign(cmdLine', "MINUS")) =>
            \A a \in Selected(when), i, j \in numbers :
               (\A k \in numbers : i <= k /\ k <= j) =>
                 /\ i = j => Miss(a, i) = 0
                 /\ size > 1 /\ Place(when, a) = 1 => Miss(a, i) = 0
                 /\ i # j /\ size > 1 /\ Place(when, a) = size =>
                      /\ 2 * Miss(a, j) \in (1 - size)..(size - 1)
                      /\ mode = "percent" \/ WholeSteps(i, j) => Miss(a, j) = 0
<1>1. KeypadInv /\ [Next]_vars => [Entered => Plain]_vars
  <2>. SUFFICES ASSUME KeypadInv, [Next]_vars, Entered PROVE Plain
    OBVIOUS
  <2>1. SUFFICES ASSUME \A k \in LevelNumbers(cmdLine') : Typed(cmdLine', k) # NaN,
                        ~HasSign(cmdLine', "PLUS"), ~HasSign(cmdLine', "MINUS"),
                        NEW a \in Selected(Selection(cmdLine')),
                        NEW i \in LevelNumbers(cmdLine'), NEW j \in LevelNumbers(cmdLine'),
                        \A k \in LevelNumbers(cmdLine') : i <= k /\ k <= j
                 PROVE  LET when == Selection(cmdLine')
                            size == Cardinality(Selected(when))
                            vf == Typed(cmdLine', i)
                            vg == Typed(cmdLine', j)
                            first == Shown(levels'[a]) - Scale * AtMost(vf, Full)
                            last == Shown(levels'[a]) - Scale * AtMost(vg, Full)
                        IN /\ i = j => first = 0
                           /\ size > 1 /\ Place(when, a) = 1 => first = 0
                           /\ i # j /\ size > 1 /\ Place(when, a) = size =>
                                /\ 2 * last \in (1 - size)..(size - 1)
                                /\ mode = "percent" \/ (vg - vf) % (size - 1) = 0 => last = 0
    BY Zenon
  <2>. PICK line : line = cmdLine'
    OBVIOUS
  <2>. PICK new : new = levels'
    OBVIOUS
  <2>. PICK when : when = Selection(line)
    OBVIOUS
  <2>. PICK size : size = Cardinality(Selected(when))
    OBVIOUS
  <2>. PICK numbers : numbers = LevelNumbers(line)
    OBVIOUS
  <2>2. /\ LineOK(line) /\ HasAt(line) /\ IsCommitted(line)
        /\ new = updateLevelsFromCmdLine(line, levels, mode)
        /\ mode \in LevelDisplayMode /\ levels \in [Address -> LEVEL_MIN..LEVEL_MAX]
    BY EnterWasPressed DEF KeypadInv, LineInv, LevelsInRange, enter
  <2>. PICK at : at = AtPosition(line)
    OBVIOUS
  <2>3. \A k \in (at + 1)..Len(line) : line[k].type \notin {"PLUS", "MINUS"}
    BY <2>1 DEF HasSign
  <2>. PICK vf : vf = Typed(line, i)
    OBVIOUS
  <2>. PICK vg : vg = Typed(line, j)
    OBVIOUS
  <2>4. /\ vf = parseInt(line[i].digits, Base(mode)) /\ vg = parseInt(line[j].digits, Base(mode))
        /\ \A k \in numbers : parseInt(line[k].digits, Base(mode)) # NaN
    BY <2>1 DEF Typed
  <2>. PICK one \in BOOLEAN : one <=> i = j
    OBVIOUS
  <2>. PICK p : p = Place(when, a)
    OBVIOUS
  <2>. PICK level : level = new[a]
    OBVIOUS
  <2>5. vf \in Nat /\ vg \in Nat /\ SetTo(level, one, vf, vg, size, p, mode)
    BY <2>1, <2>2, <2>3, <2>4, CommandSets
  <2>6. size \in Nat /\ size <= DMX_MAX
    BY <2>2, LevelsUpdated, SelectionFits
  <2>7. /\ one \/ (size > 1 /\ p = 1) => Off(level, vf, mode) = 0
        /\ size > 1 /\ p = size /\ ~one =>
             /\ 2 * Off(level, vg, mode) \in (1 - size)..(size - 1)
             /\ mode = "percent" \/ (vg - vf) % (size - 1) = 0 => Off(level, vg, mode) = 0
    BY <2>2, <2>5, <2>6, CommandIsShown
  <2>8. \A v : Off(level, v, mode) = Shown(level) - Scale * AtMost(v, Full)
    BY DEF Off, Shown, AtMost, Full, FullOf
  <2>. QED
    BY <2>7, <2>8, Zenon
<1>. QED
  BY <1>1, KeypadInvariant, PTL DEF Spec, ShownAsTyped

\* "at + n" and "at - n" step by what is shown, in every mode: percentages
\* never drift (cmdline.ts, convertActualLevelToUserLevel and back).
THEOREM StepsAreOfWhatIsShown == Spec => StepsByWhatIsShown
<1>. DEFINE Stepped ==
       LET Step(a, n) == LET shown == Shown(levels[a]) IN
                         IF HasSign(cmdLine', "PLUS")
                         THEN AtMost(shown + Scale * n, Scale * Full)
                         ELSE IF shown < Scale * n THEN 0 ELSE shown - Scale * n
       IN (HasSign(cmdLine', "PLUS") \/ HasSign(cmdLine', "MINUS")) =>
            \A a \in Selected(Selection(cmdLine')), i \in LevelNumbers(cmdLine') :
               (/\ LevelNumbers(cmdLine') = {i} /\ Typed(cmdLine', i) # NaN
                /\ IsWhole(levels[a])) =>
                  Shown(levels'[a]) = Step(a, Typed(cmdLine', i))
<1>1. KeypadInv /\ [Next]_vars => [Entered => Stepped]_vars
  <2>. SUFFICES ASSUME KeypadInv, [Next]_vars, Entered PROVE Stepped
    OBVIOUS
  <2>1. SUFFICES ASSUME HasSign(cmdLine', "PLUS") \/ HasSign(cmdLine', "MINUS"),
                        NEW a \in Selected(Selection(cmdLine')), NEW i \in LevelNumbers(cmdLine'),
                        LevelNumbers(cmdLine') = {i}, Typed(cmdLine', i) # NaN,
                        IsWhole(levels[a])
                 PROVE  LET shown == Shown(levels[a]) IN
                        Shown(levels'[a]) =
                          IF HasSign(cmdLine', "PLUS")
                          THEN AtMost(shown + Scale * Typed(cmdLine', i), Scale * Full)
                          ELSE IF shown < Scale * Typed(cmdLine', i) THEN 0
                               ELSE shown - Scale * Typed(cmdLine', i)
    BY Zenon
  <2>. PICK line : line = cmdLine'
    OBVIOUS
  <2>. PICK new : new = levels'
    OBVIOUS
  <2>. PICK when : when = Selection(line)
    OBVIOUS
  <2>2. /\ LineOK(line) /\ HasAt(line) /\ IsCommitted(line)
        /\ new = updateLevelsFromCmdLine(line, levels, mode)
        /\ mode \in LevelDisplayMode /\ levels \in [Address -> LEVEL_MIN..LEVEL_MAX]
    BY EnterWasPressed DEF KeypadInv, LineInv, LevelsInRange, enter
  <2>. PICK shown : shown = Shown(levels[a])
    OBVIOUS
  <2>. PICK v : v = Typed(line, i)
    OBVIOUS
  <2>3. /\ v = parseInt(line[i].digits, Base(mode)) /\ v # NaN
        /\ shown = LevelShown(levels[a], mode)
    BY <2>1 DEF Typed, Shown
  <2>4. LevelShown(new[a], mode) =
           IF HasSign(line, "PLUS")
           THEN IF shown + Scale * v > Scale * FullOf(mode) THEN Scale * FullOf(mode)
                ELSE shown + Scale * v
           ELSE IF shown < Scale * v THEN 0 ELSE shown - Scale * v
    BY <2>1, <2>2, <2>3, CommandSteps
  <2>. QED
    BY <2>4 DEF Shown, AtMost, Full, FullOf
<1>. QED
  BY <1>1, KeypadInvariant, PTL DEF Spec, StepsByWhatIsShown

-----------------------------------------------------------------------------
\* The keypad implements the grammar: levels change only with a fader or when
\* a whole command is committed, once for each Enter, and stay levels.
THEOREM GrammarIsImplemented == Spec => ImplementsGrammar
<1>1. Init /\ KeypadInv => Grammar!Init
  BY DEF Init, PhaseOf, KeypadInv, LevelsInRange, Grammar!Init
<1>2. KeypadInv /\ KeypadInv' /\ [Next]_vars => [Grammar!Next]_(Grammar!vars)
  <2>. SUFFICES ASSUME LineInv, LevelsInRange', [Next]_vars PROVE Grammar!Next
    BY DEF KeypadInv
  <2>1. levels' \in [Address -> LEVEL_MIN..LEVEL_MAX]
    BY DEF LevelsInRange
  <2>2. \/ KeyMove(PhaseOf(cmdLine), PhaseOf(cmdLine')) /\ levels' = levels
        \/ ClearMove(PhaseOf(cmdLine), PhaseOf(cmdLine')) /\ levels' = levels
        \/ PhaseOf(cmdLine) = "level" /\ PhaseOf(cmdLine') = "done"
        \/ PhaseOf(cmdLine') = PhaseOf(cmdLine)
    BY StepOfLine
  <2>. QED
    BY <2>1, <2>2 DEF KeyMove, ClearMove, Grammar!Next, Grammar!PressNumber, Grammar!Operator,
                Grammar!At, Grammar!Enter, Grammar!Clear, Grammar!Fader, Grammar!Go
<1>. QED
  BY <1>1, <1>2, KeypadInvariant, PTL DEF Spec, ImplementsGrammar, Grammar!Spec
=============================================================================
