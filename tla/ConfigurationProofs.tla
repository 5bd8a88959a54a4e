------------------------- MODULE ConfigurationProofs -------------------------
(***************************************************************************)
(* Proofs about what configurations are taken for: merging and encrypting  *)
(* them (SharedConfig), listeners with their TLS settings (Listeners), and *)
(* lists of strings as the sets they stand for (StrUtil), for lists of any *)
(* length.                                                                 *)
(***************************************************************************)
EXTENDS MCDecisions, ListLemmas

-----------------------------------------------------------------------------
(* MCDecisions: a result is what the call of the subject gives for its     *)
(* arguments, which are some of the module's inputs.                       *)
Answered ==
  /\ subject = "config" => args \in Config!Inputs /\ result \in {<< >>, <<Config!Call(args)>>}
  /\ subject = "listeners" =>
       args \in Listener!Inputs /\ result \in {<< >>, <<Listener!Call(args)>>}
  /\ subject = "lists" => args \in Str!Inputs /\ result \in {<< >>, <<Str!Call(args)>>}

LEMMA AnswersInit == MCInit => Answered
<1> SUFFICES ASSUME MCInit PROVE Answered
  OBVIOUS
<1>1. subject = "config" => Config!Init
  BY DEF MCInit, InitCall
<1>2. subject = "listeners" => Listener!Init
  BY DEF MCInit, InitCall
<1>3. subject = "lists" => Str!Init
  BY DEF MCInit, InitCall
<1> QED BY <1>1, <1>2, <1>3
        DEF Answered, Config!Init, Config!Pending, Listener!Init, Listener!Pending,
            Str!Init, Str!Pending

LEMMA AnswersStep == Answered /\ [MCNext]_allVars => Answered'
<1> SUFFICES ASSUME Answered, [MCNext]_allVars PROVE Answered'
  OBVIOUS
<1>1. subject' = subject
  BY DEF MCNext, NextCall, allVars
<1>2. CASE subject = "config"
  <2>1. Config!Return \/ UNCHANGED <<args, result>>
    BY <1>2 DEF MCNext, NextCall, allVars, callVars, Config!Next
  <2>2. args' = args /\ (result' = result \/ result' = <<Config!Call(args)>>)
    BY <2>1 DEF Config!Return
  <2> QED BY <1>1, <1>2, <2>2 DEF Answered
<1>3. CASE subject = "listeners"
  <2>1. Listener!Return \/ UNCHANGED <<args, result>>
    BY <1>3 DEF MCNext, NextCall, allVars, callVars, Listener!Next
  <2>2. args' = args /\ (result' = result \/ result' = <<Listener!Call(args)>>)
    BY <2>1 DEF Listener!Return
  <2> QED BY <1>1, <1>3, <2>2 DEF Answered
<1>4. CASE subject = "lists"
  <2>1. Str!Return \/ UNCHANGED <<args, result>>
    BY <1>4 DEF MCNext, NextCall, allVars, callVars, Str!Next
  <2>2. args' = args /\ (result' = result \/ result' = <<Str!Call(args)>>)
    BY <2>1 DEF Str!Return
  <2> QED BY <1>1, <1>4, <2>2 DEF Answered
<1>5. CASE subject \notin {"config", "listeners", "lists"}
  BY <1>1, <1>5 DEF Answered
<1> QED BY <1>2, <1>3, <1>4, <1>5

LEMMA Answers == MCSpec => []Answered
BY AnswersInit, AnswersStep, PTL DEF MCSpec

-----------------------------------------------------------------------------
(* SharedConfig: a line of a file with a part of it in the middle.         *)
LEMMA Middle ==
  ASSUME NEW U, NEW pre \in Seq(U), NEW mid \in Seq(U), NEW post \in Seq(U),
         NEW out, out = pre \o mid \o post
  PROVE  /\ out \in Seq(U) /\ Len(out) = Len(pre) + Len(mid) + Len(post)
         /\ \A i \in 1..Len(pre) : out[i] = pre[i]
         /\ \A i \in 1..Len(mid) : out[Len(pre) + i] = mid[i]
         /\ \A i \in 1..Len(post) : out[Len(pre) + Len(mid) + i] = post[i]
OBVIOUS

LEMMA Marked ==
  ASSUME NEW U, NEW x \in U, NEW y \in U, NEW value \in Seq(U),
         NEW mid, mid = <<x>> \o value \o <<y>>
  PROVE  /\ mid \in Seq(U) /\ Len(mid) = Len(value) + 2
         /\ mid[1] = x /\ mid[Len(value) + 2] = y
         /\ \A i \in 1..Len(value) : mid[1 + i] = value[i]
OBVIOUS

LEMMA Cut ==
  ASSUME NEW U, NEW pre \in Seq(U), NEW mid \in Seq(U), NEW post \in Seq(U),
         NEW out, out = pre \o mid \o post
  PROVE  /\ SubSeq(out, 1, Len(pre)) = pre
         /\ SubSeq(out, Len(pre) + Len(mid) + 1, Len(out)) = post
OBVIOUS

LEMMA CutOne ==
  ASSUME NEW U, NEW line \in Seq(U), NEW i \in 1..Len(line)
  PROVE  SubSeq(line, i, i) = <<line[i]>>
<1> DEFINE cut == SubSeq(line, i, i)
<1>1. i \in Int /\ line[i] \in U
  OBVIOUS
<1>2. cut \in Seq(U) /\ Len(cut) = 1 /\ cut[1] = line[i]
  BY <1>1
<1> HIDE DEF cut
<1>3. ASSUME NEW x \in Seq(U), Len(x) = 1 PROVE x = <<x[1]>>
  BY <1>3
<1>4. cut = <<line[i]>>
  BY <1>2, <1>3
<1> QED BY <1>4 DEF cut

(* A line is a file without a newline in it.  Its only match begins at the *)
(* first opening marker and ends at the last closing one.                  *)
Greedy(line, decrypt, m) ==
  /\ m = <<m[1], m[2]>>
  /\ m[1] \in 1..Len(line) /\ m[2] \in 1..Len(line) /\ m[1] < m[2]
  /\ line[m[1]] = Config!Opening(decrypt) /\ line[m[2]] = Config!Close
  /\ \A i \in 1..m[1] - 1 : line[i] # Config!Opening(decrypt)
  /\ \A i \in m[2] + 1..Len(line) : line[i] # Config!Close

LEMMA MatchIsGreedy ==
  ASSUME NEW U, Config!Newline \notin U, NEW line \in Seq(U), NEW decrypt \in BOOLEAN,
         Config!Marked(line, decrypt) # {}
  PROVE  \E m : Config!Matches(line, decrypt) = {m} /\ Greedy(line, decrypt, m)
<1> DEFINE all == Config!Marked(line, decrypt)
           opened == {i \in 1..Len(line) : \E n \in all : n[1] = i}
           closed == {i \in 0..Len(line) : \E n \in all : n[2] = Len(line) - i}
<1>1. \A n \in all : /\ n = <<n[1], n[2]>> /\ n[1] \in 1..Len(line) /\ n[2] \in 1..Len(line)
                     /\ n[1] < n[2] /\ line[n[1]] = Config!Opening(decrypt)
                     /\ line[n[2]] = Config!Close
  BY DEF Config!Marked
<1>2. \A i, j \in 1..Len(line) :
        i < j /\ line[i] = Config!Opening(decrypt) /\ line[j] = Config!Close => <<i, j>> \in all
  BY DEF Config!Marked
<1>3. all # {} /\ Len(line) \in Nat
  OBVIOUS
<1> HIDE DEF all
<1>4. opened # {} /\ opened \subseteq Nat
  BY <1>1, <1>3
<1>5. PICK a \in opened : \A i \in opened : a <= i
  BY <1>4, Smallest
<1>6. closed # {} /\ closed \subseteq Nat
  <2>1. PICK n \in all : TRUE
    BY <1>3
  <2>2. Len(line) - n[2] \in 0..Len(line) /\ Len(line) - (Len(line) - n[2]) = n[2]
    BY <1>1, <1>3, <2>1
  <2>3. Len(line) - n[2] \in closed
    BY <2>1, <2>2
  <2> QED BY <1>3, <2>3
<1>7. PICK c \in closed : \A i \in closed : c <= i
  BY <1>6, Smallest
<1> DEFINE b == Len(line) - c
<1>8. \A n \in all : a <= n[1] /\ n[2] <= b
  <2> SUFFICES ASSUME NEW n \in all PROVE a <= n[1] /\ n[2] <= b
    OBVIOUS
  <2>1. n[1] \in opened
    BY <1>1
  <2>2. Len(line) - n[2] \in 0..Len(line) /\ Len(line) - (Len(line) - n[2]) = n[2]
    BY <1>1, <1>3
  <2>3. Len(line) - n[2] \in closed
    BY <2>2
  <2>4. a <= n[1] /\ c <= Len(line) - n[2]
    BY <1>5, <1>7, <2>1, <2>3
  <2>5. c \in Nat /\ n[2] \in Nat
    BY <1>1, <1>6, <1>7
  <2> QED BY <1>3, <2>4, <2>5
<1>9. PICK n \in all, k \in all : n[1] = a /\ k[2] = b
  BY <1>5, <1>7
<1>10. <<a, b>> \in all
  <2>1. a <= k[1] /\ k[1] < b /\ a \in 1..Len(line) /\ b \in 1..Len(line)
    BY <1>1, <1>8, <1>9
  <2>2. a < b
    BY <1>1, <1>9, <2>1
  <2> QED BY <1>1, <1>2, <1>9, <2>1, <2>2
<1> DEFINE m == <<a, b>>
<1>11. m[1] = a /\ m[2] = b
  OBVIOUS
<1> HIDE DEF b, opened, closed, m
<1>12. m \in all /\ \A i \in all : m[1] <= i[1] /\ i[2] <= m[2]
  BY <1>8, <1>10, <1>11 DEF m
<1>13. ASSUME NEW i \in 1..m[1] - 1 PROVE line[i] # Config!Opening(decrypt)
  <2>1. i \in 1..Len(line) /\ i < m[1] /\ i < m[2] /\ ~ (m[1] <= i)
    BY <1>1, <1>12
  <2>2. <<i, m[2]>> \notin all
    BY <1>12, <2>1
  <2> QED BY <1>1, <1>2, <1>12, <2>1, <2>2
<1>14. ASSUME NEW i \in m[2] + 1..Len(line) PROVE line[i] # Config!Close
  <2>1. i \in 1..Len(line) /\ m[1] < i /\ ~ (i <= m[2])
    BY <1>1, <1>12
  <2>2. <<m[1], i>> \notin all
    BY <1>12, <2>1
  <2> QED BY <1>1, <1>2, <1>12, <2>1, <2>2
<1>15. Greedy(line, decrypt, m)
  BY <1>1, <1>12, <1>13, <1>14 DEF Greedy
<1>16. Config!Matches(line, decrypt) = {x \in all : \A o \in all : Config!Inside(x, o) => o = x}
  BY DEF Config!Matches, all
<1>17. \A o \in all : Config!Inside(o, m)
  BY <1>12 DEF Config!Inside
<1>18. ASSUME NEW o \in all, Config!Inside(m, o) PROVE o = m
  <2>1. o[1] = m[1] /\ o[2] = m[2]
    BY <1>1, <1>12, <1>18 DEF Config!Inside
  <2> QED BY <1>1, <1>12, <2>1
<1>19. Config!Matches(line, decrypt) = {m}
  BY <1>12, <1>16, <1>17, <1>18
<1> QED BY <1>15, <1>19

LEMMA ConfigLists ==
  /\ \A R, m : Config!SeqOf(R, m) = SeqOf(R, m)
  /\ \A s : Config!FlattenSeq(s) = FlattenSeq(s) /\ Config!ToSet(s) = ToSet(s)
BY DEF Config!SeqOf, SeqOf, Config!FlattenSeq, FlattenSeq, Config!ToSet, ToSet

(* What the wrapper makes of a value, and the other way around.            *)
LEMMA WrapperInverts ==
  ASSUME NEW value, Len(<<Config!Cipher(value)>>) = 1
  PROVE  /\ Config!Transformed(value, FALSE, "works") = Config!Ok(<<Config!Cipher(value)>>)
         /\ Config!Transformed(<<Config!Cipher(value)>>, TRUE, "works") = Config!Ok(value)
BY DEF Config!Transformed, Config!Cipher, Config!Ok

(* The tokens, and what a value is encrypted to, are told apart.           *)
LEMMA TokensDiffer ==
  /\ Config!Encrypt # Config!Decrypt /\ Config!Encrypt # Config!Close
  /\ Config!Decrypt # Config!Close
  /\ Config!Newline \notin {Config!Encrypt, Config!Decrypt, Config!Close}
  /\ \A value : /\ Config!Cipher(value) # Config!Encrypt /\ Config!Cipher(value) # Config!Decrypt
                /\ Config!Cipher(value) # Config!Close /\ Config!Cipher(value) # Config!Newline
<1>1. ASSUME NEW value
      PROVE  /\ Config!Cipher(value).token = "cipher"
             /\ Config!Encrypt.token = "{{encrypt(" /\ Config!Decrypt.token = "{{decrypt("
             /\ Config!Close.token = ")}}" /\ Config!Newline.token = "newline"
  BY DEF Config!Cipher, Config!Encrypt, Config!Decrypt, Config!Close, Config!Newline
<1>2. "cipher" \notin {"{{encrypt(", "{{decrypt(", ")}}", "newline"}
  OBVIOUS
<1>3. /\ "{{encrypt(" # "{{decrypt(" /\ "{{encrypt(" # ")}}" /\ "{{decrypt(" # ")}}"
      /\ "newline" \notin {"{{encrypt(", "{{decrypt(", ")}}"}
  OBVIOUS
<1>4. ASSUME NEW value
      PROVE  /\ Config!Cipher(value) # Config!Encrypt /\ Config!Cipher(value) # Config!Decrypt
             /\ Config!Cipher(value) # Config!Close /\ Config!Cipher(value) # Config!Newline
  BY <1>1, <1>2, Zenon
<1> QED BY <1>1, <1>3, <1>4, Zenon

(* The parts of a line around its value, and what takes the value's place. *)
Around(line, value, left, right) ==
  SubSeq(line, 1, left - 1) \o value \o SubSeq(line, right + 1, Len(line))

LEMMA OneItem == ASSUME NEW S, NEW x \in Seq(S), Len(x) = 1 PROVE x = <<x[1]>>
OBVIOUS

LEMMA FirstOfOne == ASSUME NEW x, NEW s \in Seq({x}), Len(s) = 1 PROVE s[1] = x
OBVIOUS

LEMMA NumberedAsCoded ==
  ASSUME NEW code, NEW m, code = [x \in {m} |-> x[1]], m[1] \in Int PROVE Coded({m}, code)
<1>1. IsFiniteSet({m})
  BY FS_Singleton
<1>2. \A x \in {m} : code[x] = m[1]
  OBVIOUS
<1> QED BY <1>1, <1>2 DEF Coded

(* The matches of a line, in a list.                                       *)
LEMMA NothingFound ==
  ASSUME NEW line, NEW decrypt, Config!Matches(line, decrypt) = {}
  PROVE  Config!FindAllIndex(line, decrypt) = << >>
<1>1. Config!Cardinality({}) = 0
  BY FS_EmptySet DEF Config!Cardinality, Cardinality
<1>2. 1..0 = {}
  OBVIOUS
<1> QED BY <1>1, <1>2 DEF Config!FindAllIndex, Config!SortedBy

LEMMA OneFound ==
  ASSUME NEW line, NEW decrypt, NEW m, Config!Matches(line, decrypt) = {m}, m[1] \in Int
  PROVE  Config!FindAllIndex(line, decrypt) = <<m>>
<1> DEFINE code == [x \in {m} |-> x[1]]
           found == SortedBy({m}, code)
<1>1. Config!FindAllIndex(line, decrypt) = found
  BY DEF Config!FindAllIndex, Config!SortedBy, SortedBy, Config!Cardinality, Cardinality
<1>2. Coded({m}, code)
  BY NumberedAsCoded
<1>3. found \in Seq({m}) /\ Len(found) = Cardinality({m}) /\ Cardinality({m}) = 1
  <2> HIDE DEF code
  <2> QED BY <1>2, SortedIs, FS_Singleton
<1> HIDE DEF found, code
<1>4. found[1] = m
  <2>1. found \in Seq({m}) /\ Len(found) = 1
    BY <1>3
  <2> QED BY <2>1, FirstOfOne
<1>5. found = <<m>>
  BY <1>3, <1>4, OneItem
<1> QED BY <1>1, <1>5

Final(given, locs, decrypt) ==
  [k \in DOMAIN locs |->
     Config!Transformed(SubSeq(given, locs[k][1] + 1, locs[k][2] - 1), decrypt, "works")]

(* What stands in for a value.                                             *)
InPlace(value, decrypt, strip) ==
  IF strip THEN value ELSE <<Config!Opening(~ decrypt)>> \o value \o <<Config!Close>>

Pieces(given, locs, final, decrypt, strip) ==
  [k \in DOMAIN locs |->
     SubSeq(given, Config!prevMaxLoc(locs, k) + 1, locs[k][1] - 1)
       \o InPlace(final[k].val, decrypt, strip)]

LEMMA Unfolded ==
  ASSUME NEW given, NEW decrypt, NEW strip,
         NEW locs, locs = Config!FindAllIndex(given, decrypt),
         NEW final, final = Final(given, locs, decrypt)
  PROVE  Config!EncryptDecrypt(given, decrypt, strip, "works")
           = IF \E k \in DOMAIN locs : final[k].err THEN Config!Error
             ELSE Config!Ok(FlattenSeq(Pieces(given, locs, final, decrypt, strip))
                              \o SubSeq(given, Config!prevMaxLoc(locs, Len(locs) + 1) + 1, Len(given)))
BY ConfigLists, Zenon DEF Config!EncryptDecrypt, Final, Pieces, InPlace

LEMMA NothingMatches ==
  ASSUME NEW U, NEW line \in Seq(U), NEW decrypt, NEW strip, Config!Matches(line, decrypt) = {}
  PROVE  Config!EncryptDecrypt(line, decrypt, strip, "works") = Config!Ok(line)
<1> DEFINE final == Final(line, << >>, decrypt)
           pieces == Pieces(line, << >>, final, decrypt, strip)
           rest == SubSeq(line, Config!prevMaxLoc(<< >>, 0 + 1) + 1, Len(line))
<1>1. << >> = Config!FindAllIndex(line, decrypt)
  BY NothingFound
<1>2. DOMAIN << >> = {} /\ Len(<< >>) = 0
  OBVIOUS
<1>3. pieces = << >>
  BY <1>2 DEF Pieces
<1>4. FlattenSeq(pieces) = << >>
  BY <1>3 DEF FlattenSeq
<1>5. rest = line
  BY DEF Config!prevMaxLoc
<1>6. Config!EncryptDecrypt(line, decrypt, strip, "works") = Config!Ok(FlattenSeq(pieces) \o rest)
  BY <1>1, <1>2, Unfolded
<1>7. << >> \o line = line
  OBVIOUS
<1> HIDE DEF pieces, rest
<1> QED BY <1>4, <1>5, <1>6, <1>7

(* The only match of a line is m, and the wrapper makes value of it.       *)
OnlyMatch(U, line, decrypt, m) ==
  /\ line \in Seq(U) /\ Config!Matches(line, decrypt) = {m}
  /\ m[1] \in 1..Len(line) /\ m[2] \in 1..Len(line)

Makes(line, decrypt, m, value) ==
  Config!Transformed(SubSeq(line, m[1] + 1, m[2] - 1), decrypt, "works") = Config!Ok(value)

Replaced(line, decrypt, strip, m, value) ==
  Config!EncryptDecrypt(line, decrypt, strip, "works")
    = Config!Ok(Around(line, InPlace(value, decrypt, strip), m[1], m[2]))

LEMMA OneReplaced ==
  ASSUME NEW U, NEW line, NEW decrypt, NEW strip, NEW m, OnlyMatch(U, line, decrypt, m),
         NEW value, Makes(line, decrypt, m, value), InPlace(value, decrypt, strip) \in Seq(U)
  PROVE  Replaced(line, decrypt, strip, m, value)
<1> DEFINE locs == <<m>>
           final == Final(line, locs, decrypt)
           pieces == Pieces(line, locs, final, decrypt, strip)
           piece == SubSeq(line, 1, m[1] - 1) \o InPlace(value, decrypt, strip)
           rest == SubSeq(line, Config!prevMaxLoc(locs, Len(locs) + 1) + 1, Len(line))
<1>0. /\ line \in Seq(U) /\ Config!Matches(line, decrypt) = {m}
      /\ m[1] \in 1..Len(line) /\ m[2] \in 1..Len(line)
      /\ Config!Transformed(SubSeq(line, m[1] + 1, m[2] - 1), decrypt, "works") = Config!Ok(value)
  BY DEF OnlyMatch, Makes
<1>1. locs = Config!FindAllIndex(line, decrypt)
  BY <1>0, OneFound
<1>2. DOMAIN locs = {1} /\ Len(locs) = 1 /\ locs[1] = m
  OBVIOUS
<1>3. Config!Ok(value).val = value /\ Config!Ok(value).err = FALSE
  BY DEF Config!Ok
<1>4. final[1].val = value /\ final[1].err = FALSE
  BY <1>0, <1>2, <1>3 DEF Final
<1>5. Config!prevMaxLoc(locs, 1) = 0 /\ Config!prevMaxLoc(locs, 2) = m[2]
  BY DEF Config!prevMaxLoc
<1>6. Config!EncryptDecrypt(line, decrypt, strip, "works")
        = IF \E k \in DOMAIN locs : final[k].err THEN Config!Error
          ELSE Config!Ok(FlattenSeq(pieces) \o rest)
  BY <1>1, Unfolded
<1> HIDE DEF locs, final
<1>7. rest = SubSeq(line, m[2] + 1, Len(line))
  <2>1. Len(locs) + 1 = 2
    BY <1>2
  <2> QED BY <1>5, <2>1
<1>8. pieces = <<piece>>
  <2>1. pieces = [k \in {1} |-> pieces[k]]
    BY <1>2 DEF Pieces
  <2>2. pieces[1] = SubSeq(line, Config!prevMaxLoc(locs, 1) + 1, locs[1][1] - 1)
                      \o InPlace(final[1].val, decrypt, strip)
    BY <1>2 DEF Pieces
  <2>3. Config!prevMaxLoc(locs, 1) + 1 = 1
    BY <1>5
  <2>4. pieces[1] = piece
    BY <1>2, <1>4, <2>2, <2>3
  <2> HIDE DEF pieces, piece
  <2>5. Len(<<piece>>) = 1 /\ <<piece>> = [k \in {1} |-> piece]
    OBVIOUS
  <2> QED BY <2>1, <2>4, <2>5
<1>9. piece \in Seq(U)
  <2>1. SubSeq(line, 1, m[1] - 1) \in Seq(U)
    BY <1>0
  <2> QED BY <2>1
<1>10. FlattenSeq(pieces) = piece
  <2> HIDE DEF pieces, piece
  <2> QED BY <1>8, <1>9, FlattenOne
<1> HIDE DEF pieces
<1>11. Config!EncryptDecrypt(line, decrypt, strip, "works") = Config!Ok(piece \o rest)
  BY <1>2, <1>4, <1>6, <1>10
<1> QED BY <1>7, <1>11 DEF Around, Replaced

Fails(line, decrypt, m) ==
  /\ Config!Matches(line, decrypt) = {m} /\ m[1] \in Int
  /\ Config!Transformed(SubSeq(line, m[1] + 1, m[2] - 1), decrypt, "works") = Config!Error

LEMMA OneRefused ==
  ASSUME NEW line, NEW decrypt, NEW strip, NEW m, Fails(line, decrypt, m)
  PROVE  Config!EncryptDecrypt(line, decrypt, strip, "works") = Config!Error
<1> DEFINE locs == <<m>>
           final == Final(line, locs, decrypt)
           pieces == Pieces(line, locs, final, decrypt, strip)
           rest == SubSeq(line, Config!prevMaxLoc(locs, Len(locs) + 1) + 1, Len(line))
<1>1. locs = Config!FindAllIndex(line, decrypt)
  BY OneFound DEF Fails
<1>2. DOMAIN locs = {1} /\ locs[1] = m
  OBVIOUS
<1>3. final[1].err
  BY <1>2 DEF Fails, Final, Config!Error
<1>4. Config!EncryptDecrypt(line, decrypt, strip, "works")
        = IF \E k \in DOMAIN locs : final[k].err THEN Config!Error
          ELSE Config!Ok(FlattenSeq(pieces) \o rest)
  BY <1>1, Unfolded
<1> HIDE DEF locs, final, pieces, rest
<1> QED BY <1>2, <1>3, <1>4

Hidden(value) == <<Config!Cipher(value)>>
Marking(value) == <<Config!Decrypt>> \o <<Config!Cipher(value)>> \o <<Config!Close>>

LEMMA Replacements ==
  ASSUME NEW U, NEW x \in U, NEW y \in U, NEW z \in U
  PROVE  /\ <<y>> \in Seq(U) /\ Len(<<y>>) = 1 /\ <<y>>[1] = y
         /\ <<x>> \o <<y>> \o <<z>> \in Seq(U) /\ Len(<<x>> \o <<y>> \o <<z>>) = 3
         /\ (<<x>> \o <<y>> \o <<z>>)[1] = x /\ (<<x>> \o <<y>> \o <<z>>)[2] = y
         /\ (<<x>> \o <<y>> \o <<z>>)[3] = z
OBVIOUS

(* What stands at m gives way to the cipher of value.                      *)
Encrypted(line, m, value) ==
  /\ Config!EncryptDecrypt(line, FALSE, TRUE, "works")
       = Config!Ok(Around(line, Hidden(value), m[1], m[2]))
  /\ Config!EncryptDecrypt(line, FALSE, FALSE, "works")
       = Config!Ok(Around(line, Marking(value), m[1], m[2]))

LEMMA MatchEncrypted ==
  ASSUME NEW U, NEW line, Config!Decrypt \in U, Config!Close \in U,
         NEW m, OnlyMatch(U, line, FALSE, m),
         NEW value, value = SubSeq(line, m[1] + 1, m[2] - 1), Config!Cipher(value) \in U
  PROVE  Encrypted(line, m, value)
<1> DEFINE cipher == <<Config!Cipher(value)>>
<1>1. Makes(line, FALSE, m, cipher)
  <2>1. Len(cipher) = 1
    OBVIOUS
  <2> QED BY <2>1, WrapperInverts DEF Makes
<1>2. /\ Hidden(value) = InPlace(cipher, FALSE, TRUE)
      /\ Marking(value) = InPlace(cipher, FALSE, FALSE)
  BY DEF Hidden, Marking, InPlace, Config!Opening
<1>3. InPlace(cipher, FALSE, TRUE) \in Seq(U) /\ InPlace(cipher, FALSE, FALSE) \in Seq(U)
  <2>1. Hidden(value) \in Seq(U) /\ Marking(value) \in Seq(U)
    BY Replacements DEF Hidden, Marking
  <2> HIDE DEF cipher
  <2> QED BY <1>2, <2>1
<1> HIDE DEF cipher
<1>4. Replaced(line, FALSE, TRUE, m, cipher)
  BY <1>1, <1>3, OneReplaced
<1>5. Replaced(line, FALSE, FALSE, m, cipher)
  BY <1>1, <1>3, OneReplaced
<1> QED BY <1>2, <1>4, <1>5 DEF Replaced, Encrypted

(* A line in its parts: before a marker at a, between it and one at b, and *)
(* behind.                                                                 *)
Parts(U, line, a, b, pre, value, post) ==
  /\ pre \in Seq(U) /\ value \in Seq(U) /\ post \in Seq(U)
  /\ pre = SubSeq(line, 1, a - 1) /\ value = SubSeq(line, a + 1, b - 1)
  /\ post = SubSeq(line, b + 1, Len(line))
  /\ \A i \in 1..Len(pre) : i \in 1..a - 1 /\ i \in 1..Len(line) /\ pre[i] = line[i]
  /\ \A i \in 1..Len(post) : /\ b + i \in b + 1..Len(line) /\ b + i \in 1..Len(line)
                            /\ post[i] = line[b + i]
  /\ line = pre \o (<<line[a]>> \o value \o <<line[b]>>) \o post

LEMMA LineParts ==
  ASSUME NEW U, NEW line \in Seq(U), NEW a \in 1..Len(line), NEW b \in 1..Len(line), a < b
  PROVE  \E pre, value, post : Parts(U, line, a, b, pre, value, post)
<1> DEFINE pre == SubSeq(line, 1, a - 1)
           value == SubSeq(line, a + 1, b - 1)
           post == SubSeq(line, b + 1, Len(line))
           mid == <<line[a]>> \o value \o <<line[b]>>
           whole == pre \o mid \o post
<1>1. Len(line) \in Nat /\ \A i \in 1..Len(line) : line[i] \in U
  OBVIOUS
<1>2. pre \in Seq(U) /\ Len(pre) = a - 1 /\ \A i \in 1..Len(pre) : pre[i] = line[i]
  BY <1>1
<1>3. value \in Seq(U) /\ Len(value) = (b - a) - 1 /\ \A i \in 1..Len(value) : value[i] = line[a + i]
  BY <1>1
<1>4. post \in Seq(U) /\ Len(post) = Len(line) - b /\ \A i \in 1..Len(post) : post[i] = line[b + i]
  BY <1>1
<1>5. line[a] \in U /\ line[b] \in U
  BY <1>1
<1>p. /\ pre = SubSeq(line, 1, a - 1) /\ value = SubSeq(line, a + 1, b - 1)
      /\ post = SubSeq(line, b + 1, Len(line))
  OBVIOUS
<1> HIDE DEF pre, value, post
<1>6. /\ mid \in Seq(U) /\ Len(mid) = (b - a) + 1 /\ mid[1] = line[a] /\ mid[(b - a) + 1] = line[b]
      /\ \A i \in 1..Len(value) : mid[1 + i] = value[i]
  <2>1. mid = <<line[a]>> \o value \o <<line[b]>>
    OBVIOUS
  <2>2. value \in Seq(U)
    BY <1>3
  <2> HIDE DEF mid
  <2>3. /\ mid \in Seq(U) /\ Len(mid) = Len(value) + 2
        /\ mid[1] = line[a] /\ mid[Len(value) + 2] = line[b]
        /\ \A i \in 1..Len(value) : mid[1 + i] = value[i]
    BY <1>5, <2>1, <2>2, Marked
  <2>4. Len(value) + 2 = (b - a) + 1
    BY <1>3
  <2> QED BY <2>3, <2>4
<1>7. ASSUME NEW i \in 1..(b - a) + 1 PROVE mid[i] = line[(a - 1) + i]
  <2>1. CASE i = 1
    BY <1>6, <2>1
  <2>2. CASE i = (b - a) + 1
    BY <1>6, <2>2
  <2>3. CASE i # 1 /\ i # (b - a) + 1
    <3>1. i - 1 \in 1..Len(value) /\ 1 + (i - 1) = i /\ a + (i - 1) = (a - 1) + i
      BY <1>3, <2>3
    <3> QED BY <1>3, <1>6, <3>1
  <2> QED BY <2>1, <2>2, <2>3
<1> HIDE DEF mid
<1>8. /\ whole \in Seq(U) /\ Len(whole) = Len(line)
      /\ \A i \in 1..Len(pre) : whole[i] = pre[i]
      /\ \A i \in 1..Len(mid) : whole[Len(pre) + i] = mid[i]
      /\ \A i \in 1..Len(post) : whole[Len(pre) + Len(mid) + i] = post[i]
  <2>1. /\ whole \in Seq(U) /\ Len(whole) = Len(pre) + Len(mid) + Len(post)
        /\ \A i \in 1..Len(pre) : whole[i] = pre[i]
        /\ \A i \in 1..Len(mid) : whole[Len(pre) + i] = mid[i]
        /\ \A i \in 1..Len(post) : whole[Len(pre) + Len(mid) + i] = post[i]
    <3>1. pre \in Seq(U) /\ mid \in Seq(U) /\ post \in Seq(U) /\ whole = pre \o mid \o post
      BY <1>2, <1>4, <1>6
    <3> HIDE DEF whole
    <3> QED BY <3>1, Middle
  <2>2. Len(pre) + Len(mid) + Len(post) = Len(line)
    BY <1>1, <1>2, <1>4, <1>6
  <2> HIDE DEF whole
  <2> QED BY <2>1, <2>2
<1> HIDE DEF whole
<1>9. ASSUME NEW i \in 1..Len(line) PROVE whole[i] = line[i]
  <2>1. CASE i < a
    <3>1. i \in 1..Len(pre)
      BY <1>2, <2>1
    <3> QED BY <1>2, <1>8, <3>1
  <2>2. CASE a <= i /\ i <= b
    <3> DEFINE j == i - (a - 1)
    <3>1. j \in 1..Len(mid) /\ j \in 1..(b - a) + 1 /\ Len(pre) + j = i /\ (a - 1) + j = i
      BY <1>2, <1>6, <2>2
    <3> HIDE DEF j
    <3>2. mid[j] = line[(a - 1) + j]
      BY <1>7, <3>1
    <3>3. whole[Len(pre) + j] = mid[j]
      BY <1>8, <3>1
    <3> QED BY <3>1, <3>2, <3>3
  <2>3. CASE b < i
    <3> DEFINE j == i - b
    <3>1. j \in 1..Len(post) /\ Len(pre) + Len(mid) + j = i /\ b + j = i
      BY <1>1, <1>2, <1>4, <1>6, <2>3
    <3> HIDE DEF j
    <3> QED BY <1>4, <1>8, <3>1
  <2> QED BY <2>1, <2>2, <2>3
<1>10. whole = line
  BY <1>8, <1>9
<1>11. \A i \in 1..Len(pre) : i \in 1..a - 1 /\ i \in 1..Len(line)
  BY <1>1, <1>2
<1>12. \A i \in 1..Len(post) : b + i \in b + 1..Len(line) /\ b + i \in 1..Len(line)
  BY <1>1, <1>4
<1>13. line = pre \o (<<line[a]>> \o value \o <<line[b]>>) \o post
  BY <1>10 DEF mid, whole
<1>14. pre \in Seq(U) /\ value \in Seq(U) /\ post \in Seq(U)
  BY <1>2, <1>3, <1>4
<1>15. \A i \in 1..Len(pre) : i \in 1..a - 1 /\ i \in 1..Len(line) /\ pre[i] = line[i]
  BY <1>2, <1>11
<1>16. \A i \in 1..Len(post) : /\ b + i \in b + 1..Len(line) /\ b + i \in 1..Len(line)
                              /\ post[i] = line[b + i]
  BY <1>4, <1>12
<1>17. Parts(U, line, a, b, pre, value, post)
  BY <1>p, <1>13, <1>14, <1>15, <1>16 DEF Parts
<1> QED BY <1>17

(* What stands in for a value is not taken for the beginning of another.   *)
LEMMA NothingLeftToEncrypt ==
  ASSUME NEW U, NEW line \in Seq(U), NEW pre \in Seq(U), NEW mid \in Seq(U), NEW post \in Seq(U),
         line = pre \o mid \o post,
         \A i \in 1..Len(pre) : pre[i] # Config!Encrypt,
         \A i \in 1..Len(mid) : mid[i] # Config!Encrypt,
         \A i \in 1..Len(post) : post[i] # Config!Close
  PROVE  Config!Matches(line, FALSE) = {}
<1>1. /\ Len(line) = Len(pre) + Len(mid) + Len(post)
      /\ Len(pre) \in Nat /\ Len(mid) \in Nat /\ Len(post) \in Nat
      /\ \A i \in 1..Len(pre) : line[i] = pre[i]
      /\ \A i \in 1..Len(mid) : line[Len(pre) + i] = mid[i]
      /\ \A i \in 1..Len(post) : line[Len(pre) + Len(mid) + i] = post[i]
  BY Middle
<1>2. ASSUME NEW i \in 1..Len(line), i <= Len(pre) + Len(mid) PROVE line[i] # Config!Encrypt
  <2>1. CASE i <= Len(pre)
    BY <1>1, <2>1
  <2>2. CASE Len(pre) < i
    <3>1. i - Len(pre) \in 1..Len(mid) /\ Len(pre) + (i - Len(pre)) = i
      BY <1>1, <1>2, <2>2
    <3> QED BY <1>1, <3>1
  <2> QED BY <1>1, <2>1, <2>2
<1>3. ASSUME NEW i \in 1..Len(line), Len(pre) + Len(mid) < i PROVE line[i] # Config!Close
  <2> DEFINE j == i - (Len(pre) + Len(mid))
  <2>1. j \in 1..Len(post) /\ Len(pre) + Len(mid) + j = i
    BY <1>1, <1>3
  <2> HIDE DEF j
  <2> QED BY <1>1, <2>1
<1>4. ASSUME NEW n \in Config!Matches(line, FALSE) PROVE FALSE
  <2>1. /\ n[1] \in 1..Len(line) /\ n[2] \in 1..Len(line) /\ n[1] < n[2]
        /\ line[n[1]] = Config!Encrypt /\ line[n[2]] = Config!Close
    BY DEF Config!Matches, Config!Marked, Config!Opening
  <2>2. ~ (n[1] <= Len(pre) + Len(mid))
    BY <1>2, <2>1
  <2>3. Len(pre) + Len(mid) < n[2]
    BY <1>1, <2>1, <2>2
  <2> QED BY <1>3, <2>1, <2>3
<1> QED BY <1>4

(* A cipher between the markers for decrypting, where the line's only      *)
(* match ends; it begins there too if there is no such marker before.      *)
CipherAt(U, line, pre, post, value, m) ==
  /\ line \in Seq(U) /\ Len(line) = Len(pre) + 3 + Len(post)
  /\ \A i \in 1..Len(pre) : line[i] = pre[i]
  /\ line[Len(pre) + 2] = Config!Cipher(value)
  /\ SubSeq(line, 1, Len(pre)) = pre /\ SubSeq(line, Len(pre) + 4, Len(line)) = post
  /\ Config!Matches(line, TRUE) = {m} /\ Greedy(line, TRUE, m)
  /\ m[1] <= Len(pre) + 1 /\ m[2] = Len(pre) + 3

LEMMA CipherMatches ==
  ASSUME NEW U, Config!Newline \notin U, NEW pre \in Seq(U), NEW post \in Seq(U), NEW value,
         Config!Cipher(value) \in U, Config!Decrypt \in U, Config!Close \in U,
         \A i \in 1..Len(post) : post[i] # Config!Close,
         NEW line, line = pre \o Marking(value) \o post
  PROVE  \E m : CipherAt(U, line, pre, post, value, m)
<1> DEFINE cipher == Config!Cipher(value)
           mid == Marking(value)
           a == Len(pre) + 1
<1>1. /\ mid \in Seq(U) /\ Len(mid) = 3 /\ mid[1] = Config!Decrypt /\ mid[2] = cipher
      /\ mid[3] = Config!Close
  BY DEF Marking
<1> HIDE DEF cipher, mid
<1>2. /\ line \in Seq(U) /\ Len(line) = Len(pre) + Len(mid) + Len(post)
      /\ \A i \in 1..Len(pre) : line[i] = pre[i]
      /\ \A i \in 1..Len(mid) : line[Len(pre) + i] = mid[i]
      /\ \A i \in 1..Len(post) : line[Len(pre) + Len(mid) + i] = post[i]
  <2>1. pre \in Seq(U) /\ mid \in Seq(U) /\ post \in Seq(U) /\ line = pre \o mid \o post
    BY <1>1 DEF mid
  <2> QED BY <2>1, Middle
<1>3. /\ SubSeq(line, 1, Len(pre)) = pre
      /\ SubSeq(line, Len(pre) + Len(mid) + 1, Len(line)) = post
  <2>1. pre \in Seq(U) /\ mid \in Seq(U) /\ post \in Seq(U) /\ line = pre \o mid \o post
    BY <1>1 DEF mid
  <2> QED BY <2>1, Cut
<1>4. Len(pre) \in Nat /\ Len(post) \in Nat
  OBVIOUS
<1>5. /\ Len(line) = Len(pre) + 3 + Len(post)
      /\ line[a] = Config!Decrypt /\ line[a + 1] = cipher /\ line[a + 2] = Config!Close
  BY <1>1, <1>2, <1>4
<1>6. ASSUME NEW i \in 1..Len(line), a + 2 < i PROVE line[i] # Config!Close
  <2>1. i - (a + 2) \in 1..Len(post) /\ Len(pre) + Len(mid) + (i - (a + 2)) = i
    BY <1>1, <1>4, <1>5, <1>6
  <2>2. line[i] = post[i - (a + 2)]
    BY <1>2, <2>1
  <2> QED BY <2>1, <2>2
<1>7. <<a, a + 2>> \in Config!Marked(line, TRUE)
  <2>1. a \in 1..Len(line) /\ a + 2 \in 1..Len(line) /\ a < a + 2
    BY <1>4, <1>5
  <2>2. \A i \in a..a + 2 : line[i] # Config!Newline
    BY <1>2, <1>4, <1>5
  <2> QED BY <1>2, <1>5, <2>1, <2>2 DEF Config!Marked, Config!Opening
<1>8. PICK m : Config!Matches(line, TRUE) = {m} /\ Greedy(line, TRUE, m)
  <2>1. Config!Marked(line, TRUE) # {}
    BY <1>7
  <2> QED BY <1>2, <2>1, MatchIsGreedy
<1>9. m[1] <= a
  <2>1. a \in 1..Len(line) /\ line[a] = Config!Decrypt
    BY <1>4, <1>5
  <2>2. m[1] \in 1..Len(line) /\ \A i \in 1..m[1] - 1 : line[i] # Config!Decrypt
    BY <1>8 DEF Greedy, Config!Opening
  <2> HIDE DEF a
  <2>3. ~ (a \in 1..m[1] - 1)
    BY <2>1, <2>2
  <2> QED BY <2>1, <2>2, <2>3
<1>10. m[2] = a + 2
  <2>1. /\ m[2] \in 1..Len(line) /\ line[m[2]] = Config!Close
        /\ \A i \in m[2] + 1..Len(line) : line[i] # Config!Close
    BY <1>8 DEF Greedy
  <2>2. ~ (a + 2 < m[2])
    BY <1>6, <2>1
  <2>3. a + 2 \in 1..Len(line) /\ line[a + 2] = Config!Close /\ a \in Nat
    BY <1>4, <1>5
  <2> HIDE DEF a
  <2>4. ~ (a + 2 \in m[2] + 1..Len(line))
    BY <2>1, <2>3
  <2> QED BY <2>1, <2>2, <2>3, <2>4
<1>11. Len(pre) + Len(mid) + 1 = Len(pre) + 4 /\ a + 1 = Len(pre) + 2 /\ a + 2 = Len(pre) + 3
  BY <1>1, <1>4
<1>12. line[Len(pre) + 2] = Config!Cipher(value)
  BY <1>5, <1>11 DEF cipher
<1>13. SubSeq(line, Len(pre) + 4, Len(line)) = post
  BY <1>3, <1>11
<1>14. CipherAt(U, line, pre, post, value, m)
  BY <1>2, <1>3, <1>5, <1>8, <1>9, <1>10, <1>11, <1>12, <1>13 DEF CipherAt
<1> QED BY <1>14

(* It is what is decrypted.                                                *)
LEMMA DecryptsTheCipher ==
  ASSUME NEW U, Config!Newline \notin U, NEW pre \in Seq(U), NEW post \in Seq(U),
         NEW value \in Seq(U),
         Config!Cipher(value) \in U, Config!Encrypt \in U, Config!Decrypt \in U, Config!Close \in U,
         \A i \in 1..Len(pre) : pre[i] # Config!Decrypt,
         \A i \in 1..Len(post) : post[i] # Config!Close
  PROVE  Config!EncryptDecrypt(pre \o Marking(value) \o post, TRUE, FALSE, "works")
           = Config!Ok(pre \o (<<Config!Encrypt>> \o value \o <<Config!Close>>) \o post)
<1> DEFINE line == pre \o Marking(value) \o post
           shown == <<Config!Encrypt>> \o value \o <<Config!Close>>
<1>0. line = pre \o Marking(value) \o post
  OBVIOUS
<1>s. shown \in Seq(U) /\ shown = InPlace(value, TRUE, FALSE)
  BY DEF InPlace, Config!Opening
<1> HIDE DEF line
<1>p. PICK m : CipherAt(U, line, pre, post, value, m)
  BY <1>0, CipherMatches, Zenon
<1>1. /\ Config!Matches(line, TRUE) = {m} /\ Greedy(line, TRUE, m)
      /\ m[1] <= Len(pre) + 1 /\ m[2] = Len(pre) + 3
  BY <1>p DEF CipherAt
<1>2. /\ line \in Seq(U) /\ Len(line) = Len(pre) + 3 + Len(post)
      /\ \A i \in 1..Len(pre) : line[i] = pre[i]
      /\ line[Len(pre) + 2] = Config!Cipher(value)
      /\ SubSeq(line, 1, Len(pre)) = pre /\ SubSeq(line, Len(pre) + 4, Len(line)) = post
  BY <1>p DEF CipherAt
<1>3. Len(pre) \in Nat /\ Len(post) \in Nat
  OBVIOUS
<1>4. m[1] \in 1..Len(line) /\ m[2] \in 1..Len(line) /\ line[m[1]] = Config!Decrypt
  BY <1>1 DEF Greedy, Config!Opening
<1>5. m[1] = Len(pre) + 1
  <2>1. ~ (m[1] \in 1..Len(pre))
    BY <1>2, <1>4
  <2> QED BY <1>1, <1>3, <1>4, <2>1
<1>6. SubSeq(line, m[1] + 1, m[2] - 1) = <<Config!Cipher(value)>>
  <2>1. /\ Len(pre) + 2 \in 1..Len(line)
        /\ m[1] + 1 = Len(pre) + 2 /\ m[2] - 1 = Len(pre) + 2
    BY <1>1, <1>2, <1>3, <1>5
  <2>2. SubSeq(line, Len(pre) + 2, Len(pre) + 2) = <<line[Len(pre) + 2]>>
    BY <1>2, <2>1, CutOne
  <2> QED BY <1>2, <2>1, <2>2
<1>7. Makes(line, TRUE, m, value)
  <2>1. Len(<<Config!Cipher(value)>>) = 1
    OBVIOUS
  <2> QED BY <1>6, <2>1, WrapperInverts DEF Makes
<1>o. OnlyMatch(U, line, TRUE, m)
  BY <1>1, <1>2, <1>4 DEF OnlyMatch
<1> HIDE DEF shown
<1>t. InPlace(value, TRUE, FALSE) \in Seq(U)
  BY <1>s
<1>8. Replaced(line, TRUE, FALSE, m, value)
  BY <1>7, <1>o, <1>t, OneReplaced
<1>9. SubSeq(line, 1, m[1] - 1) = pre /\ SubSeq(line, m[2] + 1, Len(line)) = post
  <2>1. m[1] - 1 = Len(pre) /\ m[2] + 1 = Len(pre) + 4
    BY <1>1, <1>3, <1>5
  <2> QED BY <1>2, <2>1
<1>10. Config!EncryptDecrypt(line, TRUE, FALSE, "works") = Config!Ok(pre \o shown \o post)
  BY <1>8, <1>9, <1>s DEF Around, Replaced
<1> QED BY <1>10 DEF line, shown

LEMMA NoCipher ==
  ASSUME NEW v, Len(v) # 1 PROVE Config!Transformed(v, TRUE, "works") = Config!Error
BY DEF Config!Transformed

(* With a marker for decrypting before, the value is taken to be longer    *)
(* and the line is refused.                                                *)
LEMMA RefusesMore ==
  ASSUME NEW U, Config!Newline \notin U, NEW pre \in Seq(U), NEW post \in Seq(U), NEW value,
         Config!Cipher(value) \in U, Config!Decrypt \in U, Config!Close \in U,
         NEW i \in 1..Len(pre), pre[i] = Config!Decrypt,
         \A j \in 1..Len(post) : post[j] # Config!Close
  PROVE  Config!EncryptDecrypt(pre \o Marking(value) \o post, TRUE, FALSE, "works") = Config!Error
<1> DEFINE line == pre \o Marking(value) \o post
<1>0. line = pre \o Marking(value) \o post
  OBVIOUS
<1> HIDE DEF line
<1>p. PICK m : CipherAt(U, line, pre, post, value, m)
  BY <1>0, CipherMatches, Zenon
<1>1. /\ Config!Matches(line, TRUE) = {m} /\ Greedy(line, TRUE, m)
      /\ m[1] <= Len(pre) + 1 /\ m[2] = Len(pre) + 3
  BY <1>p DEF CipherAt
<1>2. /\ line \in Seq(U) /\ Len(line) = Len(pre) + 3 + Len(post)
      /\ \A j \in 1..Len(pre) : line[j] = pre[j]
  BY <1>p DEF CipherAt
<1>3. Len(pre) \in Nat /\ Len(post) \in Nat /\ i \in 1..Len(line)
  BY <1>2
<1>4. m[1] \in 1..Len(line) /\ \A j \in 1..m[1] - 1 : line[j] # Config!Decrypt
  BY <1>1 DEF Greedy, Config!Opening
<1>5. m[1] <= i
  BY <1>2, <1>3, <1>4
<1> DEFINE taken == SubSeq(line, m[1] + 1, m[2] - 1)
<1>6. Len(taken) = (m[2] - 1) - m[1]
  <2>1. m[1] + 1 \in 1..Len(line) + 1 /\ m[2] - 1 \in 1..Len(line) /\ m[1] + 1 <= m[2]
    BY <1>1, <1>2, <1>3, <1>4, <1>5
  <2>2. \A a \in 1..Len(line) + 1, b \in 1..Len(line) :
          a <= b + 1 => Len(SubSeq(line, a, b)) = (b - a) + 1
    BY <1>2
  <2>3. Len(taken) = ((m[2] - 1) - (m[1] + 1)) + 1
    <3>1. m[1] + 1 <= (m[2] - 1) + 1
      BY <1>1, <1>3, <2>1
    <3> QED BY <2>1, <2>2, <3>1
  <2>4. m[1] \in Int /\ m[2] \in Int
    BY <1>1, <1>3, <1>4
  <2> HIDE DEF taken
  <2> QED BY <2>3, <2>4
<1> HIDE DEF taken
<1>7. Len(taken) # 1
  BY <1>1, <1>3, <1>4, <1>5, <1>6
<1>8. Config!Transformed(taken, TRUE, "works") = Config!Error
  BY <1>7, NoCipher
<1>9. Fails(line, TRUE, m)
  <2>1. m[1] \in Int
    BY <1>2, <1>3, <1>4
  <2>2. Config!Transformed(SubSeq(line, m[1] + 1, m[2] - 1), TRUE, "works") = Config!Error
    BY <1>8, Zenon DEF taken
  <2> QED BY <1>1, <2>1, <2>2, Zenon DEF Fails
<1> QED BY <1>0, <1>9, OneRefused

LEMMA ReplacementSound ==
  ASSUME NEW U, NEW value, Config!Cipher(value) \in U, Config!Decrypt \in U, Config!Close \in U
  PROVE  \A mid \in {Hidden(value), Marking(value)} :
           mid \in Seq(U) /\ \A i \in 1..Len(mid) : mid[i] # Config!Encrypt
<1> DEFINE one == Hidden(value)
           three == Marking(value)
<1>1. /\ one \in Seq(U) /\ Len(one) = 1 /\ one[1] = Config!Cipher(value)
      /\ three \in Seq(U) /\ Len(three) = 3 /\ three[1] = Config!Decrypt
      /\ three[2] = Config!Cipher(value) /\ three[3] = Config!Close
  BY Replacements DEF Hidden, Marking
<1> HIDE DEF one, three
<1>3. \A i \in 1..1 : one[i] # Config!Encrypt
  BY <1>1, TokensDiffer
<1>4. \A i \in 1..3 : three[i] # Config!Encrypt
  <2>1. \A i \in 1..3 : i = 1 \/ i = 2 \/ i = 3
    OBVIOUS
  <2> QED BY <1>1, <2>1, TokensDiffer
<1>5. \A mid \in {one, three} : mid \in Seq(U) /\ \A i \in 1..Len(mid) : mid[i] # Config!Encrypt
  BY <1>1, <1>3, <1>4
<1> QED BY <1>5 DEF one, three

(* A line in its parts and what it is encrypted to.                        *)
LEMMA PartsEncrypted ==
  ASSUME NEW U, NEW pre \in Seq(U), NEW value \in Seq(U), NEW post \in Seq(U),
         Config!Cipher(value) \in U, Config!Decrypt \in U, Config!Close \in U,
         \A i \in 1..Len(pre) : pre[i] # Config!Encrypt,
         \A i \in 1..Len(post) : post[i] # Config!Close
  PROVE  \A mid \in {Hidden(value), Marking(value)} : Config!Matches(pre \o mid \o post, FALSE) = {}
<1> SUFFICES ASSUME NEW mid \in {Hidden(value), Marking(value)}
             PROVE  Config!Matches(pre \o mid \o post, FALSE) = {}
  OBVIOUS
<1>1. mid \in Seq(U) /\ \A i \in 1..Len(mid) : mid[i] # Config!Encrypt
  BY ReplacementSound
<1> DEFINE line == pre \o mid \o post
<1>2. line \in Seq(U) /\ line = pre \o mid \o post
  BY <1>1
<1> HIDE DEF line
<1>3. Config!Matches(line, FALSE) = {}
  BY <1>1, <1>2, NothingLeftToEncrypt
<1> QED BY <1>2, <1>3

(* A line is encrypted to its parts around what was marked.                *)
EncryptedAs(line, pre, value, post) ==
  /\ line = pre \o (<<Config!Encrypt>> \o value \o <<Config!Close>>) \o post
  /\ Config!EncryptDecrypt(line, FALSE, TRUE, "works") = Config!Ok(pre \o Hidden(value) \o post)
  /\ Config!EncryptDecrypt(line, FALSE, FALSE, "works") = Config!Ok(pre \o Marking(value) \o post)

OccursIn(line, x) == \E i \in 1..Len(line) : line[i] = x

(* Tokens without a newline, with the ciphers of all that V is made of.    *)
Alphabet(V) ==
  V \cup {Config!Encrypt, Config!Decrypt, Config!Close} \cup {Config!Cipher(value) : value \in Seq(V)}

LEMMA SeqWithin ==
  ASSUME NEW V, NEW U, V \subseteq U, NEW s \in Seq(V)
  PROVE  s \in Seq(U)
OBVIOUS

LEMMA LineEncrypted ==
  ASSUME NEW V, Config!Newline \notin V, NEW line \in Seq(V), Config!Marked(line, FALSE) # {}
  PROVE  \E pre, value, post :
           /\ pre \in Seq(V) /\ value \in Seq(V) /\ post \in Seq(V)
           /\ EncryptedAs(line, pre, value, post)
           /\ \A i \in 1..Len(pre) : pre[i] # Config!Encrypt
           /\ \A i \in 1..Len(post) : post[i] # Config!Close
           /\ OccursIn(pre, Config!Decrypt) => Config!DecryptOutside(line)
<1>1. PICK m : Config!Matches(line, FALSE) = {m} /\ Greedy(line, FALSE, m)
  BY MatchIsGreedy
<1> DEFINE a == m[1]
           b == m[2]
           U == Alphabet(V)
<1>2. /\ a \in 1..Len(line) /\ b \in 1..Len(line) /\ a < b
      /\ line[a] = Config!Encrypt /\ line[b] = Config!Close
      /\ \A i \in 1..a - 1 : line[i] # Config!Encrypt
      /\ \A i \in b + 1..Len(line) : line[i] # Config!Close
  BY <1>1 DEF Greedy, Config!Opening
<1>x. a \in 1..Len(line) /\ b \in 1..Len(line) /\ a < b
  BY <1>2
<1>3. PICK pre, value, post : Parts(V, line, a, b, pre, value, post)
  BY <1>x, LineParts
<1>4. /\ pre \in Seq(V) /\ value \in Seq(V) /\ post \in Seq(V)
      /\ pre = SubSeq(line, 1, a - 1) /\ value = SubSeq(line, a + 1, b - 1)
      /\ post = SubSeq(line, b + 1, Len(line))
  BY <1>3 DEF Parts
<1>5. line = pre \o (<<line[a]>> \o value \o <<line[b]>>) \o post
  BY <1>3 DEF Parts
<1>6. line = pre \o (<<Config!Encrypt>> \o value \o <<Config!Close>>) \o post
  BY <1>2, <1>5
<1>7. /\ line \in Seq(U) /\ Config!Decrypt \in U /\ Config!Close \in U /\ Config!Cipher(value) \in U
  <2>1. /\ V \subseteq U /\ Config!Decrypt \in U /\ Config!Close \in U /\ Config!Cipher(value) \in U
    BY <1>4 DEF Alphabet
  <2> HIDE DEF U
  <2> QED BY <2>1, SeqWithin
<1>8. /\ Config!EncryptDecrypt(line, FALSE, TRUE, "works") = Config!Ok(pre \o Hidden(value) \o post)
      /\ Config!EncryptDecrypt(line, FALSE, FALSE, "works") = Config!Ok(pre \o Marking(value) \o post)
  <2>1. OnlyMatch(U, line, FALSE, m)
    BY <1>1, <1>7, <1>x DEF OnlyMatch
  <2>2. Config!Decrypt \in U /\ Config!Close \in U /\ Config!Cipher(value) \in U
    BY <1>7
  <2>3. /\ value = SubSeq(line, m[1] + 1, m[2] - 1)
        /\ pre = SubSeq(line, 1, m[1] - 1) /\ post = SubSeq(line, m[2] + 1, Len(line))
    BY <1>4
  <2> HIDE DEF U
  <2>4. Encrypted(line, m, value)
    BY <2>1, <2>2, <2>3, MatchEncrypted
  <2> QED BY <2>3, <2>4 DEF Encrypted, Around
<1>9. EncryptedAs(line, pre, value, post)
  BY <1>6, <1>8 DEF EncryptedAs
<1>10. \A i \in 1..Len(pre) : i \in 1..a - 1 /\ i \in 1..Len(line) /\ pre[i] = line[i]
  BY <1>3 DEF Parts
<1>11. \A i \in 1..Len(post) : b + i \in b + 1..Len(line) /\ post[i] = line[b + i]
  BY <1>3 DEF Parts
<1>12. \A i \in 1..Len(pre) : pre[i] # Config!Encrypt
  BY <1>2, <1>10, Zenon
<1>13. \A i \in 1..Len(post) : post[i] # Config!Close
  BY <1>2, <1>11, Zenon
<1>14. ASSUME OccursIn(pre, Config!Decrypt) PROVE Config!DecryptOutside(line)
  <2>1. PICK i \in 1..Len(pre) : pre[i] = Config!Decrypt
    BY <1>14 DEF OccursIn
  <2>2. i \in 1..a - 1 /\ i \in DOMAIN line /\ line[i] = Config!Decrypt
    BY <1>10, <2>1
  <2>3. i \notin m[1]..m[2]
    BY <1>x, <2>2
  <2> QED BY <1>1, <2>2, <2>3 DEF Config!DecryptOutside
<1> QED BY <1>4, <1>9, <1>12, <1>13, <1>14, Zenon

LEMMA NoneMarked ==
  ASSUME NEW line, NEW decrypt, Config!Marked(line, decrypt) = {}
  PROVE  Config!Matches(line, decrypt) = {}
BY DEF Config!Matches

(* A line without anything to encrypt.                                     *)
LEMMA LineLeft ==
  ASSUME NEW V, NEW line \in Seq(V), Config!Marked(line, FALSE) = {}
  PROVE  /\ \A strip \in BOOLEAN :
              Config!EncryptDecrypt(line, FALSE, strip, "works") = Config!Ok(line)
         /\ ~ Config!DecryptOutside(line) =>
              Config!EncryptDecrypt(line, TRUE, FALSE, "works") = Config!Ok(line)
<1>1. Config!Matches(line, FALSE) = {}
  BY NoneMarked
<1>2. ASSUME ~ Config!DecryptOutside(line) PROVE Config!Matches(line, TRUE) = {}
  <2>1. \A i \in DOMAIN line : line[i] # Config!Decrypt
    BY <1>1, <1>2 DEF Config!DecryptOutside
  <2>2. Config!Marked(line, TRUE) = {}
    BY <2>1 DEF Config!Marked, Config!Opening
  <2> QED BY <2>2, NoneMarked
<1> QED BY <1>1, <1>2, NothingMatches

(* EncryptDecrypt: a line of any length and of any tokens encrypts, with   *)
(* nothing of it left to encrypt; and decrypts to what it was, or, if it   *)
(* has decrypt markers of its own next to the value, is refused, but never *)
(* decrypts to anything else.                                              *)
THEOREM LinesRoundTrip ==
  ASSUME NEW V, Config!Newline \notin V, NEW line \in Seq(V)
  PROVE  \E stripped, marked :
           /\ Config!EncryptDecrypt(line, FALSE, TRUE, "works") = Config!Ok(stripped)
           /\ Config!EncryptDecrypt(line, FALSE, FALSE, "works") = Config!Ok(marked)
           /\ Config!Matches(stripped, FALSE) = {} /\ Config!Matches(marked, FALSE) = {}
           /\ ~ Config!DecryptOutside(line) =>
                Config!EncryptDecrypt(marked, TRUE, FALSE, "works") = Config!Ok(line)
           /\ Config!Matches(line, FALSE) # {} =>
                Config!EncryptDecrypt(marked, TRUE, FALSE, "works") \in {Config!Ok(line), Config!Error}
<1>1. CASE Config!Marked(line, FALSE) = {}
  <2>1. Config!Matches(line, FALSE) = {}
    BY <1>1, NoneMarked
  <2>2. /\ Config!EncryptDecrypt(line, FALSE, TRUE, "works") = Config!Ok(line)
        /\ Config!EncryptDecrypt(line, FALSE, FALSE, "works") = Config!Ok(line)
        /\ ~ Config!DecryptOutside(line) =>
             Config!EncryptDecrypt(line, TRUE, FALSE, "works") = Config!Ok(line)
    BY <1>1, LineLeft
  <2> QED BY <2>1, <2>2, Zenon
<1>2. CASE Config!Marked(line, FALSE) # {}
  <2> DEFINE U == Alphabet(V)
  <2>1. PICK pre, value, post :
          /\ pre \in Seq(V) /\ value \in Seq(V) /\ post \in Seq(V)
          /\ EncryptedAs(line, pre, value, post)
          /\ \A i \in 1..Len(pre) : pre[i] # Config!Encrypt
          /\ \A i \in 1..Len(post) : post[i] # Config!Close
          /\ OccursIn(pre, Config!Decrypt) => Config!DecryptOutside(line)
    BY <1>2, LineEncrypted
  <2>2. /\ Config!Cipher(value) \in U /\ Config!Encrypt \in U /\ Config!Decrypt \in U
        /\ Config!Close \in U /\ V \subseteq U
    BY <2>1 DEF Alphabet
  <2>3. Config!Newline \notin U
    BY TokensDiffer DEF Alphabet
  <2> HIDE DEF U
  <2>4. pre \in Seq(U) /\ value \in Seq(U) /\ post \in Seq(U)
    BY <2>1, <2>2, SeqWithin
  <2>5. \A mid \in {Hidden(value), Marking(value)} : Config!Matches(pre \o mid \o post, FALSE) = {}
    BY <2>1, <2>2, <2>4, PartsEncrypted
  <2> DEFINE marked == pre \o Marking(value) \o post
             stripped == pre \o Hidden(value) \o post
             back == Config!EncryptDecrypt(marked, TRUE, FALSE, "works")
  <2>6. line = pre \o (<<Config!Encrypt>> \o value \o <<Config!Close>>) \o post
    BY <2>1 DEF EncryptedAs
  <2>7. /\ ~ Config!DecryptOutside(line) => back = Config!Ok(line)
        /\ back \in {Config!Ok(line), Config!Error}
    <3>1. CASE ~ OccursIn(pre, Config!Decrypt)
      <4>1. back = Config!Ok(line)
        <5>1. \A i \in 1..Len(pre) : pre[i] # Config!Decrypt
          BY <3>1 DEF OccursIn
        <5>2. back = Config!Ok(pre \o (<<Config!Encrypt>> \o value \o <<Config!Close>>) \o post)
          BY <2>1, <2>2, <2>3, <2>4, <5>1, DecryptsTheCipher
        <5> QED BY <2>6, <5>2
      <4> HIDE DEF back
      <4> QED BY <4>1
    <3>2. CASE OccursIn(pre, Config!Decrypt)
      <4>1. PICK i \in 1..Len(pre) : pre[i] = Config!Decrypt
        BY <3>2 DEF OccursIn
      <4>2. back = Config!Error
        BY <2>1, <2>2, <2>3, <2>4, <4>1, RefusesMore
      <4> HIDE DEF back
      <4> QED BY <2>1, <3>2, <4>2
    <3> QED BY <3>1, <3>2
  <2>8. /\ Config!EncryptDecrypt(line, FALSE, TRUE, "works") = Config!Ok(stripped)
        /\ Config!EncryptDecrypt(line, FALSE, FALSE, "works") = Config!Ok(marked)
    BY <2>1 DEF EncryptedAs
  <2>9. Config!Matches(stripped, FALSE) = {} /\ Config!Matches(marked, FALSE) = {}
    BY <2>5, Zenon
  <2>10. back = Config!EncryptDecrypt(marked, TRUE, FALSE, "works")
    OBVIOUS
  <2> HIDE DEF marked, stripped, back
  <2> QED BY <2>7, <2>8, <2>9, <2>10, Zenon
<1> QED BY <1>1, <1>2

(* The calls of SharedConfig and their arguments.                          *)
LEMMA ParseArguments == \A x \in Config!ParseInputs : x.fn = "parse"
<1>1. \A limits, stages, names, files :
        \A x \in Config!Parses(limits, stages, names, files) : x.fn = "parse"
  BY DEF Config!Parses
<1> QED BY <1>1, Zenon DEF Config!ParseInputs

LEMMA MergeArguments ==
  \A x \in Config!MergeInputs :
    \E f, g \in Config!MergedFields :
      x \in Config!Merges(f, g, Config!ConfigsOf(f, g)) \cup Config!Merges(f, g, {})
<1>1. {"Seals", "LogLevel", "DefaultMaxRequestDuration", "DisableMlock"} \subseteq Config!MergedFields
  BY DEF Config!MergedFields, Config!Appended, Config!Overriding
<1> SUFFICES ASSUME NEW x \in Config!MergeInputs
             PROVE  \E f, g \in Config!MergedFields :
                      x \in Config!Merges(f, g, Config!ConfigsOf(f, g)) \cup Config!Merges(f, g, {})
  OBVIOUS
<1>2. \/ \E f, g \in {"Seals", "LogLevel", "DefaultMaxRequestDuration", "DisableMlock"} :
           x \in Config!Merges(f, g, Config!ConfigsOf(f, g))
      \/ \E f, g \in Config!MergedFields : x \in Config!Merges(f, g, {})
  BY DEF Config!MergeInputs
<1> QED BY <1>1, <1>2

LEMMA InputsByFunction ==
  \A x \in Config!Inputs :
    /\ x.fn = "merge" => x \in Config!MergeInputs
    /\ x.fn = "crypt" => x \in Config!CryptInputs
    /\ x.fn = "parse" => x \in Config!ParseInputs
<1>1. \A x \in Config!MergeInputs : x.fn = "merge"
  <2>1. \A f, g, others : \A x \in Config!Merges(f, g, others) : x.fn = "merge"
    BY DEF Config!Merges
  <2> QED BY <2>1, MergeArguments, Zenon
<1>2. \A x \in Config!CryptInputs : x.fn = "crypt"
  BY DEF Config!CryptInputs
<1>3. "crypt" # "parse" /\ "crypt" # "merge" /\ "parse" # "merge"
  OBVIOUS
<1> QED BY <1>1, <1>2, <1>3, ParseArguments, Zenon DEF Config!Inputs

-----------------------------------------------------------------------------
(* SharedConfig: configurations by the kinds of their fields.              *)
TypedConfig(c) ==
  /\ c = [f \in Config!MergedFields |-> c[f]]
  /\ \A f \in Config!Appended : c[f] \in Seq(Int)
  /\ \A f \in Config!Overriding \cup {"DisableMlock", "DefaultMaxRequestDuration"} : c[f] \in Int

LEMMA KindsOfFields ==
  /\ Config!MergedFields
       = Config!Appended \cup Config!Overriding \cup {"DisableMlock"} \cup {"DefaultMaxRequestDuration"}
  /\ \A f \in Config!Appended :
       f \notin Config!Overriding /\ f # "DisableMlock" /\ f # "DefaultMaxRequestDuration"
  /\ \A f \in Config!Overriding : f # "DisableMlock" /\ f # "DefaultMaxRequestDuration"
  /\ "DisableMlock" # "DefaultMaxRequestDuration"
  /\ "Seals" \in Config!Appended
BY DEF Config!MergedFields, Config!Appended, Config!Overriding

LEMMA NotNil == ASSUME NEW c, TypedConfig(c) PROVE c # Config!Nil
<1>1. "DisableMlock" \in DOMAIN c
  BY KindsOfFields DEF TypedConfig
<1>2. DOMAIN Config!Nil = {}
  BY DEF Config!Nil
<1> QED BY <1>1, <1>2

(* What Merge makes of each field.                                         *)
LEMMA MergedShape ==
  ASSUME NEW c, NEW d, TypedConfig(d)
  PROVE  Config!Merge(c, d) = [f \in Config!MergedFields |-> Config!Merge(c, d)[f]]
<1> DEFINE value(f) ==
      CASE f \in Config!Appended            -> c[f] \o d[f]
        [] f \in Config!Overriding          -> IF d[f] # 0 THEN d[f] ELSE c[f]
        [] f = "DisableMlock"               -> IF d[f] = 1 THEN 1 ELSE c[f]
        [] f = "DefaultMaxRequestDuration"  -> IF d[f] > c[f] THEN d[f] ELSE c[f]
      all == [f \in Config!MergedFields |-> value(f)]
<1>1. Config!Merge(c, d) = all
  BY NotNil DEF Config!Merge
<1> HIDE DEF value
<1>2. all = [f \in Config!MergedFields |-> all[f]]
  OBVIOUS
<1> HIDE DEF all
<1> QED BY <1>1, <1>2

LEMMA AppendedMerge ==
  ASSUME NEW c, NEW d, TypedConfig(d), NEW f \in Config!Appended
  PROVE  Config!Merge(c, d)[f] = c[f] \o d[f]
BY NotNil, KindsOfFields DEF Config!Merge

LEMMA OverridingMerge ==
  ASSUME NEW c, NEW d, TypedConfig(d), NEW f \in Config!Overriding
  PROVE  Config!Merge(c, d)[f] = IF d[f] # 0 THEN d[f] ELSE c[f]
BY NotNil, KindsOfFields DEF Config!Merge

LEMMA LimitsMerge ==
  ASSUME NEW c, NEW d, TypedConfig(d)
  PROVE  /\ Config!Merge(c, d)["DisableMlock"]
              = IF d["DisableMlock"] = 1 THEN 1 ELSE c["DisableMlock"]
         /\ Config!Merge(c, d)["DefaultMaxRequestDuration"]
              = IF d["DefaultMaxRequestDuration"] > c["DefaultMaxRequestDuration"]
                THEN d["DefaultMaxRequestDuration"] ELSE c["DefaultMaxRequestDuration"]
BY NotNil, KindsOfFields DEF Config!Merge

LEMMA TypesOfFields ==
  ASSUME NEW c, TypedConfig(c)
  PROVE  /\ \A f \in Config!Appended : c[f] \in Seq(Int)
         /\ \A f \in Config!Overriding : c[f] \in Int
         /\ c["DisableMlock"] \in Int /\ c["DefaultMaxRequestDuration"] \in Int
BY DEF TypedConfig

LEMMA MergedTyped ==
  ASSUME NEW c, TypedConfig(c), NEW d, TypedConfig(d)
  PROVE  TypedConfig(Config!Merge(c, d))
<1> DEFINE m == Config!Merge(c, d)
<1>1. m = [f \in Config!MergedFields |-> m[f]]
  BY MergedShape
<1>2. \A f \in Config!Appended : m[f] \in Seq(Int)
  <2> SUFFICES ASSUME NEW f \in Config!Appended PROVE m[f] \in Seq(Int)
    OBVIOUS
  <2>1. c[f] \in Seq(Int) /\ d[f] \in Seq(Int) /\ m[f] = c[f] \o d[f]
    BY AppendedMerge, TypesOfFields
  <2> HIDE DEF m
  <2> QED BY <2>1
<1>3. \A f \in Config!Overriding : m[f] \in Int
  <2> SUFFICES ASSUME NEW f \in Config!Overriding PROVE m[f] \in Int
    OBVIOUS
  <2>1. c[f] \in Int /\ d[f] \in Int /\ m[f] \in {c[f], d[f]}
    BY OverridingMerge, TypesOfFields
  <2> QED BY <2>1
<1>4. m["DisableMlock"] \in Int
  <2>1. c["DisableMlock"] \in Int /\ m["DisableMlock"] \in {1, c["DisableMlock"]}
    BY LimitsMerge, TypesOfFields
  <2> QED BY <2>1
<1>5. m["DefaultMaxRequestDuration"] \in Int
  <2>1. /\ c["DefaultMaxRequestDuration"] \in Int /\ d["DefaultMaxRequestDuration"] \in Int
        /\ m["DefaultMaxRequestDuration"]
             \in {c["DefaultMaxRequestDuration"], d["DefaultMaxRequestDuration"]}
    BY LimitsMerge, TypesOfFields
  <2> QED BY <2>1
<1> HIDE DEF m
<1>6. TypedConfig(m)
  BY <1>1, <1>2, <1>3, <1>4, <1>5 DEF TypedConfig
<1> QED BY <1>6 DEF m

LEMMA MergesInAnyGrouping ==
  ASSUME NEW a, TypedConfig(a), NEW b, TypedConfig(b), NEW c, TypedConfig(c)
  PROVE  Config!Merge(Config!Merge(a, b), c) = Config!Merge(a, Config!Merge(b, c))
<1> DEFINE ab == Config!Merge(a, b)
           bc == Config!Merge(b, c)
           left == Config!Merge(ab, c)
           right == Config!Merge(a, bc)
<1>1. TypedConfig(ab) /\ TypedConfig(bc)
  BY MergedTyped
<1>2. ab = Config!Merge(a, b) /\ bc = Config!Merge(b, c)
  OBVIOUS
<1> HIDE DEF ab, bc
<1>3. left = [f \in Config!MergedFields |-> left[f]] /\ right = [f \in Config!MergedFields |-> right[f]]
  BY <1>1, MergedShape
<1>4. left = Config!Merge(ab, c) /\ right = Config!Merge(a, bc)
  OBVIOUS
<1> HIDE DEF left, right
<1>5. \A f \in Config!Appended : left[f] = right[f]
  <2> SUFFICES ASSUME NEW f \in Config!Appended PROVE left[f] = right[f]
    OBVIOUS
  <2>1. a[f] \in Seq(Int) /\ b[f] \in Seq(Int) /\ c[f] \in Seq(Int)
    BY TypesOfFields
  <2>2. ab[f] = a[f] \o b[f] /\ bc[f] = b[f] \o c[f]
    BY <1>2, AppendedMerge
  <2>3. left[f] = ab[f] \o c[f] /\ right[f] = a[f] \o bc[f]
    BY <1>1, <1>4, AppendedMerge
  <2>4. (a[f] \o b[f]) \o c[f] = a[f] \o (b[f] \o c[f])
    <3>1. ASSUME NEW x \in Seq(Int), NEW u \in Seq(Int), NEW v \in Seq(Int)
          PROVE  (x \o u) \o v = x \o (u \o v)
      OBVIOUS
    <3> QED BY <2>1, <3>1, Zenon
  <2> QED BY <2>2, <2>3, <2>4
<1>6. \A f \in Config!Overriding : left[f] = right[f]
  <2> SUFFICES ASSUME NEW f \in Config!Overriding PROVE left[f] = right[f]
    OBVIOUS
  <2>1. /\ ab[f] = (IF b[f] # 0 THEN b[f] ELSE a[f])
        /\ bc[f] = (IF c[f] # 0 THEN c[f] ELSE b[f])
    BY <1>2, OverridingMerge
  <2>2. /\ left[f] = (IF c[f] # 0 THEN c[f] ELSE ab[f])
        /\ right[f] = (IF bc[f] # 0 THEN bc[f] ELSE a[f])
    BY <1>1, <1>4, OverridingMerge
  <2> QED BY <2>1, <2>2
<1>7. left["DisableMlock"] = right["DisableMlock"]
  <2> DEFINE f == "DisableMlock"
  <2>1. /\ ab[f] = (IF b[f] = 1 THEN 1 ELSE a[f])
        /\ bc[f] = (IF c[f] = 1 THEN 1 ELSE b[f])
    BY <1>2, LimitsMerge
  <2>2. /\ left[f] = (IF c[f] = 1 THEN 1 ELSE ab[f])
        /\ right[f] = (IF bc[f] = 1 THEN 1 ELSE a[f])
    BY <1>1, <1>4, LimitsMerge
  <2> QED BY <2>1, <2>2
<1>8. left["DefaultMaxRequestDuration"] = right["DefaultMaxRequestDuration"]
  <2> DEFINE f == "DefaultMaxRequestDuration"
  <2>1. /\ ab[f] = (IF b[f] > a[f] THEN b[f] ELSE a[f])
        /\ bc[f] = (IF c[f] > b[f] THEN c[f] ELSE b[f])
    BY <1>2, LimitsMerge
  <2>2. /\ left[f] = (IF c[f] > ab[f] THEN c[f] ELSE ab[f])
        /\ right[f] = (IF bc[f] > a[f] THEN bc[f] ELSE a[f])
    BY <1>1, <1>4, LimitsMerge
  <2>3. a[f] \in Int /\ b[f] \in Int /\ c[f] \in Int
    BY TypesOfFields
  <2> HIDE DEF f
  <2>4. left[f] = right[f]
    BY <2>1, <2>2, <2>3
  <2> QED BY <2>4 DEF f
<1>9. \A f \in Config!MergedFields : left[f] = right[f]
  BY <1>5, <1>6, <1>7, <1>8, KindsOfFields
<1>10. left = right
  BY <1>3, <1>9
<1> QED BY <1>2, <1>4, <1>10

LEMMA BothWithin ==
  ASSUME NEW U, NEW s \in Seq(U), NEW t \in Seq(U), NEW st, st = s \o t
  PROVE  Config!ToSet(s) \subseteq Config!ToSet(st) /\ Config!ToSet(t) \subseteq Config!ToSet(st)
<1>1. /\ DOMAIN s = 1..Len(s) /\ DOMAIN t = 1..Len(t) /\ DOMAIN st = 1..Len(st)
      /\ Len(st) = Len(s) + Len(t) /\ Len(s) \in Nat /\ Len(t) \in Nat
      /\ \A i \in 1..Len(s) : st[i] = s[i]
      /\ \A i \in 1..Len(t) : st[Len(s) + i] = t[i]
  OBVIOUS
<1>2. ASSUME NEW i \in 1..Len(s) PROVE i \in 1..Len(st)
  BY <1>1
<1>3. ASSUME NEW i \in 1..Len(t) PROVE Len(s) + i \in 1..Len(st)
  BY <1>1
<1>4. ASSUME NEW x \in Config!ToSet(s) PROVE x \in Config!ToSet(st)
  BY <1>1, <1>2, <1>4 DEF Config!ToSet
<1>5. ASSUME NEW x \in Config!ToSet(t) PROVE x \in Config!ToSet(st)
  BY ZenonT(30), <1>1, <1>3, <1>5 DEF Config!ToSet
<1> QED BY <1>4, <1>5

(* Merge keeps the blocks of both and the longer duration.                 *)
LEMMA MergeKeeps ==
  ASSUME NEW c, TypedConfig(c), NEW d, TypedConfig(d)
  PROVE  LET m == Config!Merge(c, d)
         IN  \A x \in {c, d} :
               /\ m["DefaultMaxRequestDuration"] >= x["DefaultMaxRequestDuration"]
               /\ Config!ToSet(x["Seals"]) \subseteq Config!ToSet(m["Seals"])
<1> DEFINE m == Config!Merge(c, d)
<1>1. /\ c["DefaultMaxRequestDuration"] \in Int /\ d["DefaultMaxRequestDuration"] \in Int
      /\ c["Seals"] \in Seq(Int) /\ d["Seals"] \in Seq(Int)
  BY KindsOfFields, TypesOfFields
<1>2. m["Seals"] = c["Seals"] \o d["Seals"]
  BY AppendedMerge, KindsOfFields
<1>3. m["DefaultMaxRequestDuration"]
        = IF d["DefaultMaxRequestDuration"] > c["DefaultMaxRequestDuration"]
          THEN d["DefaultMaxRequestDuration"] ELSE c["DefaultMaxRequestDuration"]
  BY LimitsMerge
<1> HIDE DEF m
<1>4. /\ Config!ToSet(c["Seals"]) \subseteq Config!ToSet(m["Seals"])
      /\ Config!ToSet(d["Seals"]) \subseteq Config!ToSet(m["Seals"])
  BY <1>1, <1>2, BothWithin
<1>5. /\ m["DefaultMaxRequestDuration"] >= c["DefaultMaxRequestDuration"]
      /\ m["DefaultMaxRequestDuration"] >= d["DefaultMaxRequestDuration"]
  BY <1>1, <1>3
<1> QED BY <1>4, <1>5 DEF m

LEMMA ValuesTyped ==
  /\ \A f \in Config!Appended : Config!Values(f) \subseteq Seq(Int) /\ Config!Unset(f) \in Seq(Int)
  /\ \A f : f \notin Config!Appended => Config!Values(f) \subseteq Int /\ Config!Unset(f) \in Int
<1>1. {<< >>, <<1>>, <<2>>} \subseteq Seq(Int) /\ << >> \in Seq(Int)
  OBVIOUS
<1>2. 0..1 \subseteq Int /\ 0..2 \subseteq Int /\ 0 \in Int
  OBVIOUS
<1> QED BY <1>1, <1>2 DEF Config!Values, Config!Unset

LEMMA ConfigsTyped ==
  ASSUME NEW f, NEW g, NEW c \in Config!ConfigsOf(f, g)
  PROVE  TypedConfig(c)
<1>1. PICK v \in Config!Values(f), w \in Config!Values(g) :
        c = [h \in Config!MergedFields |-> IF h = f THEN v ELSE IF h = g THEN w ELSE Config!Unset(h)]
  BY DEF Config!ConfigsOf
<1>2. c = [h \in Config!MergedFields |-> c[h]]
  BY <1>1
<1>3. \A h \in Config!MergedFields : c[h] \in {Config!Unset(h)} \cup Config!Values(h)
  BY <1>1
<1>4. \A h \in Config!Appended : c[h] \in Seq(Int)
  BY <1>3, KindsOfFields, ValuesTyped
<1>5. \A h \in Config!Overriding \cup {"DisableMlock", "DefaultMaxRequestDuration"} : c[h] \in Int
  BY <1>3, KindsOfFields, ValuesTyped
<1> QED BY <1>2, <1>4, <1>5 DEF TypedConfig

(* Three configurations merge to the same in any grouping, and nothing is  *)
(* dropped or shortened by it (SharedConfig.Merge).                        *)
THEOREM Merges == Answered /\ subject = "config" => Config!MergeAssociative
<1> SUFFICES ASSUME Answered, subject = "config", Config!Called("merge")
             PROVE  IF args.c = Config!Nil THEN Config!returned = Config!Merge(args.a, args.b)
                    ELSE /\ Config!returned = Config!Merge(args.a, Config!Merge(args.b, args.c))
                         /\ \A x \in {args.a, args.b, args.c} :
                              /\ Config!returned["DefaultMaxRequestDuration"]
                                   >= x["DefaultMaxRequestDuration"]
                              /\ Config!ToSet(x["Seals"]) \subseteq Config!ToSet(Config!returned["Seals"])
  BY DEF Config!MergeAssociative
<1>1. args \in Config!Inputs /\ result = <<Config!Call(args)>> /\ args.fn = "merge"
  BY DEF Answered, Config!Called, Config!Pending
<1>2. Config!returned = Config!Merge(Config!Merge(args.a, args.b), args.c)
  BY <1>1 DEF Config!returned, Config!Call
<1>3. PICK f, g \in Config!MergedFields :
        args \in Config!Merges(f, g, Config!ConfigsOf(f, g)) \cup Config!Merges(f, g, {})
  BY <1>1, InputsByFunction, MergeArguments, Zenon
<1>4. /\ args.a \in Config!ConfigsOf(f, g) /\ args.b \in Config!ConfigsOf(f, g)
      /\ args.c # Config!Nil => args.c \in Config!ConfigsOf(f, g)
  BY <1>3 DEF Config!Merges
<1> DEFINE a == args.a
           b == args.b
           c == args.c
<1>5. TypedConfig(a) /\ TypedConfig(b) /\ (c # Config!Nil => TypedConfig(c))
  BY <1>4, ConfigsTyped
<1>6. CASE c = Config!Nil
  BY <1>2, <1>6 DEF Config!Merge
<1>7. CASE c # Config!Nil
  <2>1. TypedConfig(a) /\ TypedConfig(b) /\ TypedConfig(c)
    BY <1>5, <1>7
  <2>2. Config!returned = Config!Merge(Config!Merge(a, b), c)
    BY <1>2
  <2> HIDE DEF a, b, c
  <2>3. Config!returned = Config!Merge(a, Config!Merge(b, c))
    BY <2>1, <2>2, MergesInAnyGrouping
  <2> DEFINE ab == Config!Merge(a, b)
             m == Config!Merge(ab, c)
             Keeps(x, y) == /\ y["DefaultMaxRequestDuration"] >= x["DefaultMaxRequestDuration"]
                            /\ Config!ToSet(x["Seals"]) \subseteq Config!ToSet(y["Seals"])
  <2>4. TypedConfig(ab)
    BY <2>1, MergedTyped
  <2>5. Keeps(a, ab) /\ Keeps(b, ab)
    BY <2>1, MergeKeeps
  <2>m. m = Config!Merge(ab, c)
    OBVIOUS
  <2> HIDE DEF ab
  <2>6. Keeps(ab, m) /\ Keeps(c, m)
    BY <2>1, <2>4, MergeKeeps
  <2>7. TypedConfig(m)
    BY <2>1, <2>4, MergedTyped
  <2> HIDE DEF m
  <2>8. /\ a["DefaultMaxRequestDuration"] \in Int /\ b["DefaultMaxRequestDuration"] \in Int
        /\ ab["DefaultMaxRequestDuration"] \in Int /\ m["DefaultMaxRequestDuration"] \in Int
    BY <2>1, <2>4, <2>7, TypesOfFields
  <2>9. Keeps(a, m) /\ Keeps(b, m)
    BY <2>5, <2>6, <2>8
  <2>10. Config!returned = m
    BY <2>2, <2>m DEF ab
  <2>11. \A x \in {a, b, c} : Keeps(x, Config!returned)
    BY <2>6, <2>9, <2>10
  <2> QED BY <1>7, <2>3, <2>11 DEF a, b, c
<1> QED BY <1>6, <1>7

-----------------------------------------------------------------------------
(* SharedConfig: files whose blocks are any sequence of blocks.            *)
Kinds == {"hsm", "seal", "kms"}
AnyBlock ==
  [name : Kinds, disabled : {"absent", "bad", "true"}, purpose : {"absent", "bad", "list"},
   path : {"absent", "empty", "string", "bad"},
   checksum : {"absent", "empty", "hex", "not hex", "bad"}, config : {"string", "bad"}]

LEMMA ConfigOnly == \A s, S : Config!Only(s, S) = Only(s, S)
<1>1. ASSUME NEW s, NEW S PROVE Config!Only(s, S) = Only(s, S)
  <2> DEFINE parts == [i \in DOMAIN s |-> IF s[i] \in S THEN <<s[i]>> ELSE << >>]
  <2>1. Config!Only(s, S) = Config!FlattenSeq(parts)
    BY DEF Config!Only
  <2>2. Only(s, S) = FlattenSeq(parts)
    BY DEF Only
  <2> HIDE DEF parts
  <2> QED BY <2>1, <2>2, ConfigLists
<1> QED BY <1>1

LEMMA BlocksAreTyped ==
  /\ Config!Block \subseteq AnyBlock
  /\ \A name \in Kinds : Config!Plain(name) \in AnyBlock
BY Zenon DEF Config!Block, Config!Plain, AnyBlock, Kinds

LEMMA RepeatedTyped ==
  ASSUME NEW R, NEW x \in R, NEW n \in Int PROVE [i \in 1..n |-> x] \in Seq(R)
<1>1. CASE n \in Nat
  BY <1>1
<1>2. CASE n \notin Nat
  <2>1. 1..n = 1..0
    BY <1>2
  <2>2. [i \in 1..0 |-> x] \in Seq(R)
    OBVIOUS
  <2> QED BY <2>1, <2>2
<1> QED BY <1>1, <1>2

LEMMA ShortLists ==
  ASSUME NEW R, NEW x \in R, NEW y \in R PROVE <<x>> \in Seq(R) /\ <<x, y>> \in Seq(R)
OBVIOUS

LEMMA FilesAreBlocks ==
  /\ \A file \in Config!Counted : file \in Seq(AnyBlock)
  /\ \A file \in Config!Tried : file \in Seq(AnyBlock)
<1>1. ASSUME NEW h \in Int, NEW s \in Int, NEW k \in Int
      PROVE  Config!Blocks(h, s, k) \in Seq(AnyBlock)
  <2>1. /\ Config!Plain("hsm") \in AnyBlock /\ Config!Plain("seal") \in AnyBlock
        /\ Config!Plain("kms") \in AnyBlock
    BY BlocksAreTyped DEF Kinds
  <2>2. /\ [i \in 1..h |-> Config!Plain("hsm")] \in Seq(AnyBlock)
        /\ [i \in 1..k |-> Config!Plain("kms")] \in Seq(AnyBlock)
        /\ [i \in 1..s |-> Config!Plain("seal")] \in Seq(AnyBlock)
    BY <2>1, RepeatedTyped
  <2> QED BY <2>2 DEF Config!Blocks
<1>2. ASSUME NEW file \in Config!Counted PROVE file \in Seq(AnyBlock)
  <2>1. PICK h \in Int, s \in Int, k \in Int : file = Config!Blocks(h, s, k)
    BY DEF Config!Counted
  <2> QED BY <1>1, <2>1
<1>3. ASSUME NEW file \in Config!Tried PROVE file \in Seq(AnyBlock)
  <2>1. PICK b \in Config!Block : file = <<b>> \/ file = <<b, Config!Plain("hsm")>>
    BY DEF Config!Tried
  <2>2. b \in AnyBlock /\ Config!Plain("hsm") \in AnyBlock
    BY BlocksAreTyped DEF Kinds
  <2>3. <<b>> \in Seq(AnyBlock) /\ <<b, Config!Plain("hsm")>> \in Seq(AnyBlock)
    BY <2>2, ShortLists
  <2> QED BY <2>1, <2>3
<1> QED BY <1>2, <1>3

LEMMA FilesTyped ==
  ASSUME NEW x \in Config!ParseInputs PROVE x.blocks \in Seq(AnyBlock) /\ x.maxBlocks \in Int
<1>1. ASSUME NEW limits, NEW stages, NEW names, NEW files,
             x \in Config!Parses(limits, stages, names, files)
      PROVE  x.blocks \in files /\ x.maxBlocks \in limits
  BY <1>1 DEF Config!Parses
<1>2. \/ x \in Config!Parses({-1, 0, 2}, {"none"}, {"name"}, Config!Counted)
      \/ x \in Config!Parses({0}, Config!Stage, {"name", "not a url"}, Config!Tried)
  BY Zenon DEF Config!ParseInputs
<1>3. (x.blocks \in Config!Counted /\ x.maxBlocks \in {-1, 0, 2})
      \/ (x.blocks \in Config!Tried /\ x.maxBlocks \in {0})
  BY <1>1, <1>2, Zenon
<1> QED BY <1>3, FilesAreBlocks

(* The blocks of a kind, each of which is a KMS of that kind.              *)
NameOf == [b \in AnyBlock |-> b.name]
KMSOf == [b \in AnyBlock |-> Config!KMS(b)]
AnySeal == {Config!KMS(b) : b \in AnyBlock}
OfKind(name) == {b \in AnyBlock : b.name = name}

LEMMA OneKind ==
  ASSUME NEW list \in Seq(AnyBlock), NEW name, NEW max \in Int,
         ~ Config!parseKMS(Config!Named(list, name), max).err
  PROVE  LET mine == Config!Named(list, name)
             kind == OfKind(name)
         IN  /\ mine = Only(list, kind) /\ mine \in Seq(kind)
             /\ Config!parseKMS(mine, max).val = Mapped(KMSOf, mine)
             /\ max > 0 => Len(mine) <= max
             /\ \A i \in 1..Len(mine) : ~ Config!BlockFails(mine[i])
<1> DEFINE mine == Config!Named(list, name)
           kind == OfKind(name)
           here == {b \in ToSet(list) : b.name = name}
<1>1. mine = Only(list, here)
  BY ConfigOnly, ConfigLists DEF Config!Named
<1>2. list \in Seq(ToSet(list)) /\ ToSet(list) \subseteq AnyBlock
  BY DEF ToSet
<1>3. \A b \in ToSet(list) : b \in here <=> b \in kind
  BY <1>2 DEF OfKind
<1> HIDE DEF here, kind
<1>4. mine = Only(list, kind)
  BY <1>1, <1>2, <1>3, OnlySame
<1>5. mine \in Seq(AnyBlock \cap kind) /\ mine \in Seq(AnyBlock)
  BY <1>4, OnlyType
<1>6. AnyBlock \cap kind = kind
  BY DEF kind, OfKind
<1> HIDE DEF mine
<1>7. ~ ((max > 0 /\ Len(mine) > max) \/ \E i \in DOMAIN mine : Config!BlockFails(mine[i]))
  BY DEF Config!parseKMS, Config!Error, mine
<1>8. Config!parseKMS(mine, max).val = [i \in DOMAIN mine |-> Config!KMS(mine[i])]
  BY <1>7 DEF Config!parseKMS, Config!Ok
<1>9. DOMAIN mine = 1..Len(mine) /\ Len(mine) \in Nat /\ \A i \in 1..Len(mine) : mine[i] \in AnyBlock
  BY <1>5
<1>10. [i \in DOMAIN mine |-> Config!KMS(mine[i])] = Mapped(KMSOf, mine)
  <2>1. \A i \in 1..Len(mine) : KMSOf[mine[i]] = Config!KMS(mine[i])
    BY <1>9 DEF KMSOf
  <2> QED BY <1>9, <2>1 DEF Mapped
<1>11. max > 0 => Len(mine) <= max
  BY <1>7, <1>9
<1>12. \A i \in 1..Len(mine) : ~ Config!BlockFails(mine[i])
  BY <1>7, <1>9
<1>13. mine \in Seq(kind)
  BY <1>5, <1>6
<1> QED BY <1>4, <1>8, <1>10, <1>11, <1>12, <1>13 DEF mine, kind

LEMMA FlattenThree ==
  ASSUME NEW R, NEW s \in Seq(Seq(R)), Len(s) = 3
  PROVE  FlattenSeq(s) = (s[1] \o s[2]) \o s[3]
<1>1. s # << >>
  OBVIOUS
<1>2. PICK f \in [1..Len(s) -> Seq(R)] : /\ f[1] = s[1]
                                        /\ \A i \in 2..Len(s) : f[i] = f[i - 1] \o s[i]
                                        /\ FlattenSeq(s) = f[Len(s)]
  BY ZenonT(30), <1>1, FlattenUnfolds
<1>3. f[2] = f[1] \o s[2]
  <2>1. 2 \in 2..Len(s) /\ 2 - 1 = 1
    OBVIOUS
  <2> QED BY <1>2, <2>1
<1>4. f[3] = f[2] \o s[3]
  <2>1. 3 \in 2..Len(s) /\ 3 - 1 = 2
    OBVIOUS
  <2> QED BY <1>2, <2>1
<1> QED BY <1>2, <1>3, <1>4

Mine(list, k) == Config!Named(list, Config!BlockName[k])
Limit(k, max) == IF max = 0 THEN Config!DefaultMax(Config!BlockName[k]) ELSE max

LEMMA LimitsAreNumbers ==
  ASSUME NEW max \in Int, NEW k \in 1..3
  PROVE  /\ Limit(k, max) \in Int /\ (max = 0 => Limit(k, max) > 0)
         /\ Config!BlockName[k] \in Kinds
BY DEF Limit, Config!DefaultMax, Config!BlockName, Kinds

(* The seals of a file are the KMSes of its blocks, by kind and in order.  *)
LEMMA SealsOfFile ==
  ASSUME NEW list \in Seq(AnyBlock), NEW max \in Int, ~ Config!filterKMSes(list, max).err
  PROVE  /\ Config!filterKMSes(list, max).val =
              (Mapped(KMSOf, Mine(list, 1)) \o Mapped(KMSOf, Mine(list, 2))) \o Mapped(KMSOf, Mine(list, 3))
         /\ \A k \in 1..3 :
              LET mine == Mine(list, k)
                  kind == OfKind(Config!BlockName[k])
              IN  /\ mine = Only(list, kind) /\ mine \in Seq(kind)
                  /\ Limit(k, max) > 0 => Len(mine) <= Limit(k, max)
                  /\ \A i \in 1..Len(mine) : ~ Config!BlockFails(mine[i])
<1> DEFINE one(k) == Config!parseKMS(Mine(list, k), Limit(k, max))
           parsed == [k \in DOMAIN Config!BlockName |-> one(k)]
           vals == [k \in DOMAIN parsed |-> parsed[k].val]
           file == Config!filterKMSes(list, max)
<1>1. file = IF \E k \in DOMAIN parsed : parsed[k].err THEN Config!Error
             ELSE Config!Ok(Config!FlattenSeq(vals))
  BY DEF Config!filterKMSes, Mine, Limit
<1>2. DOMAIN Config!BlockName = 1..3
  BY DEF Config!BlockName
<1>3. DOMAIN parsed = 1..3 /\ \A k \in 1..3 : parsed[k] = one(k)
  BY <1>2
<1>4. vals = [k \in 1..3 |-> parsed[k].val]
  BY <1>3
<1> HIDE DEF parsed
<1> HIDE DEF vals
<1>5. (\A k \in 1..3 : ~ parsed[k].err) /\ file.val = FlattenSeq(vals)
  BY <1>1, <1>3, ConfigLists DEF Config!Error, Config!Ok
<1>6. \A k \in 1..3 : ~ one(k).err
  BY <1>3, <1>5
<1>7. ASSUME NEW k \in 1..3
      PROVE  LET mine == Mine(list, k)
                 kind == OfKind(Config!BlockName[k])
             IN  /\ mine = Only(list, kind) /\ mine \in Seq(kind) /\ mine \in Seq(AnyBlock)
                 /\ one(k).val = Mapped(KMSOf, mine)
                 /\ Limit(k, max) > 0 => Len(mine) <= Limit(k, max)
                 /\ \A i \in 1..Len(mine) : ~ Config!BlockFails(mine[i])
  <2> DEFINE name == Config!BlockName[k]
             limit == Limit(k, max)
  <2>1. limit \in Int
    BY LimitsAreNumbers
  <2>2. ~ Config!parseKMS(Config!Named(list, name), limit).err
    BY <1>6 DEF Mine
  <2> HIDE DEF name, limit
  <2>3. LET mine == Config!Named(list, name)
            kind == OfKind(name)
        IN  /\ mine = Only(list, kind) /\ mine \in Seq(kind)
            /\ Config!parseKMS(mine, limit).val = Mapped(KMSOf, mine)
            /\ limit > 0 => Len(mine) <= limit
            /\ \A i \in 1..Len(mine) : ~ Config!BlockFails(mine[i])
    BY <2>1, <2>2, OneKind
  <2>4. Config!Named(list, name) \in Seq(AnyBlock)
    BY <2>3, OnlyType
  <2> QED BY <2>3, <2>4 DEF name, limit, Mine
<1> DEFINE Q == AnySeal
<1>8. Takes(KMSOf, AnyBlock, Q)
  BY DEF Takes, KMSOf, AnySeal
<1>9. \A k \in 1..3 : vals[k] = Mapped(KMSOf, Mine(list, k))
  BY <1>3, <1>4, <1>7
<1> HIDE DEF Q, one
<1>10. \A k \in 1..3 : Mapped(KMSOf, Mine(list, k)) \in Seq(Q)
  BY <1>7, <1>8, MappedType
<1> DEFINE a == Mapped(KMSOf, Mine(list, 1))
           b == Mapped(KMSOf, Mine(list, 2))
           c == Mapped(KMSOf, Mine(list, 3))
<1>11. vals[1] = a /\ vals[2] = b /\ vals[3] = c /\ a \in Seq(Q) /\ b \in Seq(Q) /\ c \in Seq(Q)
  BY <1>9, <1>10
<1> HIDE DEF a, b, c, file
<1>12. vals \in Seq(Seq(Q)) /\ Len(vals) = 3
  <2>1. vals \in [1..3 -> Seq(Q)]
    BY <1>4, <1>9, <1>10
  <2> DEFINE n == 3
             Z == Seq(Q)
  <2>2. n \in Nat /\ vals \in [1..n -> Z]
    BY <2>1
  <2> HIDE DEF n, Z
  <2>3. vals \in Seq(Z) /\ Len(vals) = n
    BY <2>2
  <2> QED BY <2>3 DEF n, Z
<1>13. file.val = (a \o b) \o c
  BY <1>5, <1>11, <1>12, FlattenThree
<1> QED BY <1>7, <1>13 DEF file, a, b, c

(* The names of the blocks of a file, and of those of one kind.            *)
LEMMA NamesOfKind ==
  ASSUME NEW list \in Seq(AnyBlock), NEW name
  PROVE  Len(Only(Mapped(NameOf, list), {name})) = Len(Only(list, OfKind(name)))
<1> DEFINE P == {b \in AnyBlock : NameOf[b] \in {name}}
           mine == Only(list, P)
<1>1. Takes(NameOf, AnyBlock, Kinds)
  BY Zenon DEF Takes, NameOf, AnyBlock
<1>2. Only(Mapped(NameOf, list), {name}) = Mapped(NameOf, mine)
  BY <1>1, OnlyMapped
<1>3. P = OfKind(name)
  BY DEF OfKind, NameOf
<1> HIDE DEF P
<1>4. mine \in Seq(AnyBlock)
  BY OnlyType
<1> HIDE DEF mine
<1>5. Len(Mapped(NameOf, mine)) = Len(mine)
  BY <1>1, <1>4, MappedType
<1> QED BY <1>2, <1>3, <1>5 DEF mine

TypeOf == [x \in AnySeal |-> x.type]

LEMMA SealsTyped == Takes(KMSOf, AnyBlock, AnySeal) /\ Takes(TypeOf, AnySeal, Kinds)
<1>1. \A b \in AnyBlock : Config!KMS(b).type = b.name /\ b.name \in Kinds
  BY Zenon DEF Config!KMS, AnyBlock
<1> QED BY <1>1 DEF Takes, KMSOf, TypeOf, AnySeal

LEMMA TypesOfKind ==
  ASSUME NEW name, NEW mine \in Seq(OfKind(name))
  PROVE  LET types == Mapped(TypeOf, Mapped(KMSOf, mine))
         IN  types \in Seq({name}) /\ Len(types) = Len(mine)
<1> DEFINE seals == Mapped(KMSOf, mine)
           types == Mapped(TypeOf, seals)
<1>1. mine \in Seq(AnyBlock)
  BY DEF OfKind
<1>2. Len(mine) \in Nat /\ \A i \in 1..Len(mine) : mine[i] \in AnyBlock /\ mine[i].name = name
  BY DEF OfKind
<1>3. /\ seals \in Seq(AnySeal) /\ Len(seals) = Len(mine)
      /\ \A i \in 1..Len(mine) : seals[i] = KMSOf[mine[i]]
  BY <1>1, SealsTyped, MappedType
<1> HIDE DEF seals
<1>4. /\ types \in Seq(Kinds) /\ Len(types) = Len(mine)
      /\ \A i \in 1..Len(mine) : types[i] = TypeOf[seals[i]]
  BY <1>3, SealsTyped, MappedType
<1> HIDE DEF types
<1>5. ASSUME NEW i \in 1..Len(mine) PROVE types[i] \in {name}
  <2>1. KMSOf[mine[i]] = Config!KMS(mine[i]) /\ Config!KMS(mine[i]) \in AnySeal
    BY <1>2 DEF KMSOf, AnySeal
  <2>2. types[i] = Config!KMS(mine[i]).type
    BY <1>3, <1>4, <2>1 DEF TypeOf
  <2> QED BY <1>2, <2>2 DEF Config!KMS
<1>6. types \in Seq({name})
  BY <1>2, <1>4, <1>5
<1> QED BY <1>4, <1>6 DEF types, seals

(* Of three lists, each of one name, the elements with that name.          *)
OnlyJoined(a, b, c, S) == Only((a \o b) \o c, S) = (Only(a, S) \o Only(b, S)) \o Only(c, S)

LEMMA OneOfThree ==
  ASSUME NEW R, NEW a \in Seq(R), NEW b \in Seq(R), NEW c \in Seq(R), NEW S
  PROVE  OnlyJoined(a, b, c, S)
<1> DEFINE ab == a \o b
<1>1. ab \in Seq(R)
  OBVIOUS
<1>2. Only(ab, S) = Only(a, S) \o Only(b, S)
  BY OnlyConcat
<1> HIDE DEF ab
<1>3. Only(ab \o c, S) = Only(ab, S) \o Only(c, S)
  BY <1>1, OnlyConcat
<1> QED BY <1>2, <1>3 DEF ab, OnlyJoined

CountOfNames(all, x, y, z, i, j, k) ==
  Len(Only(all, {x})) = i /\ Len(Only(all, {y})) = j /\ Len(Only(all, {z})) = k

LEMMA CountedOnce ==
  ASSUME NEW x, NEW y, NEW z, x # y, x # z, y # z,
         NEW a \in Seq({x}), NEW b \in Seq({y}), NEW c \in Seq({z})
  PROVE  CountOfNames((a \o b) \o c, x, y, z, Len(a), Len(b), Len(c))
<1> DEFINE R == {x, y, z}
           all == (a \o b) \o c
<1>1. a \in Seq(R) /\ b \in Seq(R) /\ c \in Seq(R)
  OBVIOUS
<1>2. /\ {x} \cap {y} = {} /\ {x} \cap {z} = {} /\ {y} \cap {x} = {}
      /\ {y} \cap {z} = {} /\ {z} \cap {x} = {} /\ {z} \cap {y} = {}
  OBVIOUS
<1>3. /\ Only(a, {x}) = a /\ Only(b, {x}) = << >> /\ Only(c, {x}) = << >>
      /\ Only(a, {y}) = << >> /\ Only(b, {y}) = b /\ Only(c, {y}) = << >>
      /\ Only(a, {z}) = << >> /\ Only(b, {z}) = << >> /\ Only(c, {z}) = c
  BY <1>2, OnlyAll, OnlyNone
<1>4. /\ (a \o << >>) \o << >> = a /\ (<< >> \o b) \o << >> = b
      /\ (<< >> \o << >>) \o c = c
  OBVIOUS
<1> HIDE DEF R
<1>5. ASSUME NEW S PROVE Only(all, S) = (Only(a, S) \o Only(b, S)) \o Only(c, S)
  <2>1. OnlyJoined(a, b, c, S)
    BY <1>1, OneOfThree
  <2> QED BY <2>1 DEF OnlyJoined
<1> HIDE DEF all
<1>6. Only(all, {x}) = (Only(a, {x}) \o Only(b, {x})) \o Only(c, {x})
  BY <1>5
<1>7. Only(all, {y}) = (Only(a, {y}) \o Only(b, {y})) \o Only(c, {y})
  BY <1>5
<1>8. Only(all, {z}) = (Only(a, {z}) \o Only(b, {z})) \o Only(c, {z})
  BY <1>5
<1>9. Only(all, {x}) = a /\ Only(all, {y}) = b /\ Only(all, {z}) = c
  BY <1>3, <1>4, <1>6, <1>7, <1>8
<1> QED BY <1>9 DEF all, CountOfNames

InSome(x, a, b, c) ==
  \/ \E j \in 1..Len(a) : x = a[j]
  \/ \E j \in 1..Len(b) : x = b[j]
  \/ \E j \in 1..Len(c) : x = c[j]

LEMMA InOneOfThree ==
  ASSUME NEW R, NEW a \in Seq(R), NEW b \in Seq(R), NEW c \in Seq(R),
         NEW i \in 1..Len((a \o b) \o c)
  PROVE  InSome(((a \o b) \o c)[i], a, b, c)
<1> DEFINE s == (a \o b) \o c
<1>1. /\ Len(s) = Len(a) + Len(b) + Len(c) /\ Len(a) \in Nat /\ Len(b) \in Nat /\ Len(c) \in Nat
      /\ i \in Int
  OBVIOUS
<1>2. CASE i <= Len(a)
  <2>1. s[i] = a[i] /\ i \in 1..Len(a)
    BY <1>1, <1>2
  <2> HIDE DEF s
  <2> QED BY <2>1 DEF InSome, s
<1>3. CASE i > Len(a) /\ i <= Len(a) + Len(b)
  <2>1. s[i] = b[i - Len(a)] /\ i - Len(a) \in 1..Len(b)
    BY <1>1, <1>3
  <2> HIDE DEF s
  <2> QED BY <2>1 DEF InSome, s
<1>4. CASE i > Len(a) + Len(b)
  <2>1. s[i] = c[i - Len(a) - Len(b)] /\ i - Len(a) - Len(b) \in 1..Len(c)
    BY <1>1, <1>4
  <2> HIDE DEF s
  <2> QED BY <2>1 DEF InSome, s
<1> QED BY <1>1, <1>2, <1>3, <1>4

LEMMA TypesOfSeals ==
  ASSUME NEW a \in Seq(AnySeal), NEW b \in Seq(AnySeal), NEW c \in Seq(AnySeal)
  PROVE  Mapped(TypeOf, (a \o b) \o c) =
           (Mapped(TypeOf, a) \o Mapped(TypeOf, b)) \o Mapped(TypeOf, c)
<1> DEFINE ab == a \o b
<1>1. ab \in Seq(AnySeal) /\ Takes(TypeOf, AnySeal, Kinds)
  BY SealsTyped
<1>2. Mapped(TypeOf, ab) = Mapped(TypeOf, a) \o Mapped(TypeOf, b)
  BY <1>1, MappedConcat
<1> HIDE DEF ab
<1>3. Mapped(TypeOf, ab \o c) = Mapped(TypeOf, ab) \o Mapped(TypeOf, c)
  BY SMTT(30), <1>1, MappedConcat
<1> QED BY <1>2, <1>3 DEF ab

LEMMA NamesOfBlocks ==
  ASSUME NEW list \in Seq(AnyBlock)
  PROVE  [i \in DOMAIN list |-> list[i].name] = Mapped(NameOf, list)
<1>1. DOMAIN list = 1..Len(list) /\ \A i \in 1..Len(list) : list[i] \in AnyBlock
  OBVIOUS
<1>2. \A i \in 1..Len(list) : NameOf[list[i]] = list[i].name
  BY <1>1 DEF NameOf
<1> QED BY <1>1, <1>2 DEF Mapped

LEMMA TypesAreMapped ==
  ASSUME NEW seals \in Seq(AnySeal)
  PROVE  [i \in DOMAIN seals |-> seals[i].type] = Mapped(TypeOf, seals)
<1>1. DOMAIN seals = 1..Len(seals) /\ \A i \in 1..Len(seals) : seals[i] \in AnySeal
  OBVIOUS
<1>2. \A i \in 1..Len(seals) : TypeOf[seals[i]] = seals[i].type
  BY <1>1 DEF TypeOf
<1> QED BY <1>1, <1>2 DEF Mapped

(* A block that does not fail has a path and a checksum, or neither.       *)
LEMMA PathWithChecksum ==
  ASSUME NEW b \in AnyBlock, ~ Config!BlockFails(b)
  PROVE  KMSOf[b].plugin = KMSOf[b].checksum
BY Zenon DEF Config!BlockFails, KMSOf, Config!KMS

LEMMA PluginsWhole ==
  ASSUME NEW mine \in Seq(AnyBlock), \A i \in 1..Len(mine) : ~ Config!BlockFails(mine[i]),
         NEW i \in 1..Len(Mapped(KMSOf, mine))
  PROVE  Mapped(KMSOf, mine)[i].plugin = Mapped(KMSOf, mine)[i].checksum
<1>1. Len(Mapped(KMSOf, mine)) = Len(mine) /\ \A j \in 1..Len(mine) : Mapped(KMSOf, mine)[j] = KMSOf[mine[j]]
  BY SealsTyped, MappedType
<1>2. i \in 1..Len(mine) /\ mine[i] \in AnyBlock
  BY <1>1
<1> QED BY <1>1, <1>2, PathWithChecksum

(* A configuration holds every block of its file or is refused: see        *)
(* BlocksSound.                                                            *)
LEMMA BlocksTaken ==
  ASSUME NEW list \in Seq(AnyBlock), NEW max \in Int, ~ Config!filterKMSes(list, max).err
  PROVE  LET seals == Config!filterKMSes(list, max).val
             types == Mapped(TypeOf, seals)
             names == Mapped(NameOf, list)
         IN  /\ seals \in Seq(AnySeal)
             /\ \A k \in 1..3 :
                  LET name == Config!BlockName[k]
                  IN  /\ Len(Only(types, {name})) = Len(Only(names, {name}))
                      /\ Limit(k, max) > 0 => Len(Only(types, {name})) <= Limit(k, max)
             /\ \A i \in 1..Len(seals) : seals[i].plugin = seals[i].checksum
<1> DEFINE mine(k) == Mine(list, k)
           a == Mapped(KMSOf, mine(1))
           b == Mapped(KMSOf, mine(2))
           c == Mapped(KMSOf, mine(3))
           seals == Config!filterKMSes(list, max).val
           name(k) == Config!BlockName[k]
           names == Mapped(NameOf, list)
           t(k) == Mapped(TypeOf, Mapped(KMSOf, mine(k)))
           types == Mapped(TypeOf, seals)
<1>1. /\ seals = (a \o b) \o c
      /\ \A k \in 1..3 : /\ mine(k) = Only(list, OfKind(name(k))) /\ mine(k) \in Seq(OfKind(name(k)))
                         /\ Limit(k, max) > 0 => Len(mine(k)) <= Limit(k, max)
                         /\ \A i \in 1..Len(mine(k)) : ~ Config!BlockFails(mine(k)[i])
  BY SealsOfFile
<1>2. name(1) # name(2) /\ name(1) # name(3) /\ name(2) # name(3)
  BY DEF Config!BlockName
<1>3. 1 \in 1..3 /\ 2 \in 1..3 /\ 3 \in 1..3 /\ \A k \in 1..3 : k = 1 \/ k = 2 \/ k = 3
  OBVIOUS
<1> HIDE DEF mine, name
<1>4. ASSUME NEW k \in 1..3 PROVE mine(k) \in Seq(AnyBlock)
  <2>1. mine(k) \in Seq(OfKind(name(k)))
    BY <1>1
  <2> QED BY <2>1 DEF OfKind
<1>5. ASSUME NEW k \in 1..3 PROVE Mapped(KMSOf, mine(k)) \in Seq(AnySeal)
  BY <1>4, SealsTyped, MappedType
<1>6. ASSUME NEW k \in 1..3 PROVE t(k) \in Seq({name(k)}) /\ Len(t(k)) = Len(mine(k))
  <2>1. mine(k) \in Seq(OfKind(name(k)))
    BY <1>1
  <2> QED BY <2>1, TypesOfKind
<1>7. ASSUME NEW k \in 1..3 PROVE Len(Only(names, {name(k)})) = Len(mine(k))
  BY <1>1, NamesOfKind
<1>8. a \in Seq(AnySeal) /\ b \in Seq(AnySeal) /\ c \in Seq(AnySeal)
  BY <1>3, <1>5
<1>9. types = (t(1) \o t(2)) \o t(3)
  <2>1. t(1) = Mapped(TypeOf, a) /\ t(2) = Mapped(TypeOf, b) /\ t(3) = Mapped(TypeOf, c)
    OBVIOUS
  <2> HIDE DEF t, a, b, c
  <2>2. Mapped(TypeOf, (a \o b) \o c) = (Mapped(TypeOf, a) \o Mapped(TypeOf, b)) \o Mapped(TypeOf, c)
    BY <1>8, TypesOfSeals
  <2> QED BY <1>1, <2>1, <2>2
<1>10. /\ t(1) \in Seq({name(1)}) /\ t(2) \in Seq({name(2)}) /\ t(3) \in Seq({name(3)})
  BY <1>3, <1>6
<1>11. ASSUME NEW i \in 1..Len(seals) PROVE seals[i].plugin = seals[i].checksum
  <2>1. ASSUME NEW k \in 1..3, NEW j \in 1..Len(Mapped(KMSOf, mine(k)))
        PROVE  Mapped(KMSOf, mine(k))[j].plugin = Mapped(KMSOf, mine(k))[j].checksum
    <3>1. \A n \in 1..Len(mine(k)) : ~ Config!BlockFails(mine(k)[n])
      BY <1>1
    <3> QED BY <1>4, <3>1, PluginsWhole
  <2>2. /\ \A j \in 1..Len(a) : a[j].plugin = a[j].checksum
        /\ \A j \in 1..Len(b) : b[j].plugin = b[j].checksum
        /\ \A j \in 1..Len(c) : c[j].plugin = c[j].checksum
    BY <1>3, <2>1
  <2> HIDE DEF a, b, c, seals
  <2>3. InSome(((a \o b) \o c)[i], a, b, c)
    <3>1. i \in 1..Len((a \o b) \o c)
      BY <1>1
    <3> QED BY <1>8, <3>1, InOneOfThree
  <2>4. InSome(seals[i], a, b, c)
    BY <1>1, <2>3
  <2> QED BY <2>2, <2>4 DEF InSome
<1>12. seals \in Seq(AnySeal)
  <2> HIDE DEF a, b, c, seals
  <2> QED BY <1>1, <1>8
<1> HIDE DEF types, t
<1>13. ASSUME NEW k \in 1..3 PROVE Len(Only(types, {name(k)})) = Len(mine(k))
  <2>1. /\ Len(Only(types, {name(1)})) = Len(t(1)) /\ Len(Only(types, {name(2)})) = Len(t(2))
        /\ Len(Only(types, {name(3)})) = Len(t(3))
    <3>1. CountOfNames((t(1) \o t(2)) \o t(3), name(1), name(2), name(3),
                       Len(t(1)), Len(t(2)), Len(t(3)))
      BY <1>2, <1>10, CountedOnce
    <3> QED BY <1>9, <3>1 DEF CountOfNames
  <2> QED BY <1>3, <1>6, <2>1
<1>14. ASSUME NEW k \in 1..3
       PROVE  /\ Len(Only(types, {name(k)})) = Len(Only(names, {name(k)}))
              /\ Limit(k, max) > 0 => Len(Only(types, {name(k)})) <= Limit(k, max)
  BY <1>1, <1>7, <1>13
<1> HIDE DEF seals
<1> QED BY <1>11, <1>12, <1>14 DEF types, name, seals

(* Every block of a file is in the configuration, in its order and within  *)
(* the limit of its kind, or the file is refused (filterKMSes, parseKMS).  *)
THEOREM Blocks == Answered /\ subject = "config" => Config!BlocksSound
<1> SUFFICES ASSUME Answered, subject = "config", Config!Called("parse"), ~ Config!returned.err
             PROVE  LET seals == Config!returned.val.seals
                        types == [i \in DOMAIN seals |-> seals[i].type]
                        names == [i \in DOMAIN args.blocks |-> args.blocks[i].name]
                    IN  /\ \A k \in DOMAIN Config!BlockName :
                             /\ Config!CountOf(Config!BlockName[k], types)
                                  = Config!CountOf(Config!BlockName[k], names)
                             /\ args.maxBlocks > 0 =>
                                  Config!CountOf(Config!BlockName[k], types) <= args.maxBlocks
                        /\ \A i \in DOMAIN seals : seals[i].plugin = seals[i].checksum
                        /\ LET shown == Config!Sanitized(Config!returned.val).seals
                           IN  \A i \in DOMAIN shown : DOMAIN shown[i] = {"type", "disabled"}
  BY DEF Config!BlocksSound
<1> DEFINE list == args.blocks
           max == args.maxBlocks
           file == Config!filterKMSes(list, max)
           seals == Config!returned.val.seals
           types == [i \in DOMAIN seals |-> seals[i].type]
           names == [i \in DOMAIN list |-> list[i].name]
<1>1. args \in Config!Inputs /\ result = <<Config!Call(args)>> /\ args.fn = "parse"
  BY DEF Answered, Config!Called, Config!Pending
<1>2. list \in Seq(AnyBlock) /\ max \in Int
  BY <1>1, InputsByFunction, FilesTyped
<1>3. Config!returned = Config!ParseConfig(args)
  BY <1>1 DEF Config!returned, Config!Call
<1>4. ~ file.err /\ seals = file.val
  BY <1>3 DEF Config!ParseConfig, Config!Error, Config!Ok
<1>5. \A i \in DOMAIN Config!Sanitized(Config!returned.val).seals :
        DOMAIN Config!Sanitized(Config!returned.val).seals[i] = {"type", "disabled"}
  BY DEF Config!Sanitized
<1>6. names = Mapped(NameOf, list)
  BY <1>2, NamesOfBlocks
<1> HIDE DEF list, max, seals
<1>7. LET all == Mapped(TypeOf, file.val)
          given == Mapped(NameOf, list)
      IN  /\ file.val \in Seq(AnySeal)
          /\ \A k \in 1..3 :
               LET name == Config!BlockName[k]
               IN  /\ Len(Only(all, {name})) = Len(Only(given, {name}))
                   /\ Limit(k, max) > 0 => Len(Only(all, {name})) <= Limit(k, max)
          /\ \A i \in 1..Len(file.val) : file.val[i].plugin = file.val[i].checksum
  BY <1>2, <1>4, BlocksTaken
<1>8. seals \in Seq(AnySeal) /\ DOMAIN seals = 1..Len(seals)
  BY <1>4, <1>7
<1>9. types = Mapped(TypeOf, seals)
  BY <1>8, TypesAreMapped
<1> HIDE DEF types, names, file
<1>10. ASSUME NEW k \in 1..3
       PROVE  LET name == Config!BlockName[k]
              IN  /\ Config!CountOf(name, types) = Config!CountOf(name, names)
                  /\ Limit(k, max) > 0 => Config!CountOf(name, types) <= Limit(k, max)
  BY <1>4, <1>6, <1>7, <1>9, ConfigOnly DEF Config!CountOf
<1>11. ASSUME NEW k \in 1..3
       PROVE  max > 0 => Config!CountOf(Config!BlockName[k], types) <= max
  <2>1. max > 0 => Limit(k, max) = max
    BY <1>2 DEF Limit
  <2> QED BY <1>10, <2>1
<1>12. DOMAIN Config!BlockName = 1..3
  BY DEF Config!BlockName
<1>13. \A i \in DOMAIN seals : seals[i].plugin = seals[i].checksum
  BY <1>4, <1>7, <1>8
<1> QED BY <1>5, <1>10, <1>11, <1>12, <1>13 DEF types, names, seals, list, max

(* configutil: the two parts of ConfigSound, for files with any number of  *)
(* blocks and any configurations.                                          *)
THEOREM ConfigurationSound == MCSpec => []ConfigSound
<1>1. Answered => ConfigSound
  BY Blocks, Merges DEF ConfigSound, Config!ConfigSound
<1> QED BY <1>1, Answers, PTL

-----------------------------------------------------------------------------
(* Listeners: which fields hold limits and which response headers.         *)
Limits == {"max_request_size", "max_request_duration", "x_forwarded_for_hop_skips"}
HeaderFields == {"custom_api_response_headers", "custom_ui_response_headers"}

OtherFields ==
  {"address", "cluster_address", "type", "purpose", "require_request_header", "tls_disable",
   "tls_cipher_suites", "tls_prefer_server_cipher_suites", "tls_require_and_verify_client_cert",
   "tls_disable_client_certs", "http_read_timeout", "http_read_header_timeout",
   "http_write_timeout", "http_idle_timeout", "proxy_protocol_authorized_addrs",
   "x_forwarded_for_authorized_addrs", "x_forwarded_for_reject_not_authorized",
   "x_forwarded_for_reject_not_present", "unauthenticated_metrics_access", "cors_enabled",
   "cors_disable_default_allowed_origin_values", "cors_allowed_origins", "cors_allowed_headers"}
OtherParsers == {"template", "type", "list", "bool", "duration", "proxy", "origins", "any"}

(* Limits are parsed as such, header fields as headers, others otherwise.  *)
KnownField ==
  [name : Limits, parser : {"nonnegative"}] \cup [name : HeaderFields, parser : {"headers"}]
  \cup [name : OtherFields, parser : OtherParsers]

LEMMA BoolsKnown ==
  ASSUME NEW names \in Seq(OtherFields)
  PROVE  Listener!Bools(names) \in Seq(KnownField)
<1>1. \A i \in 1..Len(names) : Listener!Field(names[i], "bool") \in KnownField
  BY DEF KnownField, Listener!Field, OtherParsers
<1>2. Listener!Bools(names) = [i \in 1..Len(names) |-> Listener!Field(names[i], "bool")]
  BY DEF Listener!Bools
<1>3. \A f \in [1..Len(names) -> KnownField] : f \in Seq(KnownField)
  OBVIOUS
<1> QED BY <1>1, <1>2, <1>3

LEMMA BothKnown ==
  ASSUME NEW s \in Seq(KnownField), NEW t \in Seq(KnownField)
  PROVE  s \o t \in Seq(KnownField)
OBVIOUS

LEMMA FieldKnown ==
  ASSUME NEW name, NEW parser,
         \/ name \in Limits /\ parser = "nonnegative"
         \/ name \in HeaderFields /\ parser = "headers"
         \/ name \in OtherFields /\ parser \in OtherParsers
  PROVE  Listener!Field(name, parser) \in KnownField
BY DEF KnownField, Listener!Field

LEMMA BlocksKnown ==
  /\ Listener!BaseValues \in Seq(KnownField) /\ Listener!RequestParameters \in Seq(KnownField)
  /\ Listener!TLSParameters \in Seq(KnownField) /\ Listener!HTTPTimeouts \in Seq(KnownField)
  /\ Listener!ProxyProtocol \in Seq(KnownField) /\ Listener!XForwardedFor \in Seq(KnownField)
  /\ Listener!Telemetry \in Seq(KnownField) /\ Listener!CORS \in Seq(KnownField)
  /\ Listener!HTTPHeaders \in Seq(KnownField)
<1>1. Listener!BaseValues \in Seq(KnownField)
  <2>1. /\ Listener!Field("address", "template") \in KnownField
        /\ Listener!Field("cluster_address", "template") \in KnownField
        /\ Listener!Field("type", "type") \in KnownField
        /\ Listener!Field("purpose", "list") \in KnownField
    BY FieldKnown DEF Limits, HeaderFields, OtherFields, OtherParsers
  <2> QED BY <2>1 DEF Listener!BaseValues
<1>2. Listener!RequestParameters \in Seq(KnownField)
  <2>1. /\ Listener!Field("max_request_size", "nonnegative") \in KnownField
        /\ Listener!Field("max_request_duration", "nonnegative") \in KnownField
        /\ Listener!Field("require_request_header", "bool") \in KnownField
    BY FieldKnown DEF Limits, HeaderFields, OtherFields, OtherParsers
  <2> QED BY <2>1 DEF Listener!RequestParameters
<1>3. Listener!TLSParameters \in Seq(KnownField)
  <2>1. /\ Listener!Field("tls_disable", "bool") \in KnownField
        /\ Listener!Field("tls_cipher_suites", "list") \in KnownField
    BY FieldKnown DEF Limits, HeaderFields, OtherFields, OtherParsers
  <2>2. <<Listener!Field("tls_disable", "bool"), Listener!Field("tls_cipher_suites", "list")>>
          \in Seq(KnownField)
    BY <2>1
  <2>3. <<"tls_prefer_server_cipher_suites", "tls_require_and_verify_client_cert",
          "tls_disable_client_certs">> \in Seq(OtherFields)
    BY DEF OtherFields
  <2>4. Listener!Bools(<<"tls_prefer_server_cipher_suites", "tls_require_and_verify_client_cert",
                         "tls_disable_client_certs">>) \in Seq(KnownField)
    BY <2>3, BoolsKnown
  <2> QED BY <2>2, <2>4, BothKnown DEF Listener!TLSParameters
<1>4. Listener!HTTPTimeouts \in Seq(KnownField)
  <2>1. /\ Listener!Field("http_read_timeout", "duration") \in KnownField
        /\ Listener!Field("http_read_header_timeout", "duration") \in KnownField
        /\ Listener!Field("http_write_timeout", "duration") \in KnownField
        /\ Listener!Field("http_idle_timeout", "duration") \in KnownField
    BY FieldKnown DEF Limits, HeaderFields, OtherFields, OtherParsers
  <2> QED BY <2>1 DEF Listener!HTTPTimeouts
<1>5. Listener!ProxyProtocol \in Seq(KnownField)
  <2>1. Listener!Field("proxy_protocol_authorized_addrs", "proxy") \in KnownField
    BY FieldKnown DEF Limits, HeaderFields, OtherFields, OtherParsers
  <2> QED BY <2>1 DEF Listener!ProxyProtocol
<1>6. Listener!XForwardedFor \in Seq(KnownField)
  <2>1. /\ Listener!Field("x_forwarded_for_authorized_addrs", "list") \in KnownField
        /\ Listener!Field("x_forwarded_for_hop_skips", "nonnegative") \in KnownField
    BY FieldKnown DEF Limits, HeaderFields, OtherFields, OtherParsers
  <2>2. <<Listener!Field("x_forwarded_for_authorized_addrs", "list"),
          Listener!Field("x_forwarded_for_hop_skips", "nonnegative")>> \in Seq(KnownField)
    BY <2>1
  <2>3. <<"x_forwarded_for_reject_not_authorized", "x_forwarded_for_reject_not_present">> \in Seq(OtherFields)
    BY DEF OtherFields
  <2>4. Listener!Bools(<<"x_forwarded_for_reject_not_authorized",
                         "x_forwarded_for_reject_not_present">>) \in Seq(KnownField)
    BY <2>3, BoolsKnown
  <2> QED BY <2>2, <2>4, BothKnown DEF Listener!XForwardedFor
<1>7. Listener!Telemetry \in Seq(KnownField)
  <2>1. <<"unauthenticated_metrics_access">> \in Seq(OtherFields)
    BY DEF OtherFields
  <2> QED BY <2>1, BoolsKnown DEF Listener!Telemetry
<1>8. Listener!CORS \in Seq(KnownField)
  <2>1. /\ Listener!Field("cors_allowed_origins", "origins") \in KnownField
        /\ Listener!Field("cors_allowed_headers", "any") \in KnownField
    BY FieldKnown DEF Limits, HeaderFields, OtherFields, OtherParsers
  <2>2. <<Listener!Field("cors_allowed_origins", "origins"),
          Listener!Field("cors_allowed_headers", "any")>> \in Seq(KnownField)
    BY <2>1
  <2>3. <<"cors_enabled", "cors_disable_default_allowed_origin_values">> \in Seq(OtherFields)
    BY DEF OtherFields
  <2>4. Listener!Bools(<<"cors_enabled", "cors_disable_default_allowed_origin_values">>)
          \in Seq(KnownField)
    BY <2>3, BoolsKnown
  <2> QED BY <2>2, <2>4, BothKnown DEF Listener!CORS
<1>9. Listener!HTTPHeaders \in Seq(KnownField)
  <2>1. /\ Listener!Field("custom_api_response_headers", "headers") \in KnownField
        /\ Listener!Field("custom_ui_response_headers", "headers") \in KnownField
    BY FieldKnown DEF Limits, HeaderFields, OtherFields, OtherParsers
  <2> QED BY <2>1 DEF Listener!HTTPHeaders
<1> QED BY <1>1, <1>2, <1>3, <1>4, <1>5, <1>6, <1>7, <1>8, <1>9

LEMMA FieldsKnown ==
  /\ DOMAIN Listener!Fields \subseteq Nat
  /\ \A i \in DOMAIN Listener!Fields : Listener!Fields[i] \in KnownField
<1>1. Listener!Fields \in Seq(KnownField)
  BY BlocksKnown, BothKnown DEF Listener!Fields
<1> QED BY <1>1

LEMMA HeaderNames == {Listener!HTTPHeaders[1].name, Listener!HTTPHeaders[2].name} = HeaderFields
BY DEF Listener!HTTPHeaders, Listener!Field, HeaderFields

LEMMA FieldsByName ==
  \A i \in DOMAIN Listener!Fields :
    LET field == Listener!Fields[i]
    IN  /\ field.name \in Limits => field.parser = "nonnegative"
        /\ field.parser = "headers" => field.name \in HeaderFields
        /\ field.name \in HeaderFields => field.parser = "headers"
<1>1. /\ \A name \in HeaderFields : name \notin Limits /\ name \notin OtherFields
      /\ \A name \in Limits : name \notin HeaderFields /\ name \notin OtherFields
  BY DEF Limits, HeaderFields, OtherFields
<1>2. "headers" \notin OtherParsers /\ "headers" # "nonnegative"
  BY DEF OtherParsers
<1>3. ASSUME NEW f \in KnownField
      PROVE  /\ f.name \in Limits => f.parser = "nonnegative"
             /\ f.parser = "headers" => f.name \in HeaderFields
             /\ f.name \in HeaderFields => f.parser = "headers"
  BY <1>1, <1>2 DEF KnownField
<1> QED BY <1>3, FieldsKnown

(* What a field that is not refused is taken for.                          *)
LEMMA FieldTaken ==
  ASSUME NEW field, NEW entry, NEW listener, ~ Listener!Refused(field, entry, listener)
  PROVE  LET parsed == Listener!ParsedField(field, entry)
         IN  /\ entry \in {"absent", parsed[2]} /\ entry # "bad" /\ parsed[1] = field.name
             /\ entry = "negative" => field.parser # "nonnegative"
             /\ entry = "absent" /\ parsed[2] = "standard" => field.parser = "headers"
             /\ entry = "absent" /\ field.parser = "headers" => parsed[2] = "standard"
BY Zenon DEF Listener!Refused, Listener!ParsedField

ListenerTaken(listener, parsed) ==
  \A name \in Listener!Names :
    LET entry == Listener!RawOf(listener, name)
    IN  /\ entry \in {"absent", parsed[name][2]}
        /\ entry # "bad" /\ parsed[name][1] = name
        /\ entry = "negative" => name \notin Limits
        /\ entry = "absent" => (parsed[name][2] = "standard" <=> name \in HeaderFields)

LEMMA ParsedTaken ==
  ASSUME NEW listener, Listener!RefusedFields(listener) = {}
  PROVE  ListenerTaken(listener, Listener!ParseListener(listener))
<1> SUFFICES ASSUME NEW name \in Listener!Names
             PROVE  LET entry == Listener!RawOf(listener, name)
                        parsed == Listener!ParseListener(listener)
                    IN  /\ entry \in {"absent", parsed[name][2]}
                        /\ entry # "bad" /\ parsed[name][1] = name
                        /\ entry = "negative" => name \notin Limits
                        /\ entry = "absent" => (parsed[name][2] = "standard" <=> name \in HeaderFields)
  BY DEF ListenerTaken
<1> DEFINE k == CHOOSE i \in DOMAIN Listener!Fields : Listener!Fields[i].name = name
           field == Listener!Fields[k]
           entry == Listener!RawOf(listener, name)
           parsed == Listener!ParsedField(field, entry)
<1>1. k \in DOMAIN Listener!Fields /\ field.name = name
  <2>1. \E i \in DOMAIN Listener!Fields : Listener!Fields[i].name = name
    BY DEF Listener!Names
  <2> QED BY <2>1
<1>2. Listener!ParseListener(listener)[name] = parsed
  BY DEF Listener!ParseListener
<1> HIDE DEF k
<1>3. ~ Listener!Refused(field, entry, listener)
  BY <1>1 DEF Listener!RefusedFields
<1>4. /\ field.name \in Limits => field.parser = "nonnegative"
      /\ field.parser = "headers" => field.name \in HeaderFields
      /\ field.name \in HeaderFields => field.parser = "headers"
  BY <1>1, FieldsByName
<1> HIDE DEF field, entry
<1>5. /\ entry \in {"absent", parsed[2]} /\ entry # "bad" /\ parsed[1] = field.name
      /\ entry = "negative" => field.parser # "nonnegative"
      /\ entry = "absent" /\ parsed[2] = "standard" => field.parser = "headers"
      /\ entry = "absent" /\ field.parser = "headers" => parsed[2] = "standard"
  BY <1>3, FieldTaken
<1> HIDE DEF parsed
<1> QED BY <1>1, <1>2, <1>4, <1>5 DEF entry

LEMMA ListenerSubjects ==
  /\ \A x \in Listener!ParseInputs : x.fn = "parse" /\ \E U : x.list \in Seq(U)
  /\ \A x \in Listener!ServerSettings : x.fn = "server"
  /\ \A x \in Listener!ClientInputs : x.fn \in {"client bytes", "client files", "client conf"}
<1>1. ASSUME NEW x \in Listener!ParseInputs PROVE x.fn = "parse" /\ \E U : x.list \in Seq(U)
  <2> DEFINE one == Listener!OneListener
             many == Listener!InList
  <2>1. x.fn = "parse" /\ x.list \in {<<y>> : y \in one} \cup Listener!SeqOf(many, MaxListeners)
    BY DEF Listener!ParseInputs
  <2> HIDE DEF one, many
  <2>2. ASSUME x.list \in {<<y>> : y \in one} PROVE x.list \in Seq(one)
    <3>1. PICK y \in one : x.list = <<y>>
      BY <2>2
    <3>2. <<y>> \in Seq(one)
      OBVIOUS
    <3> QED BY <3>1, <3>2
  <2>3. ASSUME x.list \in Listener!SeqOf(many, MaxListeners) PROVE x.list \in Seq(many)
    BY <2>3 DEF Listener!SeqOf
  <2> QED BY <2>1, <2>2, <2>3
<1>2. ASSUME NEW x \in Listener!ServerSettings PROVE x.fn = "server"
  BY Zenon DEF Listener!ServerSettings
<1>3. ASSUME NEW x \in Listener!ClientInputs
      PROVE  x.fn \in {"client bytes", "client files", "client conf"}
  <2>1. ASSUME x \in Listener!ClientConf PROVE x.fn = "client conf"
    BY <2>1, Zenon DEF Listener!ClientConf
  <2>2. ASSUME x \in Listener!ClientFiles PROVE x.fn \in {"client bytes", "client files"}
    BY <2>2, Zenon DEF Listener!ClientFiles
  <2> QED BY <2>1, <2>2, Zenon DEF Listener!ClientInputs
<1> QED BY <1>1, <1>2, <1>3, Zenon

LEMMA ListenerArguments ==
  \A x \in Listener!Inputs :
    /\ x.fn = "parse" => \E U : x.list \in Seq(U)
    /\ x.fn = "server" => x \in Listener!ServerSettings
    /\ x.fn \in {"client bytes", "client files", "client conf"} => x \in Listener!ClientInputs
<1>1. "parse" \notin {"server", "client bytes", "client files", "client conf"}
      /\ "server" \notin {"client bytes", "client files", "client conf"}
  OBVIOUS
<1> QED BY <1>1, ListenerSubjects, Zenon DEF Listener!Inputs

(* What a list of listeners is taken for.                                  *)
LEMMA ListTaken ==
  ASSUME NEW U, NEW list \in Seq(U)
  PROVE  LET parsed == Listener!ParseListeners(list)
         IN  /\ parsed.err = "" =>
                  /\ Len(parsed.listeners) = Len(list)
                  /\ \A i \in DOMAIN list : ListenerTaken(list[i], parsed.listeners[i])
             /\ parsed.err # "" =>
                  \E i \in DOMAIN list :
                    parsed.at[1] = i /\ \A j \in 1..i - 1 : Listener!RefusedFields(list[j]) = {}
<1> DEFINE failing == {i \in DOMAIN list : Listener!RefusedFields(list[i]) # {}}
           first == CHOOSE i \in failing : \A j \in failing : i <= j
           field == CHOOSE f \in Listener!RefusedFields(list[first]) :
                      \A g \in Listener!RefusedFields(list[first]) : f <= g
           all == [i \in DOMAIN list |-> Listener!ParseListener(list[i])]
           parsed == Listener!ParseListeners(list)
<1>1. DOMAIN list = 1..Len(list) /\ Len(list) \in Nat
  OBVIOUS
<1>2. parsed = IF failing # {} THEN Listener!Error(<<first, Listener!Fields[field].name>>)
               ELSE [err |-> "", listeners |-> all]
  BY DEF Listener!ParseListeners
<1>3. \A i \in DOMAIN list : i \notin failing => Listener!RefusedFields(list[i]) = {}
  OBVIOUS
<1>4. failing \subseteq DOMAIN list
  OBVIOUS
<1>5. first = CHOOSE i \in failing : \A j \in failing : i <= j
  OBVIOUS
<1>6. /\ DOMAIN all = DOMAIN list
      /\ \A i \in DOMAIN list : all[i] = Listener!ParseListener(list[i])
  OBVIOUS
<1>7. Len(all) = Len(list)
  BY <1>1
<1> HIDE DEF failing, first, field, all, parsed
<1>8. CASE failing = {}
  <2>1. parsed.err = "" /\ parsed.listeners = all
    BY <1>2, <1>8, Zenon
  <2>2. \A i \in DOMAIN list : ListenerTaken(list[i], all[i])
    BY <1>3, <1>6, <1>8, ParsedTaken
  <2> QED BY <1>7, <2>1, <2>2, Zenon DEF parsed
<1>9. CASE failing # {}
  <2>1. parsed.err # "" /\ parsed.at[1] = first
    BY <1>2, <1>9 DEF Listener!Error
  <2>2. failing \subseteq Nat
    BY <1>1, <1>4
  <2>3. first \in failing /\ \A j \in failing : first <= j
    <3>1. \E i \in failing : \A j \in failing : i <= j
      BY <1>9, <2>2, Smallest
    <3> QED BY <1>5, <3>1
  <2>4. ASSUME NEW j \in 1..first - 1 PROVE Listener!RefusedFields(list[j]) = {}
    <3>1. j \in DOMAIN list /\ ~ (first <= j)
      BY <1>1, <1>4, <2>3
    <3> QED BY <1>3, <2>3, <3>1
  <2>5. first \in DOMAIN list
    BY <1>4, <2>3
  <2> QED BY <2>1, <2>4, <2>5, Zenon DEF parsed
<1> QED BY <1>8, <1>9, Zenon

(* The TLS settings of servers and of clients.                             *)
LEMMA VersionsInOrder ==
  ASSUME NEW m \in {0, 10, 11, 12, 13}, NEW n \in {0, 10, 11, 12, 13}, m # 0, n # 0, ~ (n < m)
  PROVE  m <= n /\ m \in 10..13 /\ n \in 10..13
OBVIOUS

LEMMA ConfSettings ==
  ASSUME NEW c, NEW pool, Listener!SetupTLSConfig(c).err = "",
         pool = IF c.ca = "" THEN "system" ELSE "ca"
  PROVE  LET tls == Listener!SetupTLSConfig(c)
         IN  tls.roots = pool /\ (tls.certificate <=> Listener!PairGiven(c))
<1> DEFINE min == IF c.minSet THEN Listener!TLSLookup(c.min) ELSE 12
           skip == c.skip = "true"
           given == Listener!PairGiven(c)
           failed == \/ c.address = "bad" \/ c.skip = "bad" \/ min = 0
                     \/ Listener!Present(c.cert) # Listener!Present(c.key)
                     \/ Listener!PairGiven(c) /\ ~ Listener!PairLoads(c)
                     \/ c.ca \in {"bad", "unreadable"}
           tls == Listener!SetupTLSConfig(c)
<1>1. tls = IF failed THEN Listener!Error("params")
            ELSE [err |-> "", roots |-> pool, min |-> min, skipVerify |-> skip, certificate |-> given]
  BY Zenon DEF Listener!SetupTLSConfig, Listener!ClientSettings
<1>2. given \in BOOLEAN
  BY Zenon DEF Listener!PairGiven
<1> HIDE DEF min, skip, given, failed
<1>3. ~ failed
  <2>1. Listener!Error("params").err # ""
    BY Zenon DEF Listener!Error
  <2>2. failed => tls = Listener!Error("params")
    BY <1>1, Zenon
  <2> QED BY <2>1, <2>2, Zenon
<1> HIDE DEF tls
<1>4. tls.roots = pool /\ tls.certificate = given
  BY <1>1, <1>3, Zenon
<1> QED BY <1>2, <1>4, Zenon DEF tls, given

LEMMA VersionTwelve == \A min : min = 12 => ~ (min < 12)
OBVIOUS

LEMMA UsualSettings ==
  ASSUME NEW c, NEW pool, NEW tls, tls = Listener!ClientSettings(c, pool, 12, FALSE)
  PROVE  /\ tls.roots = pool /\ (tls.certificate <=> Listener!PairGiven(c))
         /\ ~ (tls.min < 12 \/ tls.skipVerify)
<1>1. tls.roots = pool /\ tls.min = 12 /\ tls.skipVerify = FALSE
  BY Zenon DEF Listener!ClientSettings
<1>2. tls.certificate <=> Listener!PairGiven(c)
  BY Zenon DEF Listener!ClientSettings, Listener!PairGiven, Listener!Present
<1>3. ~ (tls.min < 12)
  BY <1>1, VersionTwelve, Zenon
<1>4. ~ tls.skipVerify
  BY <1>1, Zenon
<1> QED BY <1>1, <1>2, <1>3, <1>4, Zenon

LEMMA ServersSound ==
  ASSUME NEW listener \in Listener!ServerSettings
  PROVE  LET tls == Listener!TLSConfig(listener)
         IN  tls.err = "" /\ tls.tls = "enabled" =>
               /\ tls.min <= tls.max /\ tls.min \in 10..13 /\ tls.max \in 10..13
               /\ tls.served = tls.reload /\ tls.served # "none"
               /\ tls.clientAuth = "none" => ~ listener.require
               /\ listener.require => tls.clientAuth = "require and verify"
                               /\ (tls.clientCAs = "configured" <=> listener.ca # "")
<1> DEFINE min == Listener!TLSLookup(Listener!Orelse(listener.min, "tls12"))
           max == Listener!TLSLookup(Listener!Orelse(listener.max, "tls13"))
           getter == Listener!Getter(listener.load)
           tls == Listener!TLSConfig(listener)
           auth == IF listener.require THEN "require and verify"
                   ELSE IF listener.noClientCerts THEN "none" ELSE "request"
           cas == IF listener.require /\ listener.ca = "valid" THEN "configured" ELSE "system"
<1> SUFFICES ASSUME tls.err = "", tls.tls = "enabled"
             PROVE  /\ tls.min <= tls.max /\ tls.min \in 10..13 /\ tls.max \in 10..13
                    /\ tls.served = tls.reload /\ tls.served # "none"
                    /\ tls.clientAuth = "none" => ~ listener.require
                    /\ listener.require => tls.clientAuth = "require and verify"
                                    /\ (tls.clientCAs = "configured" <=> listener.ca # "")
  BY Zenon
<1>1. min \in {0, 10, 11, 12, 13} /\ max \in {0, 10, 11, 12, 13}
  BY Zenon DEF Listener!TLSLookup
<1>2. tls = IF listener.disable THEN [err |-> "", tls |-> "disabled"]
            ELSE IF getter = "none" THEN Listener!Error("certificate")
            ELSE IF min = 0 \/ max = 0 \/ max < min THEN Listener!Error("version")
            ELSE IF listener.require /\ listener.ca \in {"unreadable", "invalid"} THEN Listener!Error("ca")
            ELSE IF listener.noClientCerts /\ listener.require THEN Listener!Error("exclusive")
            ELSE [err |-> "", tls |-> "enabled", min |-> min, max |-> max,
                  served |-> getter, reload |-> getter,
                  warning |-> Listener!Warning(listener.ciphers), clientAuth |-> auth, clientCAs |-> cas]
  BY Zenon DEF Listener!TLSConfig
<1>3. /\ listener.require \in BOOLEAN /\ listener.noClientCerts \in BOOLEAN /\ listener.disable \in BOOLEAN
      /\ listener.ca \in {"", "unreadable", "invalid", "valid"}
  BY Zenon DEF Listener!ServerSettings
<1> HIDE DEF min, max, getter, auth, cas, tls
<1>4. \A what : Listener!Error(what).err # ""
  BY Zenon DEF Listener!Error
<1>5. /\ getter # "none" /\ min # 0 /\ max # 0 /\ ~ (max < min)
      /\ ~ (listener.require /\ listener.ca \in {"unreadable", "invalid"})
      /\ tls.min = min /\ tls.max = max /\ tls.served = getter /\ tls.reload = getter
      /\ tls.clientAuth = auth /\ tls.clientCAs = cas
  BY <1>2, <1>4, Zenon
<1>6. min <= max /\ min \in 10..13 /\ max \in 10..13
  <2>1. min # 0 /\ max # 0 /\ ~ (max < min)
    BY <1>5, Zenon
  <2> QED BY <1>1, <2>1, VersionsInOrder, Zenon
<1>7. /\ auth = "none" => ~ listener.require
      /\ listener.require => auth = "require and verify" /\ (cas = "configured" <=> listener.ca # "")
  BY <1>3, <1>5, Zenon DEF auth, cas
<1> QED BY <1>5, <1>6, <1>7, Zenon

LEMMA ClientsSound ==
  ASSUME NEW c \in Listener!ClientInputs,
         NEW tls, tls = Listener!Call(c), tls.err = ""
  PROVE  /\ tls.roots = "system" <=> c.ca = ""
         /\ tls.certificate <=> Listener!PairGiven(c)
         /\ tls.min < 12 \/ tls.skipVerify => c.fn = "client conf"
<1>1. c.ca \in {"", "bad", "unreadable", "good"}
  BY Zenon DEF Listener!ClientInputs, Listener!ClientFiles, Listener!ClientConf
<1>2. c.fn \in {"client bytes", "client files", "client conf"}
  BY ListenerSubjects, Zenon
<1>3. \A what : Listener!Error(what).err # ""
  BY Zenon DEF Listener!Error
<1>5. CASE c.fn = "client bytes"
  <2> DEFINE pool == CASE c.ca = "" -> "system" [] c.ca = "good" -> "ca" [] OTHER -> "nothing"
  <2>1. tls = Listener!ClientTLSConfig(c)
    BY <1>5, Zenon DEF Listener!Call
  <2>2. tls = Listener!ClientSettings(c, pool, 12, FALSE)
    BY <1>3, <2>1, Zenon DEF Listener!ClientTLSConfig
  <2>3. pool = "system" <=> c.ca = ""
    BY <1>1, Zenon
  <2> HIDE DEF pool
  <2>4. /\ tls.roots = pool /\ (tls.certificate <=> Listener!PairGiven(c))
        /\ ~ (tls.min < 12 \/ tls.skipVerify)
    BY <2>2, UsualSettings, Zenon
  <2> QED BY <2>3, <2>4, Zenon
<1>6. CASE c.fn = "client files"
  <2> DEFINE pool == IF c.ca = "" THEN "system" ELSE "ca"
  <2>1. tls = Listener!LoadClientTLSConfig(c)
    BY <1>6, Zenon DEF Listener!Call
  <2>2. tls = Listener!ClientSettings(c, pool, 12, FALSE)
    BY <1>3, <2>1, Zenon DEF Listener!LoadClientTLSConfig
  <2>3. pool = "system" <=> c.ca = ""
    BY <1>1, Zenon
  <2> HIDE DEF pool
  <2>4. /\ tls.roots = pool /\ (tls.certificate <=> Listener!PairGiven(c))
        /\ ~ (tls.min < 12 \/ tls.skipVerify)
    BY <2>2, UsualSettings, Zenon
  <2> QED BY <2>3, <2>4, Zenon
<1>7. CASE c.fn = "client conf"
  <2> DEFINE pool == IF c.ca = "" THEN "system" ELSE "ca"
  <2>1. tls = Listener!SetupTLSConfig(c)
    BY <1>7, Zenon DEF Listener!Call
  <2>3. pool = "system" <=> c.ca = ""
    BY <1>1, Zenon
  <2>4. tls.roots = pool /\ (tls.certificate <=> Listener!PairGiven(c))
    BY <2>1, ConfSettings, Zenon
  <2> HIDE DEF pool
  <2> QED BY <1>7, <2>3, <2>4, Zenon
<1> QED BY <1>2, <1>5, <1>6, <1>7, Zenon

(* Listeners are taken as configured or refused, and serve what they       *)
(* reload (ParseListeners, TLSConfig, ClientTLSConfig).                    *)
THEOREM ListenersAsConfigured == MCSpec => []ListenersSound
<1>1. ASSUME Answered, subject = "listeners", Listener!Called("parse")
      PROVE  LET parsed == Listener!ParseListeners(args.list)
             IN  /\ Listener!returned = parsed /\ \E U : args.list \in Seq(U)
  <2>1. args \in Listener!Inputs /\ result = <<Listener!Call(args)>> /\ args.fn = "parse"
    BY <1>1 DEF Answered, Listener!Called, Listener!Pending
  <2> QED BY <2>1, ListenerArguments, Zenon DEF Listener!returned, Listener!Call
<1>2. ASSUME Answered, subject = "listeners" PROVE Listener!AllOrNothing
  <2> DEFINE parsed == Listener!ParseListeners(args.list)
  <2>1. ASSUME Listener!Called("parse")
        PROVE  /\ Listener!returned = parsed
               /\ parsed.err = "" =>
                    /\ Len(parsed.listeners) = Len(args.list)
                    /\ \A i \in DOMAIN args.list : ListenerTaken(args.list[i], parsed.listeners[i])
               /\ parsed.err # "" =>
                    \E i \in DOMAIN args.list :
                      /\ parsed.at[1] = i
                      /\ \A j \in 1..i - 1 : Listener!RefusedFields(args.list[j]) = {}
    <3>1. PICK U : args.list \in Seq(U)
      BY <1>1, <1>2, <2>1
    <3>2. Listener!returned = parsed
      BY <1>1, <1>2, <2>1
    <3> QED BY <3>1, <3>2, ListTaken, Zenon
  <2> HIDE DEF parsed
  <2>2. ASSUME Listener!Succeeded("parse")
        PROVE  /\ Len(Listener!returned.listeners) = Len(args.list)
               /\ \A i \in DOMAIN args.list :
                    ListenerTaken(args.list[i], Listener!returned.listeners[i])
    BY <2>1, <2>2, Zenon DEF Listener!Succeeded
  <2>3. ASSUME Listener!Called("parse"), Listener!returned.err # ""
        PROVE  \E i \in DOMAIN args.list :
                 /\ Listener!returned.at[1] = i
                 /\ \A j \in 1..i - 1 : Listener!RefusedFields(args.list[j]) = {}
    BY <2>1, <2>3, Zenon
  <2>4. ASSUME Listener!Succeeded("parse"), NEW i \in DOMAIN args.list, NEW name \in Listener!Names
        PROVE  LET entry == Listener!RawOf(args.list[i], name)
                   parsed1 == Listener!returned.listeners[i]
               IN  /\ entry \in {"absent", parsed1[name][2]}
                   /\ entry # "bad" /\ parsed1[name][1] = name
                   /\ entry = "negative" => name \notin {"max_request_size", "max_request_duration",
                                                       "x_forwarded_for_hop_skips"}
                   /\ entry = "absent" =>
                        (parsed1[name][2] = "standard" <=>
                           name \in {Listener!HTTPHeaders[1].name, Listener!HTTPHeaders[2].name})
    <3>1. ListenerTaken(args.list[i], Listener!returned.listeners[i])
      BY <2>2, <2>4
    <3> DEFINE parsed1 == Listener!returned.listeners[i]
               l1 == args.list[i]
    <3>2. ListenerTaken(l1, parsed1)
      BY <3>1
    <3> HIDE DEF parsed1, l1
    <3>3. LET entry == Listener!RawOf(l1, name)
          IN  /\ entry \in {"absent", parsed1[name][2]}
              /\ entry # "bad" /\ parsed1[name][1] = name
              /\ entry = "negative" => name \notin Limits
              /\ entry = "absent" => (parsed1[name][2] = "standard" <=> name \in HeaderFields)
      BY <3>2 DEF ListenerTaken
    <3> QED BY <3>3, HeaderNames DEF parsed1, l1, Limits
  <2>5. Listener!Succeeded("parse") => Len(Listener!returned.listeners) = Len(args.list)
    BY <2>2
  <2> QED BY <2>3, <2>4, <2>5, Zenon DEF Listener!AllOrNothing
<1>3. ASSUME Answered, subject = "listeners" PROVE Listener!ServedConsistently
  <2> SUFFICES ASSUME Listener!Succeeded("server"), Listener!returned.tls = "enabled"
               PROVE  /\ Listener!returned.min <= Listener!returned.max
                      /\ Listener!returned.min \in 10..13 /\ Listener!returned.max \in 10..13
                      /\ Listener!returned.served = Listener!returned.reload
                      /\ Listener!returned.served # "none"
                      /\ Listener!returned.clientAuth = "none" => ~ args.require
                      /\ args.require =>
                           /\ Listener!returned.clientAuth = "require and verify"
                           /\ (Listener!returned.clientCAs = "configured" <=> args.ca # "")
    BY Zenon DEF Listener!ServedConsistently
  <2>1. args \in Listener!Inputs /\ result = <<Listener!Call(args)>> /\ args.fn = "server"
    BY <1>3, Zenon DEF Answered, Listener!Succeeded, Listener!Called, Listener!Pending
  <2>2. Listener!returned = Listener!TLSConfig(args) /\ Listener!returned.err = ""
    BY <2>1, Zenon DEF Listener!returned, Listener!Call, Listener!Succeeded
  <2>3. args \in Listener!ServerSettings
    BY <2>1, ListenerArguments, Zenon
  <2> QED BY <2>2, <2>3, ServersSound, Zenon
<1>4. ASSUME Answered, subject = "listeners" PROVE Listener!ClientsVerify
  <2> SUFFICES ASSUME NEW fn \in {"client bytes", "client files", "client conf"},
                      Listener!Succeeded(fn)
               PROVE  /\ Listener!returned.roots = "system" <=> args.ca = ""
                      /\ Listener!returned.certificate <=> Listener!PairGiven(args)
                      /\ Listener!returned.min < 12 \/ Listener!returned.skipVerify => fn = "client conf"
    BY Zenon DEF Listener!ClientsVerify
  <2>1. args \in Listener!Inputs /\ result = <<Listener!Call(args)>> /\ args.fn = fn
    BY <1>4, Zenon DEF Answered, Listener!Succeeded, Listener!Called, Listener!Pending
  <2>2. Listener!returned = Listener!Call(args) /\ Listener!returned.err = ""
    BY <2>1, Zenon DEF Listener!returned, Listener!Succeeded
  <2>3. args \in Listener!ClientInputs
    BY <2>1, ListenerArguments, Zenon
  <2> QED BY <2>1, <2>2, <2>3, ClientsSound, Zenon
<1>5. Answered => ListenersSound
  BY <1>2, <1>3, <1>4 DEF ListenersSound, Listener!ListenersSound
<1> QED BY <1>5, Answers, PTL

-----------------------------------------------------------------------------
(* StrUtil: lists in its instance are lists.                               *)
LEMMA StrSorted == \A S, code : Str!SortedBy(S, code) = SortedBy(S, code)
BY DEF Str!SortedBy, SortedBy, Str!Cardinality, Cardinality

(* What is numbered without repetition up to a bound is finite.            *)
LEMMA FiniteIfNumbered ==
  ASSUME NEW S, NEW code, NEW m \in Int, \A x \in S : code[x] \in 0..m,
         \A x, y \in S : code[x] = code[y] => x = y
  PROVE  Coded(S, code)
<1> DEFINE f == [x \in S |-> code[x]]
<1>1. f \in Injection(S, 0..m)
  BY DEF Injection, IsInjective
<1>2. IsFiniteSet(0..m)
  BY FS_Interval
<1> HIDE DEF f
<1>3. IsFiniteSet(S)
  BY <1>1, <1>2, FS_Injection
<1> QED BY <1>3 DEF Coded

(* The elements of a sorted list are those of the set, once each.          *)
LEMMA SortedElements ==
  ASSUME NEW S, NEW code, Coded(S, code)
  PROVE  /\ Str!SortedBy(S, code) \in Seq(S) /\ Len(Str!SortedBy(S, code)) = Cardinality(S)
         /\ Str!ToSet(Str!SortedBy(S, code)) = S
         /\ Str!NoDuplicates(Str!SortedBy(S, code))
<1> DEFINE s == SortedBy(S, code)
<1>1. Str!SortedBy(S, code) = s
  BY StrSorted
<1>2. /\ s \in Seq(S) /\ Len(s) = Cardinality(S)
      /\ \A x \in S : \E i \in 1..Cardinality(S) : s[i] = x
  BY SortedIs
<1>3. \A i, j \in 1..Cardinality(S) : s[i] = s[j] => i = j
  BY SortedOnce
<1> HIDE DEF s
<1>4. Str!ToSet(s) = S
  BY <1>2 DEF Str!ToSet
<1>5. Str!NoDuplicates(s)
  BY <1>2, <1>3 DEF Str!NoDuplicates
<1> QED BY <1>1, <1>2, <1>4, <1>5

(* The order of strings tells them apart.                                  *)
LEMMA StrType ==
  ASSUME NEW s \in Str!Str
  PROVE  /\ s.word \in 0..Words /\ s.upper \in BOOLEAN /\ s.space \in BOOLEAN
         /\ s = [word |-> s.word, upper |-> s.upper, space |-> s.space]
BY DEF Str!Str

(* The order of strings numbers them.                                      *)
LEMMA OrderIs ==
  ASSUME NEW s \in Str!Str
  PROVE  \E k \in 0..3 :
           /\ Str!Order[s] = k * (Words + 1) + s.word
           /\ k = (IF s.space THEN 0 ELSE 2) + (IF s.upper THEN 0 ELSE 1)
BY StrType DEF Str!Order

LEMMA StrCoded == ASSUME NEW S, S \subseteq Str!Str PROVE Coded(S, Str!Order)
<1> DEFINE N == Words + 1
<1>1. N \in Nat \ {0} /\ Words \in Nat
  BY ListsAssumption
<1>2. ASSUME NEW x \in S PROVE Str!Order[x] \in 0..4 * N
  <2>1. PICK k \in 0..3 : Str!Order[x] = k * N + x.word
    BY OrderIs
  <2>2. x.word \in 0..Words
    BY StrType
  <2>3. k = 0 \/ k = 1 \/ k = 2 \/ k = 3
    OBVIOUS
  <2> HIDE DEF N
  <2>4. x.word \in 0..N
    BY <1>1, <2>2 DEF N
  <2> QED BY <1>1, <2>1, <2>3, <2>4
<1>3. ASSUME NEW x \in S, NEW y \in S, Str!Order[x] = Str!Order[y] PROVE x = y
  <2>1. PICK j \in 0..3 : /\ Str!Order[x] = j * N + x.word
                          /\ j = (IF x.space THEN 0 ELSE 2) + (IF x.upper THEN 0 ELSE 1)
    BY OrderIs
  <2>2. PICK k \in 0..3 : /\ Str!Order[y] = k * N + y.word
                          /\ k = (IF y.space THEN 0 ELSE 2) + (IF y.upper THEN 0 ELSE 1)
    BY OrderIs
  <2>3. x.word \in 0..N - 1 /\ y.word \in 0..N - 1
    BY <1>1, StrType
  <2>4. j * N + x.word = k * N + y.word
    BY <1>3, <2>1, <2>2
  <2>5. j = k /\ x.word = y.word
    <3> HIDE DEF N
    <3>1. (j = 0 \/ j = 1 \/ j = 2 \/ j = 3) /\ (k = 0 \/ k = 1 \/ k = 2 \/ k = 3)
      OBVIOUS
    <3> QED BY <1>1, <2>3, <2>4, <3>1
  <2>6. x.space = y.space /\ x.upper = y.upper
    BY <2>1, <2>2, <2>5, StrType
  <2> QED BY <2>5, <2>6, StrType
<1>4. 4 * N \in Int
  BY <1>1
<1> HIDE DEF N
<1> QED BY <1>2, <1>3, <1>4, FiniteIfNumbered

(* Folding: what is folded stays as it is, and only an empty string folds  *)
(* to nothing.                                                             *)
LEMMA ItemType == ASSUME NEW x \in Str!Item PROVE x \in Str!Str /\ (x.word = 0 => ~ x.upper)
BY DEF Str!Item

(* A folded string is a string again, and its own key.                     *)
LEMMA FoldedIs ==
  ASSUME NEW s \in Str!Str, NEW fold \in BOOLEAN
  PROVE  /\ Str!Folded(s, fold) = [word |-> s.word, upper |-> s.upper /\ ~ fold, space |-> FALSE]
         /\ Str!Folded(s, fold) \in Str!Str
         /\ Str!Folded(Str!Folded(s, fold), fold) = Str!Folded(s, fold)
         /\ Str!Folded(Str!ToLower(s), TRUE) = Str!Folded(s, TRUE)
BY DEF Str!Folded, Str!ToLower, Str!TrimSpace, Str!Str

LEMMA FoldedEmpty ==
  ASSUME NEW x \in Str!Item, NEW fold \in BOOLEAN
  PROVE  Str!TrimSpace(x) # Str!Empty <=> Str!Folded(x, fold) # Str!Empty
BY DEF Str!Folded, Str!ToLower, Str!TrimSpace, Str!Str, Str!Item, Str!Empty

(* Keys: the folded items but the empty one.                               *)
LEMMA KeysAre ==
  ASSUME NEW items \in Seq(Str!Str), NEW fold \in BOOLEAN
  PROVE  /\ Str!Keys(items, fold) \subseteq Str!Str
         /\ Coded(Str!Keys(items, fold), Str!Order)
         /\ \A key : key \in Str!Keys(items, fold)
               <=> key # Str!Empty /\ \E i \in 1..Len(items) : key = Str!Folded(items[i], fold)
         /\ \A key \in Str!Keys(items, fold) : Str!Folded(key, fold) = key
<1>1. ASSUME NEW i \in 1..Len(items)
      PROVE  /\ Str!Folded(items[i], fold) \in Str!Str
             /\ Str!Folded(Str!Folded(items[i], fold), fold) = Str!Folded(items[i], fold)
  <2>1. items[i] \in Str!Str
    OBVIOUS
  <2> QED BY <2>1, FoldedIs
<1>2. DOMAIN items = 1..Len(items)
  OBVIOUS
<1>3. Str!Keys(items, fold) \subseteq Str!Str
  BY <1>1, <1>2 DEF Str!Keys
<1> QED BY <1>1, <1>2, <1>3, StrCoded DEF Str!Keys

(* RemoveDuplicates keeps one string of each key, in order.                *)
LEMMA RemoveDuplicatesIs ==
  ASSUME NEW items \in Seq(Str!Str), NEW fold \in BOOLEAN
  PROVE  /\ Str!RemoveDuplicates(items, fold) \in Seq(Str!Str)
         /\ Str!ToSet(Str!RemoveDuplicates(items, fold)) = Str!Keys(items, fold)
         /\ Str!NoDuplicates(Str!RemoveDuplicates(items, fold))
         /\ Len(Str!RemoveDuplicates(items, fold)) = Cardinality(Str!Keys(items, fold))
<1> DEFINE keys == Str!Keys(items, fold)
           s == Str!SortedBy(keys, Str!Order)
<1>1. Str!RemoveDuplicates(items, fold) = s
  BY DEF Str!RemoveDuplicates, Str!Sorted, Str!Keys
<1>2. keys \subseteq Str!Str /\ Coded(keys, Str!Order)
  BY KeysAre
<1> HIDE DEF keys
<1>3. /\ s \in Seq(keys) /\ Len(s) = Cardinality(keys)
      /\ Str!ToSet(s) = keys /\ Str!NoDuplicates(s)
  BY <1>2, SortedElements
<1> HIDE DEF s
<1>4. s \in Seq(Str!Str)
  BY <1>2, <1>3
<1> QED BY <1>1, <1>3, <1>4 DEF keys

LEMMA SeqOfIs ==
  ASSUME NEW S, NEW n \in Nat, NEW s \in Str!SeqOf(S, n) PROVE s \in Seq(S)
<1>1. PICK m \in 0..n : s \in [1..m -> S]
  BY DEF Str!SeqOf
<1> QED BY <1>1

(* Every key is that of a first place, and of one only.                    *)
LEMMA FirstPlaceOf ==
  ASSUME NEW items \in Seq(Str!Item), NEW fold \in BOOLEAN
  PROVE  /\ Str!FirstPlaces(items, fold) \subseteq 1..Len(items)
         /\ \A i \in Str!FirstPlaces(items, fold) :
              Str!Folded(items[i], fold) \in Str!Keys(items, fold)
         /\ \A i, j \in Str!FirstPlaces(items, fold) :
              Str!Folded(items[i], fold) = Str!Folded(items[j], fold) => i = j
         /\ \A key \in Str!Keys(items, fold) :
              \E i \in Str!FirstPlaces(items, fold) : key = Str!Folded(items[i], fold)
<1> DEFINE places == Str!FirstPlaces(items, fold)
           key(i) == Str!Folded(items[i], fold)
           n == Len(items)
<1>1. n \in Nat /\ DOMAIN items = 1..n
  OBVIOUS
<1>2. ASSUME NEW i \in 1..n
      PROVE  i \in places <=> key(i) # Str!Empty /\ \A j \in 1..i - 1 : key(j) # key(i)
  <2>1. items[i] \in Str!Item
    OBVIOUS
  <2>2. Str!TrimSpace(items[i]) # Str!Empty <=> key(i) # Str!Empty
    BY <2>1, FoldedEmpty
  <2> QED BY <1>1, <2>2 DEF Str!FirstPlaces
<1>3. places \subseteq 1..n
  BY <1>1 DEF Str!FirstPlaces
<1>4. ASSUME NEW k
      PROVE  k \in Str!Keys(items, fold) <=> k # Str!Empty /\ \E i \in 1..n : k = key(i)
  BY <1>1 DEF Str!Keys
<1> HIDE DEF places, key
<1>5. \A i \in places : key(i) \in Str!Keys(items, fold)
  BY <1>2, <1>3, <1>4
<1>6. ASSUME NEW i \in places, NEW j \in places, key(i) = key(j) PROVE i = j
  <2>1. i \in 1..n /\ j \in 1..n
    BY <1>3
  <2>2. ~ (i < j) /\ ~ (j < i)
    BY <1>2, <1>6, <2>1
  <2> HIDE DEF n
  <2> QED BY <1>1, <2>1, <2>2
<1>7. ASSUME NEW k \in Str!Keys(items, fold) PROVE \E i \in places : k = key(i)
  <2> DEFINE T == {i \in 1..n : k = key(i)}
  <2>1. T # {} /\ T \subseteq Nat /\ k # Str!Empty
    BY <1>4, <1>7
  <2>2. PICK i \in T : \A m \in T : i <= m
    BY <2>1, Smallest
  <2>3. i \in 1..n /\ k = key(i)
    OBVIOUS
  <2>4. ASSUME NEW j \in 1..i - 1 PROVE key(j) # key(i)
    <3>1. j \in 1..n /\ ~ (i <= j)
      BY <1>1, <2>3, <2>4
    <3> QED BY <2>2, <2>3, <3>1
  <2> QED BY <1>2, <2>1, <2>3, <2>4
<1> QED BY <1>3, <1>5, <1>6, <1>7 DEF places, key, n

(* There are as many first places as there are keys.                       *)
LEMMA PlacesCounted ==
  ASSUME NEW items \in Seq(Str!Item), NEW fold \in BOOLEAN
  PROVE  Cardinality(Str!FirstPlaces(items, fold)) = Cardinality(Str!Keys(items, fold))
<1> DEFINE places == Str!FirstPlaces(items, fold)
           keys == Str!Keys(items, fold)
           of == [i \in places |-> Str!Folded(items[i], fold)]
<1>1. places \subseteq 1..Len(items) /\ Len(items) \in Int
  BY FirstPlaceOf
<1>2. IsFiniteSet(places)
  <2>1. places \in SUBSET (1..Len(items))
    BY <1>1
  <2>2. IsFiniteSet(1..Len(items))
    BY <1>1, FS_Interval
  <2> HIDE DEF places
  <2> QED BY <2>1, <2>2, FS_Subset
<1>3. of \in [places -> keys] /\ \A i, j \in places : of[i] = of[j] => i = j
  BY FirstPlaceOf
<1>4. \A key \in keys : \E i \in places : of[i] = key
  BY FirstPlaceOf
<1> HIDE DEF of, places, keys
<1>5. of \in Surjection(places, keys) /\ of \in Injection(places, keys)
  BY <1>3, <1>4 DEF Surjection, Injection, IsInjective
<1>6. Cardinality(keys) = Cardinality(places)
  BY <1>2, <1>5, FS_Surjection
<1> QED BY <1>6 DEF places, keys

(* RemoveDuplicatesStable: one item of each key, in the list's order.      *)
LEMMA StableIs ==
  ASSUME NEW items \in Seq(Str!Item), NEW fold \in BOOLEAN
  PROVE  LET r == Str!RemoveDuplicatesStable(items, fold)
         IN  /\ Str!Keys(r, fold) = Str!Keys(items, fold)
             /\ Len(r) = Cardinality(Str!Keys(items, fold))
             /\ Str!ToSet(r) \subseteq Str!ToSet(items)
             /\ \A i, j \in DOMAIN r : i < j =>
                  \E k, m \in DOMAIN items : k < m /\ items[k] = r[i] /\ items[m] = r[j]
<1> DEFINE places == Str!FirstPlaces(items, fold)
           code == [i \in DOMAIN items |-> i]
           kept == SortedBy(places, code)
           m == Cardinality(places)
           r == Str!RemoveDuplicatesStable(items, fold)
           keys == Str!Keys(items, fold)
<1>1. r = [n \in DOMAIN kept |-> items[kept[n]]]
  BY StrSorted DEF Str!RemoveDuplicatesStable
<1>2. places \subseteq 1..Len(items) /\ DOMAIN items = 1..Len(items) /\ Len(items) \in Nat
  BY FirstPlaceOf
<1>3. \A i \in places : code[i] = i
  BY <1>2
<1> HIDE DEF code
<1>4. Coded(places, code)
  <2>1. \A i \in places : code[i] \in 0..Len(items)
    BY <1>2, <1>3
  <2>2. \A i, j \in places : code[i] = code[j] => i = j
    BY <1>3
  <2>3. Len(items) \in Int
    BY <1>2
  <2> HIDE DEF places
  <2> QED BY <2>1, <2>2, <2>3, FiniteIfNumbered
<1>5. /\ kept \in Seq(places) /\ Len(kept) = m
      /\ \A i, j \in 1..m : i < j => code[kept[i]] < code[kept[j]]
      /\ \A x \in places : \E i \in 1..m : kept[i] = x
  BY <1>4, SortedIs
<1>6. DOMAIN kept = 1..m /\ m \in Nat /\ \A i \in 1..m : kept[i] \in places
  BY <1>5
<1>7. m = Cardinality(keys)
  BY PlacesCounted
<1> HIDE DEF kept, m
<1>8. ASSUME NEW i \in 1..m PROVE kept[i] \in places /\ kept[i] \in 1..Len(items) /\ r[i] = items[kept[i]]
  BY <1>1, <1>2, <1>6
<1>9. DOMAIN r = 1..m /\ Len(r) = m
  BY <1>1, <1>6
<1> HIDE DEF r
<1>10. Str!Keys(r, fold) = keys
  <2>1. Str!Keys(r, fold) = {Str!Folded(r[i], fold) : i \in 1..m} \ {Str!Empty}
    BY <1>9 DEF Str!Keys
  <2>2. ASSUME NEW key \in Str!Keys(r, fold) PROVE key \in keys
    <3>1. PICK i \in 1..m : key = Str!Folded(r[i], fold)
      BY <2>1
    <3>2. kept[i] \in places /\ r[i] = items[kept[i]]
      BY <1>8
    <3> QED BY <3>1, <3>2, FirstPlaceOf
  <2>3. ASSUME NEW key \in keys PROVE key \in Str!Keys(r, fold)
    <3>1. PICK p \in places : key = Str!Folded(items[p], fold)
      BY FirstPlaceOf
    <3>2. PICK i \in 1..m : kept[i] = p
      BY <1>5
    <3>3. key = Str!Folded(r[i], fold)
      BY <1>8, <3>1, <3>2
    <3>4. key # Str!Empty
      BY DEF Str!Keys
    <3> QED BY <2>1, <3>3, <3>4
  <2> QED BY <2>2, <2>3
<1>11. Str!ToSet(r) \subseteq Str!ToSet(items)
  BY <1>2, <1>8, <1>9 DEF Str!ToSet
<1>12. ASSUME NEW i \in DOMAIN r, NEW j \in DOMAIN r, i < j
       PROVE  \E k, n \in DOMAIN items : k < n /\ items[k] = r[i] /\ items[n] = r[j]
  <2>1. i \in 1..m /\ j \in 1..m
    BY <1>9
  <2>2. code[kept[i]] < code[kept[j]]
    BY <1>5, <1>12, <2>1
  <2>3. kept[i] < kept[j] /\ kept[i] \in DOMAIN items /\ kept[j] \in DOMAIN items
    BY <1>2, <1>3, <1>8, <2>1, <2>2
  <2> QED BY <1>8, <2>1, <2>3
<1> QED BY <1>7, <1>9, <1>10, <1>11, <1>12 DEF r, keys

LEMMA SetOfList ==
  ASSUME NEW S, NEW s \in Seq(S)
  PROVE  /\ Str!ToSet(s) = {s[i] : i \in 1..Len(s)} /\ Str!ToSet(s) \subseteq S
         /\ \A x : x \in Str!ToSet(s) <=> \E i \in 1..Len(s) : s[i] = x
BY DEF Str!ToSet

LEMMA InList ==
  ASSUME NEW S, NEW s \in Seq(S), NEW x
  PROVE  Str!StrListContains(s, x) <=> x \in Str!ToSet(s)
BY DEF Str!StrListContains, Str!ToSet

(* StrListSubset, as sets.                                                 *)
LEMMA SubsetOfList ==
  ASSUME NEW S, NEW super \in Seq(S), NEW sub \in Seq(S)
  PROVE  Str!StrListSubset(super, sub) <=> Str!ToSet(sub) \subseteq Str!ToSet(super)
<1>1. Str!StrListSubset(super, sub) <=> \A i \in DOMAIN sub : sub[i] \in Str!ToSet(super)
  BY InList DEF Str!StrListSubset
<1> QED BY <1>1 DEF Str!ToSet

(* Difference, as sets of keys.                                            *)
LEMMA DifferenceIs ==
  ASSUME NEW a \in Seq(Str!Str), NEW b \in Seq(Str!Str), NEW fold \in BOOLEAN
  PROVE  Str!Keys(Str!Difference(a, b, fold), fold) = Str!Keys(a, fold) \ Str!Keys(b, fold)
<1>1. CASE a = << >>
  <2>1. Str!Difference(a, b, fold) = << >>
    BY <1>1 DEF Str!Difference
  <2>2. Str!Keys(<< >>, fold) = {}
    BY DEF Str!Keys
  <2> QED BY <1>1, <2>1, <2>2
<1>2. CASE a # << >> /\ b = << >>
  <2> DEFINE r == [i \in DOMAIN a |-> IF fold THEN Str!ToLower(a[i]) ELSE a[i]]
  <2>1. Str!Difference(a, b, fold) = r
    BY <1>2 DEF Str!Difference
  <2>2. Str!Keys(<< >>, fold) = {}
    BY DEF Str!Keys
  <2>3. ASSUME NEW i \in DOMAIN a PROVE Str!Folded(r[i], fold) = Str!Folded(a[i], fold)
    <3>1. a[i] \in Str!Str
      OBVIOUS
    <3>2. r[i] = IF fold THEN Str!ToLower(a[i]) ELSE a[i]
      OBVIOUS
    <3>3. Str!Folded(Str!ToLower(a[i]), TRUE) = Str!Folded(a[i], TRUE)
      BY <3>1, FoldedIs
    <3> HIDE DEF r
    <3> QED BY <3>2, <3>3
  <2>4. DOMAIN r = DOMAIN a
    OBVIOUS
  <2> HIDE DEF r
  <2>5. Str!Keys(r, fold) = Str!Keys(a, fold)
    BY <2>3, <2>4 DEF Str!Keys
  <2> QED BY <1>2, <2>1, <2>2, <2>5
<1>3. CASE a # << >> /\ b # << >>
  <2> DEFINE D == Str!Keys(a, fold) \ Str!Keys(b, fold)
             s == Str!SortedBy(D, Str!Order)
  <2>1. Str!Difference(a, b, fold) = s
    BY <1>3, RemoveDuplicatesIs DEF Str!Difference, Str!Sorted
  <2>2. D \subseteq Str!Str /\ \A key \in D : key # Str!Empty /\ Str!Folded(key, fold) = key
    BY KeysAre
  <2> HIDE DEF D
  <2>3. s \in Seq(D) /\ Str!ToSet(s) = D
    BY <2>2, StrCoded, SortedElements
  <2> HIDE DEF s
  <2>4. Str!Keys(s, fold) = {Str!Folded(x, fold) : x \in Str!ToSet(s)} \ {Str!Empty}
    BY DEF Str!Keys, Str!ToSet
  <2>5. Str!Keys(s, fold) = D
    BY <2>2, <2>3, <2>4
  <2> QED BY <2>1, <2>5 DEF D
<1> QED BY <1>1, <1>2, <1>3

(* MergeSlices, as sets.                                                   *)
LEMMA MergedIs ==
  ASSUME NEW a \in Seq(Str!Str), NEW b \in Seq(Str!Str)
  PROVE  Str!ToSet(Str!MergeSlices(a, b)) = Str!ToSet(a) \cup Str!ToSet(b)
<1> DEFINE S == Str!ToSet(a) \cup Str!ToSet(b)
<1>1. S \subseteq Str!Str
  BY SetOfList
<1>2. Str!MergeSlices(a, b) = Str!SortedBy(S, Str!Order)
  BY DEF Str!MergeSlices, Str!Sorted
<1> HIDE DEF S
<1>3. Str!ToSet(Str!SortedBy(S, Str!Order)) = S
  BY <1>1, StrCoded, SortedElements
<1> QED BY <1>2, <1>3 DEF S

(* AppendIfMissing, as sets.                                               *)
LEMMA AddedIs ==
  ASSUME NEW S, NEW a \in Seq(S), NEW x \in S
  PROVE  Str!ToSet(Str!AppendIfMissing(a, x)) = Str!ToSet(a) \cup {x}
<1>1. CASE Str!StrListContains(a, x)
  BY <1>1, InList DEF Str!AppendIfMissing
<1>2. CASE ~ Str!StrListContains(a, x)
  <2> DEFINE r == Append(a, x)
  <2>1. Str!AppendIfMissing(a, x) = r
    BY <1>2 DEF Str!AppendIfMissing
  <2>2. /\ r \in Seq(S) /\ Len(r) = Len(a) + 1 /\ r[Len(a) + 1] = x /\ Len(a) \in Nat
        /\ \A i \in 1..Len(a) : r[i] = a[i]
    OBVIOUS
  <2> HIDE DEF r
  <2>3. ASSUME NEW y PROVE y \in Str!ToSet(r) <=> y \in Str!ToSet(a) \/ y = x
    <3>1. y \in Str!ToSet(r) <=> \E i \in 1..Len(r) : r[i] = y
      BY <2>2, SetOfList
    <3>2. y \in Str!ToSet(a) <=> \E i \in 1..Len(a) : a[i] = y
      BY SetOfList
    <3> QED BY <2>2, <3>1, <3>2
  <2> QED BY <2>1, <2>3
<1> QED BY <1>1, <1>2

(* StrListDelete takes one place from the list, if the item is there.      *)
LEMMA DeletedIs ==
  ASSUME NEW S, NEW a \in Seq(S), NEW x \in S
  PROVE  LET r == Str!StrListDelete(a, x)
         IN  /\ Str!ToSet(a) \ {x} \subseteq Str!ToSet(r)
             /\ Len(r) = Len(a) - (IF Str!StrListContains(a, x) THEN 1 ELSE 0)
<1>1. CASE ~ Str!StrListContains(a, x)
  BY <1>1 DEF Str!StrListDelete
<1>2. CASE Str!StrListContains(a, x)
  <2> DEFINE T == {i \in 1..Len(a) : a[i] = x}
  <2>1. T \subseteq Nat /\ T # {}
    BY <1>2 DEF Str!StrListContains
  <2>2. PICK d \in T : \A m \in T : d <= m
    BY <2>1, Smallest
  <2>3. d \in 1..Len(a) /\ a[d] = x /\ \A j \in 1..d - 1 : a[j] # x
    BY <2>2
  <2> DEFINE i == CHOOSE i \in DOMAIN a : a[i] = x /\ \A j \in 1..i - 1 : a[j] # x
             r == Str!RemoveAt(a, i)
  <2>4. Str!StrListDelete(a, x) = r
    BY <1>2 DEF Str!StrListDelete
  <2>5. i \in 1..Len(a) /\ a[i] = x
    BY <2>3
  <2> HIDE DEF i
  <2>6. LET w == SubSeq(a, 1, i - 1) \o SubSeq(a, i + 1, Len(a))
        IN  /\ w \in Seq(S) /\ Len(w) = Len(a) - 1
            /\ \A j \in 1..Len(a) - 1 : w[j] = IF j < i THEN a[j] ELSE a[j + 1]
    BY <2>5, WithoutPlace
  <2>7. r = SubSeq(a, 1, i - 1) \o SubSeq(a, i + 1, Len(a))
    BY DEF Str!RemoveAt
  <2>9. /\ r \in Seq(S) /\ Len(r) = Len(a) - 1
        /\ \A j \in 1..Len(a) - 1 : r[j] = IF j < i THEN a[j] ELSE a[j + 1]
    BY <2>6, <2>7
  <2> HIDE DEF r
  <2>10. ASSUME NEW y \in Str!ToSet(a) \ {x} PROVE y \in Str!ToSet(r)
    <3>1. PICK k \in 1..Len(a) : a[k] = y
      BY SetOfList
    <3>2. k # i
      BY <2>5, <3>1
    <3>3. CASE k < i
      <4>1. k \in 1..Len(r) /\ r[k] = y
        BY <2>5, <2>9, <3>1, <3>3
      <4> QED BY <2>9, <4>1, SetOfList
    <3>4. CASE k > i
      <4>1. k - 1 \in 1..Len(r) /\ r[k - 1] = y
        BY <2>5, <2>9, <3>1, <3>4
      <4> QED BY <2>9, <4>1, SetOfList
    <3> QED BY <2>5, <3>2, <3>3, <3>4
  <2> QED BY <1>2, <2>4, <2>9, <2>10
<1> QED BY <1>1, <1>2

(* EqualStringMaps is equality.                                            *)
LEMMA EqualMaps ==
  ASSUME NEW a \in Str!KeyMaps, NEW b \in Str!KeyMaps
  PROVE  Str!EqualStringMaps(a, b) <=> a = b
<1>1. PICK A \in SUBSET (1..Words) : a \in [A -> 0..2]
  BY DEF Str!KeyMaps
<1>2. PICK B \in SUBSET (1..Words) : b \in [B -> 0..2]
  BY DEF Str!KeyMaps
<1>3. a = [k \in A |-> a[k]] /\ b = [k \in B |-> b[k]]
  BY <1>1, <1>2
<1>4. DOMAIN a = A /\ DOMAIN b = B
  BY <1>1, <1>2
<1> QED BY <1>3, <1>4 DEF Str!EqualStringMaps

(* Pairs are finitely many, and their order tells them apart.              *)
LEMMA PairsCoded ==
  ASSUME NEW S, S \subseteq Str!Pair
  PROVE  Coded(S, [p \in Str!Pair |-> 6 * p.key + 2 * p.value + p.shards])
<1> DEFINE code == [p \in Str!Pair |-> 6 * p.key + 2 * p.value + p.shards]
<1>1. ASSUME NEW p \in S
      PROVE  /\ p.key \in 0..Words /\ p.value \in 0..2 /\ p.shards \in {2, 3}
             /\ p = [key |-> p.key, value |-> p.value, shards |-> p.shards]
             /\ code[p] = 6 * p.key + 2 * p.value + p.shards
  BY DEF Str!Pair
<1>2. Words \in Nat
  BY ListsAssumption
<1> HIDE DEF code
<1>3. \A p \in S : code[p] \in 0..6 * Words + 7
  BY <1>1, <1>2
<1>4. ASSUME NEW p \in S, NEW q \in S, code[p] = code[q] PROVE p = q
  <2>1. p.key = q.key /\ p.value = q.value /\ p.shards = q.shards
    BY <1>1, <1>2, <1>4
  <2> QED BY <1>1, <2>1
<1>5. 6 * Words + 7 \in Int
  BY <1>2
<1>6. Coded(S, code)
  BY <1>3, <1>4, <1>5, FiniteIfNumbered
<1> QED BY <1>6 DEF code

(* The pairs in the order they are put, each once.                         *)
LEMMA SortedPairsAre ==
  ASSUME NEW pairs, pairs \subseteq Str!Pair
  PROVE  /\ Str!SortedPairs(pairs) \in Seq(pairs)
         /\ \A p \in pairs : \E i \in 1..Len(Str!SortedPairs(pairs)) : Str!SortedPairs(pairs)[i] = p
<1> DEFINE code == [p \in Str!Pair |-> 6 * p.key + 2 * p.value + p.shards]
           s == Str!SortedBy(pairs, code)
<1>1. Str!SortedPairs(pairs) = s
  BY DEF Str!SortedPairs
<1>2. Coded(pairs, code)
  BY PairsCoded
<1> HIDE DEF code
<1>3. s \in Seq(pairs) /\ Str!ToSet(s) = pairs
  BY <1>2, SortedElements
<1> HIDE DEF s
<1>4. \A p \in pairs : \E i \in 1..Len(s) : s[i] = p
  BY <1>3, SetOfList
<1> QED BY <1>1, <1>3, <1>4

(* Numbers up to a bound have a largest one.                               *)
LEMMA Largest ==
  ASSUME NEW n \in Nat, NEW T, T \subseteq 1..n, T # {} PROVE \E i \in T : \A j \in T : j <= i
<1> DEFINE U == {k \in 0..n : n - k \in T}
<1>1. U \subseteq Nat
  OBVIOUS
<1>2. U # {}
  <2>1. PICK i \in T : i \in 1..n
    OBVIOUS
  <2>2. n - i \in 0..n /\ n - (n - i) = i
    BY <2>1
  <2>3. n - i \in U
    BY <2>2
  <2> QED BY <2>3
<1>3. PICK k \in U : \A m \in U : k <= m
  BY <1>1, <1>2, Smallest
<1>4. k \in 0..n /\ n - k \in T
  OBVIOUS
<1>5. ASSUME NEW j \in T PROVE j <= n - k
  <2>1. n - j \in 0..n /\ n - (n - j) = j
    OBVIOUS
  <2>2. n - j \in U
    BY <2>1
  <2>3. k <= n - j
    BY <1>3, <2>2
  <2> QED BY <1>4, <2>1, <2>3
<1> QED BY <1>4, <1>5

(* What is put comes from a pair, and every pair of a valid list is put.   *)
LEMMA PutIs ==
  ASSUME NEW pairs, pairs \subseteq Str!Pair, NEW out
  PROVE  LET r == Str!PutUpTo(pairs, out)
         IN  /\ DOMAIN out \subseteq DOMAIN r
             /\ \A key \in DOMAIN r :
                  \/ key \in DOMAIN out /\ r[key] = out[key]
                  \/ \E pair \in pairs : pair.key = key /\ pair.value = r[key]
             /\ (\A pair \in pairs : Str!Valid(pair)) => {pair.key : pair \in pairs} \subseteq DOMAIN r
<1> DEFINE sorted == Str!SortedPairs(pairs)
           put == {i \in DOMAIN sorted : \A j \in 1..i : Str!Valid(sorted[j])}
           of(key) == {i \in put : sorted[i].key = key}
           last(key) == CHOOSE i \in of(key) : \A j \in of(key) : j <= i
           keys == DOMAIN out \cup {sorted[i].key : i \in put}
           r == Str!PutUpTo(pairs, out)
<1>1. r = [key \in keys |-> IF of(key) = {} THEN out[key] ELSE sorted[last(key)].value]
  BY DEF Str!PutUpTo
<1>2. sorted \in Seq(pairs) /\ \A p \in pairs : \E i \in 1..Len(sorted) : sorted[i] = p
  BY SortedPairsAre
<1> HIDE DEF sorted, r
<1>3. DOMAIN sorted = 1..Len(sorted) /\ Len(sorted) \in Nat /\ put \subseteq 1..Len(sorted)
  BY <1>2
<1>4. ASSUME NEW key, of(key) # {} PROVE last(key) \in put /\ sorted[last(key)].key = key
  <2>1. of(key) \subseteq 1..Len(sorted)
    BY <1>3
  <2> DEFINE T == of(key)
  <2>2. \E i \in T : \A j \in T : j <= i
    <3> HIDE DEF T
    <3>1. T \subseteq 1..Len(sorted) /\ T # {}
      BY <1>4, <2>1 DEF T
    <3> QED BY <1>3, <3>1, Largest
  <2>3. last(key) \in T
    BY <2>2
  <2> QED BY <2>3
<1> HIDE DEF last
<1>5. \A i \in 1..Len(sorted) : sorted[i] \in pairs
  BY <1>2
<1>6. DOMAIN r = keys
  BY <1>1
<1>7. ASSUME NEW key \in DOMAIN r
      PROVE  \/ key \in DOMAIN out /\ r[key] = out[key]
             \/ \E pair \in pairs : pair.key = key /\ pair.value = r[key]
  <2>1. CASE of(key) = {}
    <3>1. key \notin {sorted[i].key : i \in put}
      BY <2>1
    <3> QED BY <1>1, <1>6, <2>1, <3>1
  <2>2. CASE of(key) # {}
    <3>1. last(key) \in put /\ sorted[last(key)].key = key
      BY <1>4, <2>2
    <3>2. sorted[last(key)] \in pairs
      BY <1>3, <1>5, <3>1
    <3>3. r[key] = sorted[last(key)].value
      BY <1>1, <1>6, <2>2
    <3> QED BY <3>1, <3>2, <3>3
  <2> QED BY <2>1, <2>2
<1>8. ASSUME \A pair \in pairs : Str!Valid(pair), NEW pair \in pairs PROVE pair.key \in DOMAIN r
  <2>1. PICK i \in 1..Len(sorted) : sorted[i] = pair
    BY <1>2
  <2>2. \A j \in 1..i : j \in 1..Len(sorted)
    BY <1>3
  <2>3. i \in put
    BY <1>3, <1>5, <1>8, <2>2
  <2> QED BY <1>6, <2>1, <2>3
<1> QED BY <1>6, <1>7, <1>8 DEF r

(* What a call has to leave of the map it was given and of the pairs.      *)
PairsKept(json, pairs, out, r) ==
  /\ DOMAIN out \subseteq DOMAIN r.out
  /\ \A key \in DOMAIN r.out :
       \/ key \in DOMAIN out /\ r.out[key] = out[key]
       \/ \E pair \in pairs : pair.key = key /\ pair.value = r.out[key]
  /\ ~ r.err /\ (json \/ pairs # {}) =>
       /\ \A pair \in pairs : pair.key \in DOMAIN r.out
       /\ \A key \in DOMAIN r.out \ {0} : r.out[key] # 0

(* Whatever form the pairs come in, that much holds of the result.         *)
LEMMA PairsAre ==
  ASSUME NEW json, NEW pairs, pairs \subseteq Str!Pair, NEW out
  PROVE  PairsKept(json, pairs, out, Str!ParseArbitraryKeyValues(json, pairs, out))
<1> SUFFICES ASSUME NEW r, r = Str!ParseArbitraryKeyValues(json, pairs, out)
             PROVE  PairsKept(json, pairs, out, r)
  OBVIOUS
<1>1. CASE pairs = {} /\ ~ json
  <2>1. r = [err |-> FALSE, out |-> out]
    BY <1>1 DEF Str!ParseArbitraryKeyValues
  <2>2. r.out = out
    BY <2>1
  <2> QED BY <1>1, <2>2 DEF PairsKept
<1>2. CASE json
  <2> DEFINE keys == DOMAIN out \cup {p.key : p \in pairs}
             from(key) == CHOOSE p \in pairs : p.key = key
             m == [key \in keys |-> IF \E p \in pairs : p.key = key THEN from(key).value ELSE out[key]]
             parsed == [err |-> FALSE, out |-> m]
  <2>1. r = [parsed EXCEPT !.err = @ \/ \E key \in DOMAIN parsed.out \ {0} : parsed.out[key] = 0]
    BY <1>2 DEF Str!ParseArbitraryKeyValues
  <2> HIDE DEF m
  <2>2. r.out = m /\ (r.err <=> \E key \in DOMAIN m \ {0} : m[key] = 0)
    BY <2>1
  <2> HIDE DEF parsed
  <2>3. DOMAIN m = keys
    BY DEF m
  <2>4. ASSUME NEW key \in keys
        PROVE  \/ key \in DOMAIN out /\ m[key] = out[key]
               \/ \E pair \in pairs : pair.key = key /\ pair.value = m[key]
    <3>1. CASE \E p \in pairs : p.key = key
      <4>1. from(key) \in pairs /\ from(key).key = key
        BY <3>1
      <4>2. m[key] = from(key).value
        BY <3>1 DEF m
      <4> HIDE DEF from
      <4> QED BY <4>1, <4>2
    <3>2. CASE ~ \E p \in pairs : p.key = key
      BY <3>2 DEF m
    <3> QED BY <3>1, <3>2
  <2> QED BY <2>2, <2>3, <2>4 DEF PairsKept
<1>3. CASE ~ json /\ pairs # {}
  <2> DEFINE m == Str!PutUpTo(pairs, out)
             bad == \E pair \in pairs : ~ Str!Valid(pair)
             parsed == [err |-> bad, out |-> m]
  <2>1. r = [parsed EXCEPT !.err = @ \/ \E key \in DOMAIN parsed.out \ {0} : parsed.out[key] = 0]
    BY <1>3 DEF Str!ParseArbitraryKeyValues, Str!ParseKeyValues
  <2> HIDE DEF m
  <2>2. r.out = m /\ (r.err <=> bad \/ \E key \in DOMAIN m \ {0} : m[key] = 0)
    BY <2>1
  <2> HIDE DEF parsed
  <2>3. /\ DOMAIN out \subseteq DOMAIN m
        /\ \A key \in DOMAIN m :
             \/ key \in DOMAIN out /\ m[key] = out[key]
             \/ \E pair \in pairs : pair.key = key /\ pair.value = m[key]
        /\ ~ bad => {pair.key : pair \in pairs} \subseteq DOMAIN m
    <3>1. ~ bad => \A pair \in pairs : Str!Valid(pair)
      OBVIOUS
    <3>2. /\ DOMAIN out \subseteq DOMAIN m
          /\ \A key \in DOMAIN m :
               \/ key \in DOMAIN out /\ m[key] = out[key]
               \/ \E pair \in pairs : pair.key = key /\ pair.value = m[key]
          /\ (\A pair \in pairs : Str!Valid(pair)) => {pair.key : pair \in pairs} \subseteq DOMAIN m
      BY PutIs DEF m
    <3> HIDE DEF bad
    <3> QED BY <3>1, <3>2
  <2> QED BY <1>3, <2>2, <2>3 DEF PairsKept
<1> QED BY <1>1, <1>2, <1>3

(* A part of a list, element by element.                                   *)
LEMMA PartIs ==
  ASSUME NEW S, NEW t \in Seq(S), NEW s \in Seq(S), NEW i \in Int, i >= 0, i + Len(s) <= Len(t)
  PROVE  SubSeq(t, i + 1, i + Len(s)) = s <=> \A j \in 1..Len(s) : t[i + j] = s[j]
<1> DEFINE m == Len(s)
           u == SubSeq(t, i + 1, i + m)
<1>1. m \in Nat /\ Len(t) \in Nat
  OBVIOUS
<1>2. u \in Seq(S) /\ Len(u) = m /\ \A j \in 1..m : u[j] = t[i + j]
  <2>1. i + 1 \in 1..Len(t) + 1 /\ i + m \in 0..Len(t) /\ i + m >= i
    BY <1>1
  <2> HIDE DEF m
  <2>2. u \in Seq(S) /\ Len(u) = m
    BY <1>1, <2>1
  <2>3. \A j \in 1..m : u[j] = t[i + j]
    BY <1>1, <2>1
  <2> QED BY <2>2, <2>3
<1> HIDE DEF u
<1>3. u = [j \in 1..m |-> u[j]] /\ s = [j \in 1..m |-> s[j]]
  BY <1>2
<1> HIDE DEF m
<1>4. u = s <=> \A j \in 1..m : u[j] = s[j]
  BY <1>3
<1> QED BY <1>2, <1>4 DEF m, u

LEMMA WholeIs ==
  ASSUME NEW S, NEW t \in Seq(S), NEW s \in Seq(S)
  PROVE  /\ SubSeq(s, 1, Len(s)) = s
         /\ t = s <=> Len(t) = Len(s) /\ \A j \in 1..Len(s) : t[j] = s[j]
<1>1. Len(s) \in Nat
  OBVIOUS
<1>2. t = [j \in 1..Len(t) |-> t[j]] /\ s = [j \in 1..Len(s) |-> s[j]]
  OBVIOUS
<1>3. t = s <=> Len(t) = Len(s) /\ \A j \in 1..Len(s) : t[j] = s[j]
  BY <1>2
<1>4. SubSeq(s, 0 + 1, 0 + Len(s)) = s
  BY <1>1, PartIs
<1> QED BY <1>1, <1>3, <1>4

(* A prefix, a suffix and a part are parts with nothing before them,       *)
(* with nothing after them, or with something at either end.               *)
LEMMA PrefixIs ==
  ASSUME NEW S, NEW t \in Seq(S), NEW s \in Seq(S)
  PROVE  Str!IsPrefix(s, t) <=> Len(s) <= Len(t) /\ \A j \in 1..Len(s) : t[j] = s[j]
<1>1. SubSeq(s, 1, Len(s)) = s
  BY WholeIs
<1>2. Str!IsPrefix(s, t) <=> Len(s) <= Len(t) /\ s = SubSeq(t, 1, Len(s))
  BY <1>1 DEF Str!IsPrefix
<1>3. Len(s) <= Len(t) => (SubSeq(t, 0 + 1, 0 + Len(s)) = s <=> \A j \in 1..Len(s) : t[0 + j] = s[j])
  <2>1. 0 + Len(s) = Len(s)
    OBVIOUS
  <2> QED BY <2>1, PartIs
<1>4. 0 + Len(s) = Len(s) /\ \A j \in 1..Len(s) : 0 + j = j
  OBVIOUS
<1> QED BY <1>2, <1>3, <1>4

LEMMA SuffixIs ==
  ASSUME NEW t \in Seq(Str!Char), NEW s \in Seq(Str!Char)
  PROVE  Str!IsSuffix(s, t)
           <=> Len(s) <= Len(t) /\ \A j \in 1..Len(s) : t[Len(t) - Len(s) + j] = s[j]
<1> DEFINE m == Len(s)
           n == Len(t)
           rs == Str!Reverse(s)
           rt == Str!Reverse(t)
<1>1. m \in Nat /\ n \in Nat
  OBVIOUS
<1>2. rs \in Seq(Str!Char) /\ Len(rs) = m /\ \A j \in 1..m : rs[j] = s[(m - j) + 1]
  <2>1. \A j \in 1..m : (m - j) + 1 \in 1..m
    BY <1>1
  <2> QED BY <1>1, <2>1 DEF Str!Reverse
<1>3. rt \in Seq(Str!Char) /\ Len(rt) = n /\ \A j \in 1..n : rt[j] = t[(n - j) + 1]
  <2>1. \A j \in 1..n : (n - j) + 1 \in 1..n
    BY <1>1
  <2> QED BY <1>1, <2>1 DEF Str!Reverse
<1> HIDE DEF rs, rt
<1>4. Str!IsSuffix(s, t) <=> m <= n /\ \A j \in 1..m : rt[j] = rs[j]
  BY <1>2, <1>3, PrefixIs DEF Str!IsSuffix, rs, rt
<1> HIDE DEF m, n
<1>5. ASSUME m <= n
      PROVE  (\A j \in 1..m : rt[j] = rs[j]) <=> \A j \in 1..m : t[n - m + j] = s[j]
  <2>1. ASSUME \A j \in 1..m : rt[j] = rs[j], NEW j \in 1..m PROVE t[n - m + j] = s[j]
    <3>1. (m - j) + 1 \in 1..m /\ (m - j) + 1 \in 1..n
      BY <1>1, <1>5
    <3>2. (m - ((m - j) + 1)) + 1 = j /\ (n - ((m - j) + 1)) + 1 = n - m + j
      BY <1>1
    <3>3. rt[(m - j) + 1] = rs[(m - j) + 1]
      BY <2>1, <3>1
    <3> QED BY <1>2, <1>3, <3>1, <3>2, <3>3
  <2>2. ASSUME \A j \in 1..m : t[n - m + j] = s[j], NEW j \in 1..m PROVE rt[j] = rs[j]
    <3>1. (m - j) + 1 \in 1..m /\ j \in 1..n
      BY <1>1, <1>5
    <3>2. n - m + ((m - j) + 1) = (n - j) + 1
      BY <1>1
    <3>3. t[n - m + ((m - j) + 1)] = s[(m - j) + 1]
      BY <2>2, <3>1
    <3> QED BY <1>2, <1>3, <3>1, <3>2, <3>3
  <2> QED BY <2>1, <2>2
<1> QED BY <1>4, <1>5 DEF m, n

(* Where a part may be, in terms of what is in front of it.                *)
PartAt(val, core, i) ==
  LET n == Len(val) - i - Len(core)
  IN  n >= 0 /\ SubSeq(val, i + 1, i + Len(core)) = core

LEMMA PartAtIs ==
  ASSUME NEW val \in Seq(Str!Char), NEW core \in Seq(Str!Char), NEW i \in 0..Len(val)
  PROVE  PartAt(val, core, i)
           <=> i + Len(core) <= Len(val) /\ \A j \in 1..Len(core) : val[i + j] = core[j]
<1>1. Len(val) \in Nat /\ Len(core) \in Nat /\ i \in Int /\ i >= 0
  OBVIOUS
<1>2. Len(val) - i - Len(core) >= 0 <=> i + Len(core) <= Len(val)
  BY <1>1
<1> QED BY <1>1, <1>2, PartIs DEF PartAt

LEMMA HasPartIs ==
  ASSUME NEW S, NEW val \in Seq(S), NEW core \in Seq(S)
  PROVE  Str!HasPart(val, core) <=> \E i \in 0..Len(val) : PartAt(val, core, i)
<1> DEFINE v == Len(val)
           c == Len(core)
<1>1. v \in Nat /\ c \in Nat
  OBVIOUS
<1>2. ASSUME NEW i \in 1..v - c + 1, SubSeq(val, i, i + c - 1) = core
      PROVE  i - 1 \in 0..v /\ PartAt(val, core, i - 1)
  <2> HIDE DEF v, c
  <2>1. i - 1 \in 0..v /\ (i - 1) + 1 = i /\ (i - 1) + c = i + c - 1 /\ v - (i - 1) - c >= 0
    BY <1>1
  <2> QED BY <1>2, <2>1 DEF PartAt, v, c
<1>3. ASSUME NEW i \in 0..v, PartAt(val, core, i)
      PROVE  i + 1 \in 1..v - c + 1 /\ SubSeq(val, i + 1, (i + 1) + c - 1) = core
  <2>1. v - i - c >= 0 /\ SubSeq(val, i + 1, i + c) = core
    BY <1>3 DEF PartAt
  <2> HIDE DEF v, c
  <2>2. (i + 1) + c - 1 = i + c /\ i + 1 \in 1..v - c + 1
    BY <1>1, <2>1
  <2> QED BY <2>1, <2>2
<1> QED BY <1>2, <1>3 DEF Str!HasPart

LEMMA CoreIs ==
  ASSUME NEW item \in Seq(Str!Char), Len(item) >= 2, NEW lead \in 0..1, NEW trail \in 0..1
  PROVE  LET core == SubSeq(item, 1 + lead, Len(item) - trail)
         IN  /\ core \in Seq(Str!Char) /\ Len(core) = Len(item) - lead - trail
             /\ \A j \in 1..Len(core) : core[j] = item[lead + j]
<1> DEFINE n == Len(item)
           core == SubSeq(item, 1 + lead, n - trail)
<1>1. n \in Nat /\ 1 + lead \in 1..n + 1 /\ n - trail \in 0..n /\ n - trail >= lead
  OBVIOUS
<1>2. core \in Seq(Str!Char) /\ Len(core) = (n - trail) - (1 + lead) + 1
  BY <1>1
<1>3. \A j \in 1..(n - trail) - (1 + lead) + 1 : core[j] = item[(1 + lead) + j - 1]
  BY <1>1
<1> HIDE DEF core, n
<1>4. Len(core) = n - lead - trail
  BY <1>1, <1>2
<1>5. ASSUME NEW j \in 1..Len(core) PROVE core[j] = item[lead + j]
  <2>1. (1 + lead) + j - 1 = lead + j
    BY <1>1, <1>2
  <2> QED BY <1>2, <1>3, <2>1
<1> QED BY <1>2, <1>4, <1>5 DEF core, n

(* What is left between the wildcards at the ends is looked for, at the    *)
(* ends where there is none.                                               *)
LEMMA GlobIs ==
  ASSUME NEW item \in Seq(Str!Char), Len(item) >= 2, NEW val \in Seq(Str!Char)
  PROVE  LET lead == IF item[1] = "*" THEN 1 ELSE 0
             trail == IF item[Len(item)] = "*" THEN 1 ELSE 0
             core == SubSeq(item, 1 + lead, Len(item) - trail)
         IN  Str!GlobbedStringsMatch(item, val)
               <=> \E i \in 0..Len(val) :
                     /\ PartAt(val, core, i)
                     /\ (i > 0 => lead = 1) /\ (Len(val) - i - Len(core) > 0 => trail = 1)
<1> DEFINE n == Len(item)
           v == Len(val)
           lead == IF item[1] = "*" THEN 1 ELSE 0
           trail == IF item[n] = "*" THEN 1 ELSE 0
           core == SubSeq(item, 1 + lead, n - trail)
           Found == \E i \in 0..v : /\ PartAt(val, core, i)
                                    /\ (i > 0 => lead = 1) /\ (v - i - Len(core) > 0 => trail = 1)
<1> SUFFICES Str!GlobbedStringsMatch(item, val) <=> Found
  OBVIOUS
<1>1. n \in Nat /\ v \in Nat /\ n >= 2
  OBVIOUS
<1>4. (lead = 1 <=> item[1] = "*") /\ (trail = 1 <=> item[n] = "*") /\ lead \in 0..1 /\ trail \in 0..1
  OBVIOUS
<1> HIDE DEF lead, trail
<1>2. /\ core \in Seq(Str!Char) /\ Len(core) = n - lead - trail
      /\ \A j \in 1..Len(core) : core[j] = item[lead + j]
  BY <1>4, CoreIs
<1> HIDE DEF n, v
<1>9. ASSUME lead = 1, trail = 1 PROVE core = SubSeq(item, 2, n - 1)
  <2>1. 1 + lead = 2 /\ n - trail = n - 1
    BY <1>1, <1>9
  <2> QED BY <2>1
<1>10. ASSUME lead = 1, trail = 0 PROVE core = SubSeq(item, 2, n)
  <2>1. 1 + lead = 2 /\ n - trail = n
    BY <1>1, <1>10
  <2> QED BY <2>1
<1>11. ASSUME lead = 0, trail = 1 PROVE core = SubSeq(item, 1, n - 1)
  <2>1. 1 + lead = 1 /\ n - trail = n - 1
    BY <1>1, <1>11
  <2> QED BY <2>1
<1> HIDE DEF core
<1>3. ASSUME NEW i \in 0..v
      PROVE  PartAt(val, core, i)
               <=> i + Len(core) <= v /\ \A j \in 1..Len(core) : val[i + j] = core[j]
  <2>1. core \in Seq(Str!Char) /\ i \in 0..Len(val)
    BY <1>2 DEF v
  <2>2. PartAt(val, core, i)
          <=> i + Len(core) <= Len(val) /\ \A j \in 1..Len(core) : val[i + j] = core[j]
    BY <2>1, PartAtIs
  <2> QED BY <2>2 DEF v
<1>5. CASE lead = 1 /\ trail = 1
  <2>1. Str!GlobbedStringsMatch(item, val) <=> Str!HasPart(val, SubSeq(item, 2, n - 1))
    BY <1>1, <1>4, <1>5 DEF Str!GlobbedStringsMatch, n
  <2>2. SubSeq(item, 2, n - 1) = core
    BY <1>5, <1>9
  <2>3. Str!HasPart(val, core) <=> \E i \in 0..v : PartAt(val, core, i)
    BY <1>2, HasPartIs DEF v
  <2> QED BY <1>5, <2>1, <2>2, <2>3
<1>6. CASE lead = 1 /\ trail = 0
  <2>1. Str!GlobbedStringsMatch(item, val) <=> Str!IsSuffix(SubSeq(item, 2, n), val)
    BY <1>1, <1>4, <1>6 DEF Str!GlobbedStringsMatch, n
  <2>2. SubSeq(item, 2, n) = core
    BY <1>6, <1>10
  <2>3. Str!IsSuffix(core, val) <=> Len(core) <= v /\ \A j \in 1..Len(core) : val[v - Len(core) + j] = core[j]
    BY <1>2, SuffixIs DEF v
  <2>4. Len(core) \in Nat
    BY <1>2
  <2>5. ASSUME NEW i \in 0..v, PartAt(val, core, i), v - i - Len(core) > 0 => trail = 1
        PROVE  Str!IsSuffix(core, val)
    <3>1. i + Len(core) <= v
      BY <1>3, <2>5
    <3>2. \A j \in 1..Len(core) : val[i + j] = core[j]
      BY <1>3, <2>5
    <3>3. i = v - Len(core)
      <4>1. ~ (v - i - Len(core) > 0)
        BY <1>6, <2>5
      <4> DEFINE c == Len(core)
      <4>2. c \in Nat /\ i \in Nat /\ v \in Nat /\ i + c <= v /\ ~ (v - i - c > 0)
        BY <1>1, <2>4, <3>1, <4>1
      <4> HIDE DEF c
      <4>3. i = v - c
        BY <4>2
      <4> QED BY <4>3 DEF c
    <3>4. Len(core) <= v
      BY <1>1, <2>4, <3>1
    <3> QED BY <2>3, <3>2, <3>3, <3>4
  <2>6. ASSUME Str!IsSuffix(core, val)
        PROVE  /\ v - Len(core) \in 0..v /\ PartAt(val, core, v - Len(core))
               /\ v - (v - Len(core)) - Len(core) = 0
    <3>1. v - Len(core) \in 0..v /\ (v - Len(core)) + Len(core) <= v /\ v - (v - Len(core)) - Len(core) = 0
      BY <1>1, <2>3, <2>4, <2>6
    <3> QED BY <1>3, <2>3, <2>6, <3>1
  <2>7. Str!IsSuffix(core, val) <=> Found
    <3>1. ASSUME Found PROVE Str!IsSuffix(core, val)
      BY <2>5, <3>1
    <3>2. ASSUME Str!IsSuffix(core, val) PROVE Found
      <4>1. /\ v - Len(core) \in 0..v /\ PartAt(val, core, v - Len(core))
            /\ v - (v - Len(core)) - Len(core) = 0
        BY <2>6, <3>2
      <4>2. ~ (v - (v - Len(core)) - Len(core) > 0)
        BY <4>1
      <4> QED BY <1>6, <4>1, <4>2
    <3> QED BY <3>1, <3>2
  <2> QED BY <2>1, <2>2, <2>7
<1>7. CASE lead = 0 /\ trail = 1
  <2>1. Str!GlobbedStringsMatch(item, val) <=> Str!IsPrefix(SubSeq(item, 1, n - 1), val)
    BY <1>1, <1>4, <1>7 DEF Str!GlobbedStringsMatch, n
  <2>2. SubSeq(item, 1, n - 1) = core
    BY <1>7, <1>11
  <2>3. Str!IsPrefix(core, val) <=> Len(core) <= v /\ \A j \in 1..Len(core) : val[j] = core[j]
    BY <1>2, PrefixIs DEF v
  <2>4. Len(core) \in Nat /\ 0 \in 0..v /\ 0 + Len(core) = Len(core) /\ \A j \in 1..Len(core) : 0 + j = j
    BY <1>1, <1>2
  <2>5. PartAt(val, core, 0) <=> Len(core) <= v /\ \A j \in 1..Len(core) : val[j] = core[j]
    BY <1>3, <2>4
  <2>6. ASSUME NEW i \in 0..v, i > 0 => lead = 1 PROVE i = 0
    BY <1>1, <1>7, <2>6
  <2>7. Str!IsPrefix(core, val) <=> Found
    <3>1. ASSUME Found PROVE PartAt(val, core, 0)
      BY <2>6, <3>1
    <3>2. ~ (0 > 0)
      OBVIOUS
    <3>3. ASSUME PartAt(val, core, 0) PROVE Found
      BY <1>7, <2>4, <3>2, <3>3
    <3> QED BY <2>3, <2>5, <3>1, <3>3
  <2> QED BY <2>1, <2>2, <2>7
<1>8. CASE lead = 0 /\ trail = 0
  <2>1. Str!GlobbedStringsMatch(item, val) <=> val = item
    BY <1>1, <1>4, <1>8 DEF Str!GlobbedStringsMatch, n
  <2>2. Len(core) = n /\ \A j \in 1..n : core[j] = item[j]
    BY <1>1, <1>2, <1>8
  <2>3. val = item <=> v = n /\ \A j \in 1..n : val[j] = item[j]
    BY WholeIs DEF n, v
  <2>4. 0 \in 0..v /\ 0 + Len(core) = n /\ \A j \in 1..n : 0 + j = j
    BY <1>1, <2>2
  <2>5. PartAt(val, core, 0) <=> n <= v /\ \A j \in 1..n : val[j] = core[j]
    BY <1>3, <2>2, <2>4
  <2>6. ASSUME NEW i \in 0..v, i > 0 => lead = 1 PROVE i = 0
    BY <1>1, <1>8, <2>6
  <2>7. val = item <=> Found
    <3>1. ASSUME Found PROVE PartAt(val, core, 0) /\ ~ (v - 0 - Len(core) > 0)
      BY <1>8, <2>6, <3>1
    <3>2. ASSUME PartAt(val, core, 0), ~ (v - 0 - Len(core) > 0) PROVE val = item
      <4>1. v = n
        BY <1>1, <2>2, <2>5, <3>2
      <4> QED BY <2>2, <2>3, <2>5, <3>2, <4>1
    <3>3. ASSUME val = item PROVE Found
      <4>1. PartAt(val, core, 0) /\ ~ (v - 0 - Len(core) > 0) /\ ~ (0 > 0)
        BY <1>1, <2>2, <2>3, <2>5, <3>3
      <4> QED BY <2>4, <4>1
    <3> QED BY <3>1, <3>2, <3>3
  <2> QED BY <2>1, <2>7
<1> QED BY <1>4, <1>5, <1>6, <1>7, <1>8

(* A call of one of the functions, before and after it returns.            *)
Asked ==
  args \in Str!Inputs /\ result \in {<< >>, <<Str!Call(args)>>}

LEMMA ListsTyped ==
  ASSUME NEW n \in Nat, NEW s \in Str!Lists(n) PROVE s \in Seq(Str!Item) /\ s \in Seq(Str!Str)
<1>1. s \in Seq(Str!Item)
  BY SeqOfIs DEF Str!Lists
<1>2. Str!Item \subseteq Str!Str
  BY DEF Str!Item
<1> QED BY <1>1, <1>2

LEMMA SlicesTyped ==
  ASSUME NEW s \in Str!Slices(2)
  PROVE  s.nil \in BOOLEAN /\ s.items \in Seq(Str!Item) /\ s.items \in Seq(Str!Str)
<1>1. CASE s = Str!Slice(TRUE, << >>)
  BY <1>1 DEF Str!Slice
<1>2. ASSUME NEW items \in Str!Lists(2), s = Str!Slice(FALSE, items)
      PROVE  s.nil \in BOOLEAN /\ s.items \in Seq(Str!Item) /\ s.items \in Seq(Str!Str)
  BY <1>2, ListsTyped DEF Str!Slice
<1> QED BY <1>1, <1>2 DEF Str!Slices

(* What the inputs of a call are, by its function.                         *)
LEMMA InputsOf ==
  ASSUME args \in Str!Inputs
  PROVE  /\ args.fn \in {"dedup", "stable"} => args.a \in Str!Lists(MaxItems) /\ args.fold \in BOOLEAN
         /\ args.fn = "diff" =>
              args.a \in Str!Lists(2) /\ args.b \in Str!Lists(2) /\ args.fold \in BOOLEAN
         /\ args.fn = "sets" => args.a \in Str!Slices(2) /\ args.b \in Str!Slices(2)
         /\ args.fn = "one" => args.a \in Str!Lists(2) /\ args.s \in Str!Item
         /\ args.fn = "pairs" => args.json \in BOOLEAN /\ args.pairs \in Str!PairSets
         /\ args.fn = "maps" => args.out \in Str!KeyMaps /\ args.other \in Str!KeyMaps
         /\ args.fn = "glob" =>
              args.item \in Str!SeqOf(Str!Char, MaxLength) /\ args.val \in Str!SeqOf(Str!Char, MaxLength)
<1> DEFINE dedup == [fn : {"dedup", "stable"}, a : Str!Lists(MaxItems), fold : BOOLEAN]
           diff == [fn : {"diff"}, a : Str!Lists(2), b : Str!Lists(2), fold : BOOLEAN]
           sets == [fn : {"sets"}, a : Str!Slices(2), b : Str!Slices(2)]
           one == [fn : {"one"}, a : Str!Lists(2), s : Str!Item]
           slice == [fn : {"slice"}, form : {"blank", "null", "json", "separated"},
                     a : Str!Lists(2) \ {<< >>}]
           pairs == [fn : {"pairs"}, json : {FALSE}, pairs : Str!PairSets, out : Str!KeyMaps]
           few == {p \in Str!PairSets : \A i, j \in p : i.shards = 2 /\ (i.key = j.key => i = j)}
           jsons == [fn : {"pairs"}, json : {TRUE}, out : Str!KeyMaps, pairs : few]
           maps == [fn : {"maps"}, out : Str!KeyMaps, other : Str!KeyMaps]
           glob == [fn : {"glob"}, item : Str!SeqOf(Str!Char, MaxLength), val : Str!SeqOf(Str!Char, MaxLength)]
           reverse == [fn : {"reverse"}, val : Str!SeqOf(Str!Char, MaxLength)]
<1>1. \/ args \in dedup \/ args \in diff \/ args \in sets \/ args \in one \/ args \in slice
      \/ args \in pairs \/ args \in jsons \/ args \in maps \/ args \in glob \/ args \in reverse
  BY Zenon DEF Str!Inputs
<1>2. few \subseteq Str!PairSets
  OBVIOUS
<1> HIDE DEF few
<1>3. CASE args \in dedup
  BY <1>3
<1>4. CASE args \in diff
  BY <1>4
<1>5. CASE args \in sets
  BY <1>5
<1>6. CASE args \in one
  BY <1>6
<1>7. CASE args \in slice
  BY <1>7
<1>8. CASE args \in pairs
  BY <1>8
<1>9. CASE args \in jsons
  BY <1>2, <1>9
<1>10. CASE args \in maps
  BY <1>10
<1>11. CASE args \in glob
  BY <1>11
<1>12. CASE args \in reverse
  BY <1>12
<1> QED BY <1>1, <1>3, <1>4, <1>5, <1>6, <1>7, <1>8, <1>9, <1>10, <1>11, <1>12

(* What came back from a function is what the call gives.                  *)
LEMMA ReturnedIs ==
  ASSUME Asked, NEW fn, Str!Called(fn)
  PROVE  Str!returned = Str!Call(args) /\ args.fn = fn /\ args \in Str!Inputs
<1>1. result = <<Str!Call(args)>>
  BY DEF Asked, Str!Called, Str!Pending
<1> QED BY <1>1 DEF Asked, Str!Called, Str!returned

(* Removing duplicates keeps one of each key (RemoveDuplicates,            *)
(* RemoveDuplicatesStable).                                                *)
LEMMA KeptOnce == ASSUME Asked PROVE Str!OneOfEachKey
<1>1. ASSUME Str!Called("stable")
      PROVE  /\ Str!Keys(Str!returned, args.fold) = Str!Keys(args.a, args.fold)
             /\ Len(Str!returned) = Len(Str!RemoveDuplicates(args.a, args.fold))
             /\ Str!ToSet(Str!returned) \subseteq Str!ToSet(args.a)
             /\ \A i, j \in DOMAIN Str!returned : i < j =>
                  \E k, m \in DOMAIN args.a :
                    k < m /\ args.a[k] = Str!returned[i] /\ args.a[m] = Str!returned[j]
  <2>1. args.fn = "stable" /\ Str!returned = Str!Call(args) /\ args \in Str!Inputs
    BY <1>1, ReturnedIs
  <2>2. args.a \in Seq(Str!Item) /\ args.a \in Seq(Str!Str) /\ args.fold \in BOOLEAN
    BY <2>1, InputsOf, ListsTyped, ListsAssumption
  <2>3. Str!returned = Str!RemoveDuplicatesStable(args.a, args.fold)
    BY <2>1 DEF Str!Call
  <2>4. Len(Str!RemoveDuplicates(args.a, args.fold)) = Cardinality(Str!Keys(args.a, args.fold))
    BY <2>2, RemoveDuplicatesIs
  <2> QED BY <2>2, <2>3, <2>4, StableIs
<1>2. ASSUME Str!Called("dedup")
      PROVE  /\ Str!NoDuplicates(Str!returned)
             /\ Str!ToSet(Str!returned) = Str!Keys(args.a, args.fold)
  <2>1. args.fn = "dedup" /\ Str!returned = Str!Call(args) /\ args \in Str!Inputs
    BY <1>2, ReturnedIs
  <2>2. args.a \in Seq(Str!Str) /\ args.fold \in BOOLEAN
    BY <2>1, InputsOf, ListsTyped, ListsAssumption
  <2>3. Str!returned = Str!RemoveDuplicates(args.a, args.fold)
    BY <2>1 DEF Str!Call
  <2> QED BY <2>2, <2>3, RemoveDuplicatesIs
<1> QED BY <1>1, <1>2 DEF Str!OneOfEachKey

(* Difference, EquivalentSlices, StrListSubset, MergeSlices,               *)
(* StrListDelete, AppendIfMissing and EqualStringMaps are those of sets.   *)
LEMMA SetsAre == ASSUME Asked PROVE Str!SetsAgree
<1>1. ASSUME Str!Called("diff")
      PROVE  Str!Keys(Str!returned, args.fold)
               = Str!Keys(args.a, args.fold) \ Str!Keys(args.b, args.fold)
  <2>1. args.fn = "diff" /\ Str!returned = Str!Call(args) /\ args \in Str!Inputs
    BY <1>1, ReturnedIs
  <2>2. args.a \in Seq(Str!Str) /\ args.b \in Seq(Str!Str) /\ args.fold \in BOOLEAN
    BY <2>1, InputsOf, ListsTyped
  <2>3. Str!returned = Str!Difference(args.a, args.b, args.fold)
    BY <2>1 DEF Str!Call
  <2> QED BY <2>2, <2>3, DifferenceIs
<1>2. ASSUME Str!Called("sets")
      PROVE  /\ Str!returned.equivalent <=>
                  /\ Str!returned.subset /\ Str!StrListSubset(args.b.items, args.a.items)
                  /\ args.a.nil <=> args.b.nil
             /\ Str!returned.subset <=>
                  Str!EquivalentSlices(Str!returned.merged, Str!Slice(FALSE, args.a.items))
  <2> DEFINE a == args.a.items
             b == args.b.items
             merged == Str!MergeSlices(a, b)
  <2>1. args.fn = "sets" /\ Str!returned = Str!Call(args) /\ args \in Str!Inputs
    BY <1>2, ReturnedIs
  <2>2. /\ a \in Seq(Str!Str) /\ b \in Seq(Str!Str)
        /\ args.a.nil \in BOOLEAN /\ args.b.nil \in BOOLEAN
    BY <2>1, InputsOf, SlicesTyped
  <2>3. Str!returned = [equivalent |-> Str!EquivalentSlices(args.a, args.b),
                        subset |-> Str!StrListSubset(a, b),
                        merged |-> Str!Slice(FALSE, merged)]
    BY <2>1 DEF Str!Call
  <2>4. /\ Str!returned.equivalent = Str!EquivalentSlices(args.a, args.b)
        /\ Str!returned.subset = Str!StrListSubset(a, b)
        /\ Str!returned.merged = Str!Slice(FALSE, merged)
    BY <2>3
  <2>5. /\ Str!StrListSubset(a, b) <=> Str!ToSet(b) \subseteq Str!ToSet(a)
        /\ Str!StrListSubset(b, a) <=> Str!ToSet(a) \subseteq Str!ToSet(b)
    BY <2>2, SubsetOfList
  <2>6. Str!ToSet(merged) = Str!ToSet(a) \cup Str!ToSet(b)
    BY <2>2, MergedIs
  <2>7. Str!EquivalentSlices(Str!returned.merged, Str!Slice(FALSE, a))
          <=> Str!ToSet(merged) = Str!ToSet(a)
    BY <2>4 DEF Str!EquivalentSlices, Str!Slice
  <2>8. Str!EquivalentSlices(args.a, args.b)
          <=> (args.a.nil <=> args.b.nil) /\ Str!ToSet(a) = Str!ToSet(b)
    BY <2>2 DEF Str!EquivalentSlices
  <2> HIDE DEF merged
  <2> QED BY <2>4, <2>5, <2>6, <2>7, <2>8
<1>3. ASSUME Str!Called("one")
      PROVE  /\ Str!ToSet(Str!returned.added) = Str!ToSet(args.a) \cup {args.s}
             /\ Str!ToSet(args.a) \ {args.s} \subseteq Str!ToSet(Str!returned.deleted)
             /\ Len(Str!returned.deleted)
                  = Len(args.a) - (IF Str!StrListContains(args.a, args.s) THEN 1 ELSE 0)
  <2>1. args.fn = "one" /\ Str!returned = Str!Call(args) /\ args \in Str!Inputs
    BY <1>3, ReturnedIs
  <2>2. args.a \in Seq(Str!Item) /\ args.s \in Str!Item
    BY <2>1, InputsOf, ListsTyped
  <2>3. Str!returned = [deleted |-> Str!StrListDelete(args.a, args.s),
                        added |-> Str!AppendIfMissing(args.a, args.s)]
    BY <2>1 DEF Str!Call
  <2>4. /\ Str!returned.deleted = Str!StrListDelete(args.a, args.s)
        /\ Str!returned.added = Str!AppendIfMissing(args.a, args.s)
    BY <2>3
  <2>5. Str!ToSet(Str!AppendIfMissing(args.a, args.s)) = Str!ToSet(args.a) \cup {args.s}
    BY <2>2, AddedIs
  <2>6. /\ Str!ToSet(args.a) \ {args.s} \subseteq Str!ToSet(Str!StrListDelete(args.a, args.s))
        /\ Len(Str!StrListDelete(args.a, args.s))
             = Len(args.a) - (IF Str!StrListContains(args.a, args.s) THEN 1 ELSE 0)
    BY <2>2, DeletedIs
  <2> QED BY <2>4, <2>5, <2>6
<1>4. ASSUME Str!Called("maps") PROVE Str!returned <=> args.out = args.other
  <2>1. args.fn = "maps" /\ Str!returned = Str!Call(args) /\ args \in Str!Inputs
    BY <1>4, ReturnedIs
  <2>2. args.out \in Str!KeyMaps /\ args.other \in Str!KeyMaps
    BY <2>1, InputsOf
  <2>3. Str!returned = Str!EqualStringMaps(args.out, args.other)
    BY <2>1 DEF Str!Call
  <2> QED BY <2>2, <2>3, EqualMaps
<1> QED BY <1>1, <1>2, <1>3, <1>4 DEF Str!SetsAgree

(* ParseArbitraryKeyValues keeps the map's keys, and adds the pairs'.      *)
LEMMA PairsStay == ASSUME Asked PROVE Str!PairsFromSomewhere
<1> SUFFICES ASSUME Str!Called("pairs")
             PROVE  /\ DOMAIN args.out \subseteq DOMAIN Str!returned.out
                    /\ \A key \in DOMAIN Str!returned.out :
                         \/ key \in DOMAIN args.out /\ Str!returned.out[key] = args.out[key]
                         \/ \E pair \in args.pairs :
                              pair.key = key /\ pair.value = Str!returned.out[key]
                    /\ ~ Str!returned.err /\ (args.json \/ args.pairs # {}) =>
                         /\ {pair.key : pair \in args.pairs} \subseteq DOMAIN Str!returned.out
                         /\ \A key \in DOMAIN Str!returned.out \ {0} : Str!returned.out[key] # 0
  BY DEF Str!PairsFromSomewhere
<1>1. args.fn = "pairs" /\ Str!returned = Str!Call(args) /\ args \in Str!Inputs
  BY ReturnedIs
<1>2. args.json \in BOOLEAN /\ args.pairs \in Str!PairSets
  BY <1>1, InputsOf
<1>3. args.pairs \subseteq Str!Pair
  BY <1>2 DEF Str!PairSets, Str!kSubset
<1>4. Str!returned = Str!ParseArbitraryKeyValues(args.json, args.pairs, args.out)
  BY <1>1 DEF Str!Call
<1>5. PairsKept(args.json, args.pairs, args.out, Str!returned)
  BY <1>3, <1>4, PairsAre
<1> QED BY <1>5 DEF PairsKept

(* GlobbedStringsMatch: a wildcard at an end stands for any characters.    *)
LEMMA WildcardsAre == ASSUME Asked PROVE Str!WildcardsMatch
<1> SUFFICES ASSUME Str!Called("glob"), Len(args.item) >= 2
             PROVE  LET lead == IF Head(args.item) = "*" THEN 1 ELSE 0
                        trail == IF Str!Last(args.item) = "*" THEN 1 ELSE 0
                        core == SubSeq(args.item, 1 + lead, Len(args.item) - trail)
                    IN  Str!returned
                          <=> \E i \in 0..Len(args.val) :
                                LET n == Len(args.val) - i - Len(core)
                                IN  /\ n >= 0 /\ SubSeq(args.val, i + 1, i + Len(core)) = core
                                    /\ (i > 0 => lead = 1) /\ (n > 0 => trail = 1)
  BY DEF Str!WildcardsMatch
<1>1. args.fn = "glob" /\ Str!returned = Str!Call(args) /\ args \in Str!Inputs
  BY ReturnedIs
<1>2. args.item \in Seq(Str!Char) /\ args.val \in Seq(Str!Char)
  BY <1>1, InputsOf, SeqOfIs, ListsAssumption
<1>3. Str!returned = Str!GlobbedStringsMatch(args.item, args.val)
  BY <1>1 DEF Str!Call
<1>4. Head(args.item) = args.item[1] /\ Str!Last(args.item) = args.item[Len(args.item)]
  BY <1>2 DEF Str!Last
<1>5. LET lead == IF args.item[1] = "*" THEN 1 ELSE 0
          trail == IF args.item[Len(args.item)] = "*" THEN 1 ELSE 0
          core == SubSeq(args.item, 1 + lead, Len(args.item) - trail)
      IN  Str!GlobbedStringsMatch(args.item, args.val)
            <=> \E i \in 0..Len(args.val) :
                  /\ PartAt(args.val, core, i)
                  /\ (i > 0 => lead = 1) /\ (Len(args.val) - i - Len(core) > 0 => trail = 1)
  BY <1>2, GlobIs
<1> QED BY <1>3, <1>4, <1>5 DEF PartAt

(* strutil: lists behave as the sets they stand for.  Removing duplicates  *)
(* keeps one string of each key and its order, differences, subsets and    *)
(* merges are those of the sets, pairs parsed into a map lose nothing that *)
(* was in it, and a wildcard at an end of a pattern stands for any         *)
(* characters, for any words and lists as long as a call may take.         *)
THEOREM ListsBehaveAsSets == MCSpec => []ListsAreSets
<1>1. Answered => ListsAreSets
  <2> SUFFICES ASSUME Asked PROVE Str!ListsAreSets
    BY DEF Answered, Asked, ListsAreSets
  <2> QED BY KeptOnce, SetsAre, PairsStay, WildcardsAre DEF Str!ListsAreSets
<1> QED BY <1>1, Answers, PTL
=============================================================================
