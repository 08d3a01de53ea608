---------------------------- MODULE OpkgVersion ----------------------------
(* The order of package versions in opkg (libopkg/pkg.c).  A version is a    *)
(* record [epoch, version, revision]; the two strings are sequences of       *)
(* character codes, without the terminating NUL.                             *)
EXTENDS Integers, Sequences

Char == 1..127
Text == Seq(Char)
Version == [epoch : Nat, version : Text, revision : Text]

Tilde == 126
IsDigit(c) == c \in 48..57
IsAlpha(c) == c \in 65..90 \cup 97..122

(* The character val points to: 0 at the end of the string.                  *)
At0(s) == IF s = <<>> THEN 0 ELSE Head(s)

(* A mutant: the tilde sorts like any other sign.                            *)
order_NoTilde(c) ==
  CASE IsDigit(c) \/ c = 0 -> 0
    [] IsAlpha(c) -> c
    [] OTHER -> c + 256

order(c) ==
  CASE c = Tilde -> -1
    [] IsDigit(c) \/ c = 0 -> 0
    [] IsAlpha(c) -> c
    [] OTHER -> c + 256

NonDigit(s) == s # <<>> /\ ~IsDigit(Head(s))

(* The variables of verrevcmp, and what each of its inner loops makes of     *)
(* them: the text is skipped as far as it is the same, the zeroes before a   *)
(* number, the digits that both have, with the first difference.             *)
Pointers == [val : Text, ref : Text, first_diff : Int]
Both(val, ref) == [val |-> val, ref |-> ref, first_diff |-> 0]
Advance(at) == [at EXCEPT !.val = Tail(@), !.ref = Tail(@)]

SkipText[at \in Pointers] ==
  IF (NonDigit(at.val) \/ NonDigit(at.ref)) /\ order(At0(at.val)) = order(At0(at.ref))
  THEN SkipText[Advance(at)] ELSE at

SkipZeroes[s \in Text] == IF At0(s) = 48 THEN SkipZeroes[Tail(s)] ELSE s

SkipDigits[at \in Pointers] ==
  IF IsDigit(At0(at.val)) /\ IsDigit(At0(at.ref))
  THEN SkipDigits[[Advance(at) EXCEPT !.first_diff =
                     IF @ = 0 THEN Head(at.val) - Head(at.ref) ELSE @]]
  ELSE at

(* Text, then a number, then from the start again.                           *)
verrevcmp[at \in Pointers] ==
  IF at.val = <<>> /\ at.ref = <<>> THEN 0
  ELSE LET text   == SkipText[at]
           number == SkipDigits[Both(SkipZeroes[text.val], SkipZeroes[text.ref])]
           vc     == order(At0(text.val))
           rc     == order(At0(text.ref))
       IN  IF vc # rc THEN vc - rc
           ELSE IF IsDigit(At0(number.val)) THEN 1
           ELSE IF IsDigit(At0(number.ref)) THEN -1
           ELSE IF number.first_diff # 0 THEN number.first_diff
           ELSE verrevcmp[number]

Compare(v, w) ==
  IF v.epoch # w.epoch THEN (IF v.epoch > w.epoch THEN 1 ELSE -1)
  ELSE LET r == verrevcmp[Both(v.version, w.version)]
       IN  IF r # 0 THEN r ELSE verrevcmp[Both(v.revision, w.revision)]

-----------------------------------------------------------------------------
(* The order the algorithm should compute: a string is cut into one number   *)
(* per character of text, a 0 at the end of each text, and the value of each *)
(* number; the longer of two strings that agree is compared with 0s.         *)
Rank(c) == IF c = Tilde THEN -1 ELSE IF IsAlpha(c) THEN c ELSE c + 256

(* The digits a text begins with are read: what is left, and their value.    *)
ReadNumber[at \in [text : Text, value : Nat]] ==
  IF IsDigit(At0(at.text))
  THEN ReadNumber[[text |-> Tail(at.text), value |-> 10 * at.value + Head(at.text) - 48]]
  ELSE at
Number(s) == ReadNumber[[text |-> s, value |-> 0]]

Weights[s \in Text] ==
  IF s = <<>> THEN <<>>
  ELSE IF IsDigit(Head(s)) THEN <<0, Number(s).value>> \o Weights[Number(s).text]
  ELSE <<Rank(Head(s))>> \o Weights[Tail(s)]

Weight(w, i) == IF i <= Len(w) THEN w[i] ELSE 0

Sign(i) == IF i < 0 THEN -1 ELSE IF i > 0 THEN 1 ELSE 0

(* The sign of the first difference between two lists of weights.            *)
FirstDifference(v, w) ==
  LET D == {i \in 1..(Len(v) + Len(w)) : Weight(v, i) # Weight(w, i)}
  IN  IF D = {} THEN 0
      ELSE LET i == CHOOSE i \in D : \A j \in D : i <= j
           IN  Sign(Weight(v, i) - Weight(w, i))

Reference(s, t) == FirstDifference(Weights[s], Weights[t])
=============================================================================
