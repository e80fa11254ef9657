-------------------------- MODULE ErrorSummaryProofs --------------------------
(***************************************************************************)
(* The error summary, for payloads with any number of things wrong: what   *)
(* the loop of buildViewErrors has made of the first n details, by         *)
(* induction on n.  Induction is from the least element of a set of        *)
(* natural numbers, which WFMin gives without an operator parameter.       *)
(***************************************************************************)
EXTENDS GateProofs, WellFoundedInduction

LEMMA LeastNatural ==
    ASSUME NEW S \in SUBSET Nat, S # {}
    PROVE  \E m \in S : \A k \in S : m <= k
<1>1. PICK m \in S : \A k \in S : <<k, m>> \notin OpToRel(<, Nat)
  BY NatLessThanWellFounded, WFMin
<1>2. \A k \in S : ~(k < m)
  BY <1>1 DEF OpToRel
<1>3. QED
  BY <1>2

LEMMA Induction ==
    ASSUME NEW S, 0 \in S, \A n \in Nat : n \in S => n + 1 \in S
    PROVE  Nat \subseteq S
<1> SUFFICES ASSUME Nat \ S # {} PROVE FALSE
  OBVIOUS
<1>1. PICK m \in Nat \ S : \A k \in Nat \ S : m <= k
  BY LeastNatural
<1>2. m # 0
  OBVIOUS
<1>3. m - 1 \in Nat /\ ~(m <= m - 1)
  BY <1>2
<1>4. m - 1 \in S
  BY <1>1, <1>3
<1>5. m \in S
  BY <1>3, <1>4
<1>6. QED
  BY <1>5

-----------------------------------------------------------------------------
\* The loop: what it computes exists, and is what its turns say.

Turns(details, errors, last) ==
    errors = [n \in 0 .. last |->
                 IF n = 0 THEN NoErrors ELSE ShowDetail(errors[n - 1], details[n])]

LEMMA TurnsExist ==
    ASSUME NEW details
    PROVE  \A last \in Nat : \E errors : Turns(details, errors, last)
<1> DEFINE S == {last \in Nat : \E errors : Turns(details, errors, last)}
<1>1. 0 \in S
  <2> DEFINE e == [n \in 0 .. 0 |-> NoErrors]
  <2>1. e = [n \in 0 .. 0 |-> IF n = 0 THEN NoErrors ELSE ShowDetail(e[n - 1], details[n])]
    OBVIOUS
  <2>2. Turns(details, e, 0)
    BY <2>1 DEF Turns
  <2>3. QED
    BY <2>2
<1>2. ASSUME NEW m \in Nat, m \in S PROVE m + 1 \in S
  <2>1. PICK errors : Turns(details, errors, m)
    BY <1>2
  <2> DEFINE e == [n \in 0 .. m + 1 |->
                      IF n = m + 1 THEN ShowDetail(errors[m], details[m + 1]) ELSE errors[n]]
  <2>2. ASSUME NEW n \in 0 .. m + 1
        PROVE  e[n] = IF n = 0 THEN NoErrors ELSE ShowDetail(e[n - 1], details[n])
    <3>1. CASE n = m + 1
      <4>1. n # 0 /\ n - 1 = m /\ m \in 0 .. m + 1 /\ m # m + 1
        BY <3>1
      <4>2. e[n - 1] = errors[m] /\ e[n] = ShowDetail(errors[m], details[m + 1])
        BY <3>1, <4>1
      <4>3. QED
        BY <3>1, <4>1, <4>2
    <3>2. CASE n # m + 1
      <4>1. n \in 0 .. m
        BY <3>2
      <4>2. e[n] = errors[n] /\ (n # 0 => e[n - 1] = errors[n - 1])
        BY <3>2, <4>1
      <4>3. errors[n] = IF n = 0 THEN NoErrors ELSE ShowDetail(errors[n - 1], details[n])
        BY <2>1, <4>1 DEF Turns
      <4>4. QED
        BY <4>2, <4>3
    <3>3. QED
      BY <3>1, <3>2
  <2>3. e = [n \in 0 .. m + 1 |->
                IF n = 0 THEN NoErrors ELSE ShowDetail(e[n - 1], details[n])]
    BY <2>2
  <2> HIDE DEF e
  <2>4. Turns(details, e, m + 1)
    BY <2>3 DEF Turns
  <2>5. QED
    BY <2>4
<1> HIDE DEF S
<1>3. Nat \subseteq S
  BY <1>1, <1>2, Induction
<1>4. QED
  BY <1>3 DEF S

LEMMA ErrorsTurnByTurn ==
    ASSUME NEW details \in Seq(Detail)
    PROVE  /\ ErrorsAfter(details)[0] = NoErrors
           /\ \A n \in 1 .. Len(details) :
                  ErrorsAfter(details)[n] = ShowDetail(ErrorsAfter(details)[n - 1], details[n])
<1> DEFINE errors == ErrorsAfter(details)
           last == Len(details)
<1>1. last \in Nat
  OBVIOUS
<1>2. \E e : e = [n \in 0 .. last |->
                     IF n = 0 THEN NoErrors ELSE ShowDetail(e[n - 1], details[n])]
  BY <1>1, TurnsExist DEF Turns
<1>3. errors = [n \in 0 .. last |->
                   IF n = 0 THEN NoErrors ELSE ShowDetail(errors[n - 1], details[n])]
  BY <1>2, Zenon DEF ErrorsAfter
<1> HIDE DEF errors
<1>4. 0 \in 0 .. last /\ \A n \in 1 .. last : n \in 0 .. last /\ n # 0
  BY <1>1
<1>5. errors[0] = NoErrors
  BY <1>3, <1>4, Zenon
<1>6. ASSUME NEW n \in 1 .. last PROVE errors[n] = ShowDetail(errors[n - 1], details[n])
  BY <1>3, <1>4, Zenon
<1>7. QED
  BY <1>5, <1>6 DEF errors

-----------------------------------------------------------------------------
\* The loop invariant: what there is to show of the first n details.

FirstUpTo(details, n) == {k \in FirstOfField(details) : k <= n}

Line(detail) == [text |-> detail.message, href |-> detail.path]
SummaryLines == {Line(detail) : detail \in Detail}

\* The lines, each at its place among the details.
Lists(errorList, details, firsts) ==
    \E place \in [1 .. Len(errorList) -> firsts] :
        /\ \A i, j \in 1 .. Len(errorList) : i < j => place[i] < place[j]
        /\ \A k \in firsts : \E i \in 1 .. Len(errorList) : place[i] = k
        /\ \A i \in 1 .. Len(errorList) : errorList[i] = Line(details[place[i]])

ShowsFirst(errors, details, n) ==
    /\ errors.errorList \in Seq(SummaryLines)
    /\ DOMAIN errors.fields = {details[k].path : k \in 1 .. n}
    /\ Lists(errors.errorList, details, FirstUpTo(details, n))
    /\ \A k \in FirstUpTo(details, n) : errors.fields[details[k].path] = details[k].message

LEMMA NothingToShow ==
    ASSUME NEW details \in Seq(Detail)
    PROVE  ShowsFirst(NoErrors, details, 0)
<1>1. FirstUpTo(details, 0) = {}
  BY DEF FirstUpTo, FirstOfField
<1>2. NoErrors.errorList = <<>> /\ NoErrors.fields = [f \in {} |-> None]
  BY DEF NoErrors
<1>3. Len(NoErrors.errorList) = 0 /\ NoErrors.errorList \in Seq(SummaryLines)
  BY <1>2
<1>4. Lists(NoErrors.errorList, details, {})
  <2> DEFINE place == [i \in {} |-> 0]
  <2>1. 1 .. Len(NoErrors.errorList) = {}
    BY <1>3
  <2>2. place \in [{} -> {}]
    OBVIOUS
  <2>3. QED
    BY <2>1, <2>2 DEF Lists
<1>5. {details[k].path : k \in 1 .. 0} = {}
  OBVIOUS
<1>6. DOMAIN NoErrors.fields = {}
  BY <1>2
<1>7. QED
  BY <1>1, <1>3, <1>4, <1>5, <1>6 DEF ShowsFirst

LEMMA OneTurn ==
    ASSUME NEW details \in Seq(Detail), NEW n \in Nat, n + 1 \in 1 .. Len(details),
           NEW errors, ShowsFirst(errors, details, n)
    PROVE  ShowsFirst(ShowDetail(errors, details[n + 1]), details, n + 1)
<1> DEFINE d == details[n + 1]
           list == errors.errorList
           firsts == FirstUpTo(details, n)
<1>1. d \in Detail /\ \A k \in 1 .. Len(details) : details[k] \in Detail
  OBVIOUS
<1>2. Line(d) \in SummaryLines
  BY <1>1 DEF SummaryLines
<1>3. /\ list \in Seq(SummaryLines)
      /\ DOMAIN errors.fields = {details[k].path : k \in 1 .. n}
      /\ Lists(list, details, firsts)
      /\ \A k \in firsts : errors.fields[details[k].path] = details[k].message
  BY DEF ShowsFirst
<1>4. firsts \subseteq 1 .. n
  BY DEF FirstUpTo, FirstOfField
<1>5. {details[k].path : k \in 1 .. n + 1} = {details[k].path : k \in 1 .. n} \cup {d.path}
  <2>1. 1 .. n + 1 = (1 .. n) \cup {n + 1}
    OBVIOUS
  <2>2. QED
    BY <2>1
<1>6. CASE d.path \in DOMAIN errors.fields
  <2>1. PICK k \in 1 .. n : details[k].path = d.path
    BY <1>3, <1>6
  <2>2. n + 1 \notin FirstOfField(details)
    BY <2>1 DEF FirstOfField
  <2>3. FirstUpTo(details, n + 1) = firsts
    BY <2>2 DEF FirstUpTo, FirstOfField
  <2>4. ShowDetail(errors, d) = errors
    BY <1>6 DEF ShowDetail
  <2>5. {details[j].path : j \in 1 .. n + 1} = DOMAIN errors.fields
    BY <1>3, <1>5, <1>6
  <2>6. QED
    BY <1>3, <2>3, <2>4, <2>5 DEF ShowsFirst
<1>7. CASE d.path \notin DOMAIN errors.fields
  <2> DEFINE shown == ShowDetail(errors, d)
  <2>1. /\ shown.errorList = Append(list, Line(d))
        /\ shown.fields = [f \in DOMAIN errors.fields \cup {d.path} |->
                              IF f = d.path THEN d.message ELSE errors.fields[f]]
    BY <1>7 DEF ShowDetail, Line
  <2> HIDE DEF shown
  <2>2. \A k \in 1 .. n : details[k].path # d.path
    BY <1>3, <1>7
  <2>3. n + 1 \in FirstOfField(details)
    BY <2>2 DEF FirstOfField
  <2>4. FirstUpTo(details, n + 1) = firsts \cup {n + 1}
    BY <2>3 DEF FirstUpTo, FirstOfField
  <2>5. DOMAIN shown.fields = {details[k].path : k \in 1 .. n + 1}
    BY <1>3, <1>5, <2>1
  <2>6. ASSUME NEW k \in FirstUpTo(details, n + 1)
        PROVE  shown.fields[details[k].path] = details[k].message
    <3>1. CASE k = n + 1
      BY <2>1, <3>1
    <3>2. CASE k \in firsts
      <4>1. k \in 1 .. n /\ details[k].path # d.path
        BY <1>4, <2>2, <3>2
      <4>2. details[k].path \in DOMAIN errors.fields
        BY <1>3, <4>1
      <4>3. QED
        BY <1>3, <2>1, <3>2, <4>1, <4>2
    <3>3. QED
      BY <2>4, <3>1, <3>2
  <2>7. /\ shown.errorList \in Seq(SummaryLines)
        /\ Len(shown.errorList) = Len(list) + 1
        /\ \A i \in 1 .. Len(list) : shown.errorList[i] = list[i]
        /\ shown.errorList[Len(list) + 1] = Line(d)
        /\ Len(list) \in Nat
    BY <1>2, <1>3, <2>1
  <2>8. Lists(shown.errorList, details, firsts \cup {n + 1})
    <3>1. PICK place \in [1 .. Len(list) -> firsts] :
              /\ \A i, j \in 1 .. Len(list) : i < j => place[i] < place[j]
              /\ \A k \in firsts : \E i \in 1 .. Len(list) : place[i] = k
              /\ \A i \in 1 .. Len(list) : list[i] = Line(details[place[i]])
      BY <1>3 DEF Lists
    <3> DEFINE m == Len(list)
               q == [i \in 1 .. m + 1 |-> IF i = m + 1 THEN n + 1 ELSE place[i]]
    <3>2. /\ \A i \in 1 .. m : i \in 1 .. m + 1 /\ i # m + 1 /\ q[i] = place[i]
          /\ q[m + 1] = n + 1 /\ m + 1 \in 1 .. m + 1
      BY <2>7
    <3>3. \A i \in 1 .. m + 1 : i \in 1 .. m \/ i = m + 1
      BY <2>7
    <3>4. q \in [1 .. m + 1 -> firsts \cup {n + 1}]
      BY <3>1, <3>2, <3>3
    <3> HIDE DEF q, m
    <3>5. \A i \in 1 .. m : place[i] \in 1 .. n
      BY <1>4, <3>1 DEF m
    <3>6. ASSUME NEW i \in 1 .. m + 1, NEW j \in 1 .. m + 1, i < j
          PROVE  q[i] < q[j]
      <4>1. i \in 1 .. m /\ q[i] = place[i] /\ place[i] \in 1 .. n
        BY <2>7, <3>2, <3>5, <3>6 DEF m
      <4>2. CASE j = m + 1
        BY <3>2, <4>1, <4>2
      <4>3. CASE j \in 1 .. m
        BY <3>1, <3>2, <3>6, <4>1, <4>3 DEF m
      <4>4. QED
        BY <3>3, <4>2, <4>3
    <3>7. \A k \in firsts \cup {n + 1} : \E i \in 1 .. m + 1 : q[i] = k
      BY <3>1, <3>2 DEF m
    <3>8. \A i \in 1 .. m + 1 : shown.errorList[i] = Line(details[q[i]])
      BY <2>7, <3>1, <3>2, <3>3 DEF m
    <3>9. Len(shown.errorList) = m + 1
      BY <2>7 DEF m
    <3>10. QED
      BY <3>4, <3>6, <3>7, <3>8, <3>9 DEF Lists
  <2>9. ShowsFirst(shown, details, n + 1)
    BY <2>4, <2>5, <2>6, <2>7, <2>8 DEF ShowsFirst
  <2>10. QED
    BY <2>9 DEF shown
<1>8. QED
  BY <1>6, <1>7

LEMMA ErrorsShowFirst ==
    ASSUME NEW details \in Seq(Detail)
    PROVE  ShowsFirst(BuildViewErrors(details), details, Len(details))
<1> DEFINE errors == ErrorsAfter(details)
           S == {n \in Nat : n <= Len(details) => ShowsFirst(errors[n], details, n)}
<1>1. 0 \in S
  BY NothingToShow, ErrorsTurnByTurn
<1>2. ASSUME NEW n \in Nat, n \in S PROVE n + 1 \in S
  <2> SUFFICES ASSUME n + 1 <= Len(details) PROVE ShowsFirst(errors[n + 1], details, n + 1)
    OBVIOUS
  <2>1. n + 1 \in 1 .. Len(details) /\ n <= Len(details) /\ (n + 1) - 1 = n
    OBVIOUS
  <2>2. errors[n + 1] = ShowDetail(errors[n], details[n + 1])
    BY <2>1, ErrorsTurnByTurn
  <2>3. ShowsFirst(errors[n], details, n)
    BY <1>2, <2>1
  <2> HIDE DEF errors
  <2>4. QED
    BY <2>1, <2>2, <2>3, OneTurn
<1> HIDE DEF S
<1>3. Nat \subseteq S
  BY <1>1, <1>2, Induction
<1>4. Len(details) \in S
  BY <1>3
<1>5. QED
  BY <1>4 DEF S, BuildViewErrors

\* FirstMessageWins: for payloads with any number of things wrong, in any order,
\* the summary has the first message of each field, in Joi's order, and no other.
THEOREM FirstMessagesWin == Spec => []FirstMessageWins
<1>1. TypeOK => FirstMessageWins
  <2> SUFFICES ASSUME TypeOK, NEW s \in Slots, At(s, "answered"),
                      visit[s].answer \in {"createErrors", "inviteErrors"}
               PROVE  LET details == visit[s].details
                          errors == BuildViewErrors(details)
                          lines == 1 .. Len(errors.errorList)
                      IN /\ \E place \in [lines -> FirstOfField(details)] :
                             /\ \A i, j \in lines : i < j => place[i] < place[j]
                             /\ \A n \in FirstOfField(details) : \E i \in lines : place[i] = n
                             /\ \A i \in lines :
                                    errors.errorList[i] = [text |-> details[place[i]].message,
                                                           href |-> details[place[i]].path]
                         /\ \A n \in FirstOfField(details) :
                                errors.fields[details[n].path] = details[n].message
    BY DEF FirstMessageWins
  <2> DEFINE details == visit[s].details
             errors == BuildViewErrors(details)
  <2>1. details \in Seq(Detail)
    BY DEF TypeOK, At, Visit
  <2>2. ShowsFirst(errors, details, Len(details))
    BY <2>1, ErrorsShowFirst
  <2>3. FirstUpTo(details, Len(details)) = FirstOfField(details)
    BY <2>1 DEF FirstUpTo, FirstOfField
  <2> HIDE DEF details, errors
  <2>4. /\ Lists(errors.errorList, details, FirstOfField(details))
        /\ \A n \in FirstOfField(details) : errors.fields[details[n].path] = details[n].message
    BY <2>2, <2>3 DEF ShowsFirst
  <2>5. QED
    BY <2>4 DEF Lists, Line, details, errors
<1>2. QED
  BY <1>1, GateTypesHold, PTL

=============================================================================
