---------------------------- MODULE SocialProofs ----------------------------
(***************************************************************************)
(* Proofs about users and what they change, for every set of users,        *)
(* requests and failures: that an edited channel is shown as it is stored, *)
(* that the two sides of a relationship agree once settled, that handles   *)
(* are unique and the banned are out, and that two users have one direct   *)
(* message.                                                                *)
(***************************************************************************)
EXTENDS ChannelEdits, Relationships, Accounts, DirectMessages, TLAPS

(* Leaves go to Zenon unless they name another prover. *)
USE Zenon

(***************************************************************************)
(* Edits of channels.  Two edits under way share only uncertain fields, so *)
(* how far an edit got says what the document, the client, the files and   *)
(* the announcements have of each field it names.                          *)
(***************************************************************************)
Edit(q) == change[q].e

EditsShape ==
    /\ DOMAIN change = ERequests
    /\ kind \in {"text", "group", "webhook"}
    /\ DOMAIN doc = FieldsOf(kind) /\ DOMAIN follows = FieldsOf(kind)
    /\ \A q \in Active : Due(q) \in Calls(Edit(q)) /\ Touched(Edit(q)) \subseteq FieldsOf(kind)

Apart == \A p, q \in Active : p # q => Touched(Edit(p)) \cap Touched(Edit(q)) \subseteq uncertain

(* The client lags behind only in the fields of edits about to be published, *)
(* and those are stored as they will be shown.                             *)
Followed ==
    /\ \A f \in FieldsOf(kind) \ uncertain :
          \/ follows[f] = doc[f]
          \/ \E q \in Active : Due(q) = "publish" /\ f \in Touched(Edit(q))
    /\ \A q \in Active : Due(q) = "publish" =>
          \A f \in Touched(Edit(q)) \ uncertain :
              doc[f] = IF f \in DOMAIN Edit(q).sets THEN Edit(q).sets[f] ELSE Unset

(* An icon is used before it is written; one that is marked as deleted is  *)
(* still shown only while its edit can end in no other way than without it. *)
FilesClaimed ==
    /\ Unset \notin erased /\ erased \subseteq claimed
    /\ doc["icon"] \in claimed \cup {Unset}
    /\ \A q \in Active : change[q].copy["icon"] \in claimed \cup {Unset}
    /\ \A q \in Active : Due(q) \in {"announce", "check", "write"} /\ "icon" \in DOMAIN Edit(q).sets
                            => Edit(q).sets["icon"] \in claimed

Erasing(q) ==
    /\ q \in Active /\ "icon" \in Edit(q).remove
    /\ Marks(Edit(q), change[q].copy) # {}
    /\ Due(q) \in {"find", "use", "announce", "check", "write"}

IconKept ==
    "icon" \notin uncertain =>
        /\ \A q \in Active :
              Due(q) \in {"use", "announce", "check", "write"} /\ "icon" \in DOMAIN Edit(q).sets
                  => Edit(q).sets["icon"] \notin erased
        /\ doc["icon"] \in erased => \E q \in ERequests : Erasing(q)

ToldOf(f, v) == <<f, v>> \in announced \cup unsaid

GroupTold ==
    kind = "group" =>
        /\ \A q \in Active : Due(q) \in {"check", "write"} =>
              \A f \in DOMAIN Edit(q).sets \cap Told : ToldOf(f, Edit(q).sets[f])
        /\ \A f \in Told : doc[f] # Unset => ToldOf(f, doc[f])

EditsIInv == EditsShape /\ Apart /\ Followed /\ FilesClaimed /\ IconKept /\ GroupTold

LEMMA CallNames ==
    ASSUME NEW e, NEW c \in Calls(e)
    PROVE  /\ c \in {"mark", "find", "use", "announce", "check", "write", "publish"}
           /\ c = "mark" => kind # "webhook" /\ "icon" \in e.remove
           /\ c \in {"find", "use"} => "icon" \in DOMAIN e.sets
  BY DEF Calls

(* The first call of an edit, and the one after the call that is due. *)
LEMMA FirstCall ==
    ASSUME NEW e, NEW c \in Earliest(Calls(e))
    PROVE  /\ c \in Calls(e) /\ c # "publish"
           /\ "icon" \in DOMAIN e.sets => c \in {"mark", "find"}
           /\ kind = "group" /\ DOMAIN e.sets \cap Told # {} => c \notin {"check", "write"}
<1>1. c \in Calls(e) /\ \A d \in Calls(e) : Rank[c] <= Rank[d]
  BY DEF Earliest
<1>2. c \in {"mark", "find", "use", "announce", "check", "write", "publish"}
  BY <1>1, CallNames
<1>3. c # "publish"
  BY <1>1, <1>2, SMT DEF Rank, Calls
<1>4. "icon" \in DOMAIN e.sets => "find" \in Calls(e)
  BY DEF Calls
<1>5. kind = "group" /\ DOMAIN e.sets \cap Told # {} => "announce" \in Calls(e)
  BY DEF Calls
<1> QED
  BY <1>1, <1>2, <1>3, <1>4, <1>5, SMT DEF Rank

LEMMA NextCall ==
    ASSUME NEW e, NEW b \in Calls(e), NEW c \in Earliest({d \in Calls(e) : Rank[d] > Rank[b]})
    PROVE  /\ c \in Calls(e)
           /\ b # "write" => c # "publish"
           /\ b = "write" => c = "publish"
           /\ "icon" \in DOMAIN e.sets => (b = "mark" => c = "find") /\ (b = "find" => c = "use")
           /\ kind = "group" /\ DOMAIN e.sets \cap Told # {} /\ b \in {"mark", "find", "use"}
                => c \notin {"check", "write"}
           /\ b # "mark" => c \in {"use", "announce", "check", "write", "publish"}
           /\ c # "mark"
           /\ b \notin {"mark", "find"} => c # "use"
<1>1. c \in Calls(e) /\ Rank[c] > Rank[b] /\ \A d \in Calls(e) : Rank[d] > Rank[b] => Rank[c] <= Rank[d]
  BY DEF Earliest
<1>2. /\ c \in {"mark", "find", "use", "announce", "check", "write", "publish"}
      /\ b \in {"mark", "find", "use", "announce", "check", "write", "publish"}
  BY <1>1, CallNames
<1>3. "write" \in Calls(e) /\ "publish" \in Calls(e)
  BY DEF Calls
<1>4. "icon" \in DOMAIN e.sets => "find" \in Calls(e) /\ "use" \in Calls(e)
  BY DEF Calls
<1>5. kind = "group" /\ DOMAIN e.sets \cap Told # {} => "announce" \in Calls(e)
  BY DEF Calls
<1>6. b # "write" => c # "publish"
  BY <1>1, <1>2, <1>3, SMT DEF Rank
<1>7. b = "write" => c = "publish"
  BY <1>1, <1>2, <1>3, SMT DEF Rank
<1>8. "icon" \in DOMAIN e.sets => (b = "mark" => c = "find") /\ (b = "find" => c = "use")
  BY <1>1, <1>2, <1>4, SMT DEF Rank
<1>9. kind = "group" /\ DOMAIN e.sets \cap Told # {} /\ b \in {"mark", "find", "use"}
                => c \notin {"check", "write"}
  BY <1>1, <1>2, <1>5, SMT DEF Rank
<1>10. /\ b # "mark" => c \in {"use", "announce", "check", "write", "publish"}
       /\ c # "mark"
       /\ b \notin {"mark", "find"} => c # "use"
  BY <1>1, <1>2, SMT DEF Rank
<1> QED
  BY <1>1, <1>6, <1>7, <1>8, <1>9, <1>10

LEMMA MovesTo ==
    ASSUME EditsShape, NEW q \in ERequests, NEW c, Moves(q, c)
    PROVE  /\ DOMAIN change' = ERequests
           /\ change'[q] = c
           /\ \A p \in ERequests : p # q => change'[p] = change[p]
  BY DEF EditsShape, Moves

LEMMA EditsInitOK ==
    ASSUME EditsInit
    PROVE  EditsIInv
<1>1. Active = {}
  BY DEF EditsInit, Active, Due, ToCome
<1>2. "icon" \in FieldsOf(kind) /\ (kind = "group" => Told = FieldsOf(kind))
  BY DEF EditsInit, FieldsOf, Told
<1> QED
  BY <1>1, <1>2 DEF EditsInit, EditsIInv, EditsShape, Apart, Followed, FilesClaimed, IconKept, GroupTold

(* The request q goes on with its next call. *)
LEMMA OnwardMoves ==
    ASSUME EditsIInv, NEW q \in Active, Onward(q), UNCHANGED kind, uncertain' = uncertain,
           DOMAIN doc' = FieldsOf(kind), DOMAIN follows' = FieldsOf(kind)
    PROVE  /\ EditsShape' /\ Apart'
           /\ Active' = Active
           /\ \A p \in Active : Edit(p)' = Edit(p) /\ change'[p].copy = change[p].copy
           /\ \A p \in Active : p # q => Due(p)' = Due(p)
           /\ Due(q)' \in Earliest({d \in Calls(Edit(q)) : Rank[d] > Rank[Due(q)]})
           /\ Due(q) \in Calls(Edit(q))
<1>1. q \in ERequests /\ EditsShape /\ Due(q) \in Calls(Edit(q))
  BY DEF EditsIInv, EditsShape, Active
<1>2. PICK c \in Earliest({d \in Calls(Edit(q)) : Rank[d] > Rank[Due(q)]}) :
        Moves(q, [at |-> c, e |-> Edit(q), copy |-> change[q].copy])
  BY DEF Onward, Edit
<1>3. /\ DOMAIN change' = ERequests
      /\ change'[q] = [at |-> c, e |-> Edit(q), copy |-> change[q].copy]
      /\ \A p \in ERequests : p # q => change'[p] = change[p]
  BY <1>1, <1>2, MovesTo
<1>4. c \in Calls(Edit(q)) /\ c \notin {"waiting", "answered"}
  <2>1. c \in Calls(Edit(q))
    BY DEF Earliest
  <2> QED
    BY <2>1, CallNames
<1>5. /\ Active' = Active
      /\ \A p \in Active : Edit(p)' = Edit(p) /\ change'[p].copy = change[p].copy
      /\ \A p \in Active : p # q => Due(p)' = Due(p)
      /\ Due(q)' = c
  <2>1. Edit(q)' = Edit(q) /\ change'[q].copy = change[q].copy /\ Due(q)' = c
    BY <1>3, SMT DEF Due, Edit
  <2>2. \A p \in ERequests : p # q =>
            Due(p)' = Due(p) /\ Edit(p)' = Edit(p) /\ change'[p].copy = change[p].copy
    BY <1>3 DEF Due, Edit
  <2>3. \A p \in ERequests : p \in Active' <=> p \in Active
    BY <1>4, <2>1, <2>2 DEF Active
  <2> QED
    BY <2>1, <2>2, <2>3 DEF Active
<1>6. \A e : Calls(e)' = Calls(e) /\ Touched(e)' = Touched(e)
  BY SMT DEF Calls, Touched
<1>7. EditsShape'
  BY <1>1, <1>3, <1>4, <1>5, <1>6 DEF EditsShape
<1>8. Apart'
  BY <1>5, <1>6, SMT DEF EditsIInv, Apart
<1> QED
  BY <1>1, <1>2, <1>5, <1>7, <1>8

(* A check that passes changes nothing else. *)
LEMMA PassKeeps ==
    ASSUME EditsIInv, NEW q \in Active, Onward(q), Due(q) \in {"find", "check"},
           Due(q) = "find" => Edit(q).sets["icon"] \notin claimed,
           UNCHANGED <<kind, doc, claimed, erased, follows, announced, unsaid, uncertain>>
    PROVE  EditsIInv'
<1> DEFINE c == Due(q)'
<1>1. /\ EditsShape' /\ Apart' /\ Active' = Active
      /\ \A p \in Active : Edit(p)' = Edit(p) /\ change'[p].copy = change[p].copy
      /\ \A p \in Active : p # q => Due(p)' = Due(p)
  BY OnwardMoves DEF EditsIInv, EditsShape
<1>2. /\ c # "publish"
      /\ Due(q) = "find" => c = "use"
      /\ Due(q) = "check" => c \in {"announce", "check", "write"}
  <2>1. /\ Due(q) \in Calls(Edit(q))
        /\ c \in Earliest({d \in Calls(Edit(q)) : Rank[d] > Rank[Due(q)]})
    BY OnwardMoves DEF EditsIInv, EditsShape
  <2> HIDE DEF c
  <2> QED
    BY <2>1, NextCall, CallNames, SMT
<1>3. Followed'
  BY <1>1, <1>2, SMT DEF EditsIInv, Followed, Touched
<1>4. FilesClaimed'
  BY <1>1, <1>2 DEF EditsIInv, FilesClaimed
<1>5. IconKept'
  <2> SUFFICES ASSUME "icon" \notin uncertain PROVE IconKept'
    BY DEF IconKept
  <2>1. ASSUME NEW p \in Active, Due(p)' \in {"use", "announce", "check", "write"},
               "icon" \in DOMAIN Edit(p).sets
        PROVE  Edit(p).sets["icon"] \notin erased
    BY <2>1, <1>1, <1>2 DEF EditsIInv, IconKept, FilesClaimed
  <2>2. ASSUME NEW p \in ERequests, Erasing(p) PROVE Erasing(p)'
    BY <2>2, <1>1, <1>2 DEF Erasing, Marks
  <2> QED
    BY <2>1, <2>2, <1>1 DEF EditsIInv, IconKept
<1>6. GroupTold'
  BY <1>1, <1>2, SMT DEF EditsIInv, GroupTold, ToldOf
<1> QED
  BY <1>1, <1>3, <1>4, <1>5, <1>6 DEF EditsIInv

LEMMA MarkKeeps ==
    ASSUME EditsIInv, NEW q \in ERequests, MarkIcon(q)
    PROVE  EditsIInv'
<1> DEFINE c == Due(q)'
<1>0. q \in Active /\ Onward(q) /\ Due(q) = "mark"
  BY DEF MarkIcon, Active
<1>1. /\ EditsShape' /\ Apart' /\ Active' = Active
      /\ \A p \in Active : Edit(p)' = Edit(p) /\ change'[p].copy = change[p].copy
      /\ \A p \in Active : p # q => Due(p)' = Due(p)
  BY <1>0, OnwardMoves DEF EditsIInv, EditsShape, MarkIcon
<1>2. /\ c \in {"find", "use", "announce", "check", "write"}
      /\ "icon" \in DOMAIN Edit(q).sets => c = "find"
      /\ kind = "group" /\ DOMAIN Edit(q).sets \cap Told # {} => c \notin {"check", "write"}
      /\ "icon" \in Edit(q).remove
  <2>1. /\ Due(q) \in Calls(Edit(q))
        /\ c \in Earliest({d \in Calls(Edit(q)) : Rank[d] > Rank[Due(q)]})
    BY <1>0, OnwardMoves DEF EditsIInv, EditsShape, MarkIcon
  <2> HIDE DEF c
  <2> QED
    BY <1>0, <2>1, NextCall, CallNames, SMT
<1>3. Followed'
  BY <1>0, <1>1, <1>2, SMT DEF EditsIInv, Followed, Touched, MarkIcon
<1>4. /\ erased' = erased \cup Marks(Edit(q), change[q].copy)
      /\ Marks(Edit(q), change[q].copy) \subseteq {change[q].copy["icon"]} \ {Unset}
  BY DEF MarkIcon, Marks, Edit
<1>5. FilesClaimed'
  BY <1>0, <1>1, <1>2, <1>4, SMT DEF EditsIInv, FilesClaimed, MarkIcon
<1>6. IconKept'
  <2> SUFFICES ASSUME "icon" \notin uncertain PROVE IconKept'
    BY DEF IconKept, MarkIcon
  <2>1. ASSUME NEW p \in Active, Due(p)' \in {"use", "announce", "check", "write"},
               "icon" \in DOMAIN Edit(p).sets
        PROVE  FALSE
    <3>1. p # q
      BY <2>1, <1>2
    <3> QED
      BY <2>1, <3>1, <1>0, <1>2 DEF EditsIInv, Apart, Touched
  <2>2. ASSUME NEW p \in ERequests, Erasing(p) PROVE Erasing(p)'
    BY <2>2, <1>0, <1>1 DEF Erasing, Marks, MarkIcon
  <2>3. Marks(Edit(q), change[q].copy) # {} => Erasing(q)'
    BY <1>0, <1>1, <1>2 DEF Erasing, Marks, MarkIcon
  <2>4. doc'["icon"] \in erased' => \E p \in ERequests : Erasing(p)'
    BY <2>2, <2>3, <1>4 DEF EditsIInv, IconKept, MarkIcon
  <2> QED
    BY <2>1, <2>4, <1>1 DEF IconKept
<1>7. GroupTold'
  BY <1>0, <1>1, <1>2, SMT DEF EditsIInv, GroupTold, ToldOf, MarkIcon
<1> QED
  BY <1>1, <1>3, <1>5, <1>6, <1>7 DEF EditsIInv

LEMMA UseKeeps ==
    ASSUME EditsIInv, NEW q \in ERequests, UseIcon(q)
    PROVE  EditsIInv'
<1> DEFINE c == Due(q)'
<1>0. q \in Active /\ Onward(q) /\ Due(q) = "use"
  BY DEF UseIcon, Active
<1>1. /\ EditsShape' /\ Apart' /\ Active' = Active
      /\ \A p \in Active : Edit(p)' = Edit(p) /\ change'[p].copy = change[p].copy
      /\ \A p \in Active : p # q => Due(p)' = Due(p)
  BY <1>0, OnwardMoves DEF EditsIInv, EditsShape, UseIcon
<1>2. /\ c \in {"announce", "check", "write"}
      /\ kind = "group" /\ DOMAIN Edit(q).sets \cap Told # {} => c \notin {"check", "write"}
  <2>1. /\ Due(q) \in Calls(Edit(q))
        /\ c \in Earliest({d \in Calls(Edit(q)) : Rank[d] > Rank[Due(q)]})
    BY <1>0, OnwardMoves DEF EditsIInv, EditsShape, UseIcon
  <2> HIDE DEF c
  <2> QED
    BY <1>0, <2>1, NextCall, CallNames, SMT
<1>3. Followed'
  BY <1>0, <1>1, <1>2, SMT DEF EditsIInv, Followed, Touched, UseIcon
<1>4. claimed' = claimed \cup {Edit(q).sets["icon"]}
  BY DEF UseIcon, Edit
<1>5. FilesClaimed'
  BY <1>0, <1>1, <1>2, <1>4, SMTT(30) DEF EditsIInv, FilesClaimed, UseIcon
<1>6. IconKept'
  <2>1. ASSUME NEW p \in ERequests, Erasing(p) PROVE Erasing(p)'
    BY <2>1, <1>0, <1>1, <1>2 DEF Erasing, Marks, UseIcon
  <2> QED
    BY <2>1, <1>0, <1>1, <1>2 DEF EditsIInv, IconKept, UseIcon
<1>7. GroupTold'
  BY <1>0, <1>1, <1>2, SMT DEF EditsIInv, GroupTold, ToldOf, UseIcon
<1> QED
  BY <1>1, <1>3, <1>5, <1>6, <1>7 DEF EditsIInv

LEMMA AnnounceKeeps ==
    ASSUME EditsIInv, NEW q \in ERequests, NEW lost \in SUBSET Told, Announce(q, lost)
    PROVE  EditsIInv'
<1> DEFINE c == Due(q)'
<1>0. q \in Active /\ Onward(q) /\ Due(q) = "announce"
  BY DEF Announce, Active
<1>1. /\ EditsShape' /\ Apart' /\ Active' = Active
      /\ \A p \in Active : Edit(p)' = Edit(p) /\ change'[p].copy = change[p].copy
      /\ \A p \in Active : p # q => Due(p)' = Due(p)
  BY <1>0, OnwardMoves DEF EditsIInv, EditsShape, Announce
<1>2. c \in {"announce", "check", "write"}
  <2>1. /\ Due(q) \in Calls(Edit(q))
        /\ c \in Earliest({d \in Calls(Edit(q)) : Rank[d] > Rank[Due(q)]})
    BY <1>0, OnwardMoves DEF EditsIInv, EditsShape, Announce
  <2> HIDE DEF c
  <2> QED
    BY <1>0, <2>1, NextCall, CallNames, SMT
<1>3. Followed'
  BY <1>0, <1>1, <1>2, SMTT(30) DEF EditsIInv, Followed, Touched, Announce
<1>5. FilesClaimed'
  BY <1>0, <1>1, <1>2 DEF EditsIInv, FilesClaimed, Announce
<1>6. IconKept'
  <2>1. ASSUME NEW p \in ERequests, Erasing(p) PROVE Erasing(p)'
    BY <2>1, <1>0, <1>1, <1>2 DEF Erasing, Marks, Announce
  <2> QED
    BY <2>1, <1>0, <1>1, <1>2 DEF EditsIInv, IconKept, Announce
<1>7. GroupTold'
  <2> DEFINE news == {<<f, Edit(q).sets[f]>> : f \in DOMAIN Edit(q).sets \cap Told}
  <2>1. announced' \cup unsaid' = announced \cup unsaid \cup news
    BY DEF Announce, Edit
  <2>2. \A f \in DOMAIN Edit(q).sets \cap Told : ToldOf(f, Edit(q).sets[f])'
    BY <2>1, <1>0, <1>1 DEF ToldOf
  <2>3. \A f, v : ToldOf(f, v) => ToldOf(f, v)'
    BY <2>1 DEF ToldOf
  <2> QED
    BY <2>2, <2>3, <1>0, <1>1 DEF EditsIInv, GroupTold, Announce
<1> QED
  BY <1>1, <1>3, <1>5, <1>6, <1>7 DEF EditsIInv

LEMMA BeginKeeps ==
    ASSUME EditsIInv, NEW q \in ERequests, NEW e \in ChangeData, Begin(q, e)
    PROVE  EditsIInv'
<1>0. /\ EditsShape /\ q \notin Active /\ Touched(e) \subseteq FieldsOf(kind)
      /\ UNCHANGED <<kind, doc, claimed, erased, follows, announced, unsaid>>
  <2>0. change[q] = ToCome
    BY DEF Begin
  <2>1. Due(q) = "waiting"
    BY <2>0, SMT DEF Due, ToCome
  <2> QED
    BY <2>1 DEF EditsIInv, Begin, Active
<1>1. CASE ~Asks(e)
  <2>1. /\ DOMAIN change' = ERequests /\ change'[q] = Answered
        /\ \A p \in ERequests : p # q => change'[p] = change[p]
    BY <1>0, <1>1, MovesTo DEF Begin
  <2>2. Active' = Active /\ \A p \in Active : change'[p] = change[p]
    <3>1. Due(q)' = "answered" /\ \A p \in ERequests : p # q => Due(p)' = Due(p)
      BY <2>1, SMT DEF Due, Answered
    <3>2. \A p \in ERequests : p \in Active' <=> p \in Active
      BY <1>0, <3>1 DEF Active
    <3> QED
      BY <1>0, <2>1, <3>2 DEF Active
  <2>3. uncertain' = uncertain
    BY <1>1 DEF Begin
  <2>4. \A p \in ERequests : Erasing(p) => Erasing(p)'
    BY <1>0, <2>2 DEF Erasing, Marks, Edit, Due
  <2>5. \A p \in Active : Due(p)' = Due(p) /\ Edit(p)' = Edit(p)
    BY <2>2 DEF Due, Edit
  <2>6. EditsShape'
    BY <1>0, <2>1, <2>2, <2>5, SMT DEF EditsShape, Calls, Touched
  <2>7. Apart'
    BY <1>0, <2>2, <2>3, <2>5, SMT DEF EditsIInv, Apart, Touched
  <2>8. Followed'
    BY <1>0, <2>2, <2>3, <2>5, SMT DEF EditsIInv, Followed, Touched
  <2>9. FilesClaimed' /\ IconKept' /\ GroupTold'
    BY <1>0, <2>2, <2>3, <2>4, <2>5 DEF EditsIInv, FilesClaimed, IconKept, GroupTold, ToldOf
  <2> QED
    BY <2>6, <2>7, <2>8, <2>9 DEF EditsIInv
<1>2. CASE Asks(e)
  <2>1. PICK c \in Earliest(Calls(e)) : Moves(q, [at |-> c, e |-> e, copy |-> doc])
    BY <1>2 DEF Begin
  <2>2. /\ c \in Calls(e) /\ c # "publish"
        /\ "icon" \in DOMAIN e.sets => c \in {"mark", "find"}
        /\ kind = "group" /\ DOMAIN e.sets \cap Told # {} => c \notin {"check", "write"}
    BY FirstCall
  <2>3. c \notin {"waiting", "answered"}
    BY <2>2, CallNames
  <2>4. /\ DOMAIN change' = ERequests
        /\ change'[q] = [at |-> c, e |-> e, copy |-> doc]
        /\ \A p \in ERequests : p # q => change'[p] = change[p]
    BY <1>0, <2>1, MovesTo
  <2>5. /\ Due(q)' = c /\ Edit(q)' = e /\ change'[q].copy = doc
        /\ Active' = Active \cup {q}
        /\ \A p \in Active : change'[p] = change[p] /\ Due(p)' = Due(p) /\ Edit(p)' = Edit(p)
    <3>1. Due(q)' = c /\ Edit(q)' = e /\ change'[q].copy = doc
      BY <2>4, SMT DEF Due, Edit
    <3>2. \A p \in ERequests : p # q =>
              change'[p] = change[p] /\ Due(p)' = Due(p) /\ Edit(p)' = Edit(p)
      BY <2>4 DEF Due, Edit
    <3>3. \A p \in ERequests : p \in Active' <=> p \in Active \/ p = q
      BY <2>3, <3>1, <3>2 DEF Active
    <3> QED
      BY <1>0, <3>1, <3>2, <3>3 DEF Active
  <2>6. /\ uncertain \subseteq uncertain'
        /\ \A p \in Active : Touched(e) \cap Touched(Edit(p)) \subseteq uncertain'
    BY <1>2 DEF Begin, Edit
  <2>7. EditsShape'
    <3>1. Calls(e)' = Calls(e) /\ \A p \in Active : Calls(Edit(p))' = Calls(Edit(p))
      BY <1>0, <2>5, SMT DEF Calls
    <3>2. \A p \in Active' :
              Due(p)' \in Calls(Edit(p))' /\ Touched(Edit(p)') \subseteq FieldsOf(kind)
      <4>1. ASSUME NEW p \in Active
            PROVE  Due(p)' \in Calls(Edit(p))' /\ Touched(Edit(p)') \subseteq FieldsOf(kind)
        BY <1>0, <2>5, <3>1 DEF EditsShape
      <4>2. Due(q)' \in Calls(Edit(q))' /\ Touched(Edit(q)') \subseteq FieldsOf(kind)
        BY <1>0, <2>2, <2>5, <3>1 DEF Calls
      <4> QED
        BY <2>5, <4>1, <4>2
    <3> QED
      BY <1>0, <2>4, <3>2 DEF EditsShape, Touched
  <2>8. Apart'
    <3>1. \A p \in Active : Touched(e) \cap Touched(Edit(p)) \subseteq uncertain'
                            /\ Touched(Edit(p)) \cap Touched(e) \subseteq uncertain'
      BY <2>6
    <3>2. \A o, p \in Active : o # p => Touched(Edit(o)) \cap Touched(Edit(p)) \subseteq uncertain'
      BY <2>6 DEF EditsIInv, Apart
    <3>3. \A o, p \in Active' :
              o # p => Touched(Edit(o)') \cap Touched(Edit(p)') \subseteq uncertain'
      BY <2>5, <3>1, <3>2
    <3> QED
      BY <3>3 DEF Apart, Touched
  <2>9. Followed'
    BY <1>0, <2>2, <2>5, <2>6, SMT DEF EditsIInv, Followed, Touched
  <2>10. FilesClaimed'
    BY <1>0, <2>2, <2>5 DEF EditsIInv, FilesClaimed
  <2>11. IconKept'
    <3>1. \A p \in ERequests : Erasing(p) => Erasing(p)'
      BY <1>0, <2>5 DEF Erasing, Marks
    <3> QED
      BY <1>0, <2>2, <2>5, <2>6, <3>1 DEF EditsIInv, IconKept
  <2>12. GroupTold'
    BY <1>0, <2>2, <2>5, SMT DEF EditsIInv, GroupTold, ToldOf
  <2> QED
    BY <2>7, <2>8, <2>9, <2>10, <2>11, <2>12 DEF EditsIInv
<1> QED
  BY <1>1, <1>2

(* The request q is answered, and is no longer active. *)
LEMMA AnsweredMoves ==
    ASSUME EditsIInv, NEW q \in Active, Moves(q, Answered), UNCHANGED kind,
           uncertain \subseteq uncertain',
           DOMAIN doc' = FieldsOf(kind), DOMAIN follows' = FieldsOf(kind)
    PROVE  /\ EditsShape' /\ Apart'
           /\ Active' = Active \ {q}
           /\ \A p \in Active' : Edit(p)' = Edit(p) /\ Due(p)' = Due(p) /\ change'[p] = change[p]
<1>1. q \in ERequests /\ EditsShape
  BY DEF EditsIInv, Active
<1>2. /\ DOMAIN change' = ERequests /\ change'[q] = Answered
      /\ \A p \in ERequests : p # q => change'[p] = change[p]
  BY <1>1, MovesTo
<1>3. /\ Active' = Active \ {q}
      /\ \A p \in Active' : Edit(p)' = Edit(p) /\ Due(p)' = Due(p) /\ change'[p] = change[p]
  <2>1. Due(q)' = "answered"
    BY <1>2, SMT DEF Due, Answered
  <2>2. \A p \in ERequests : p # q => Due(p)' = Due(p) /\ Edit(p)' = Edit(p)
    BY <1>2 DEF Due, Edit
  <2>3. \A p \in ERequests : p \in Active' <=> p \in Active /\ p # q
    BY <2>1, <2>2 DEF Active
  <2> QED
    BY <1>2, <2>2, <2>3 DEF Active
<1>4. EditsShape'
  BY <1>1, <1>2, <1>3, SMT DEF EditsShape, Calls, Touched
<1>5. Apart'
  BY <1>3, SMT DEF EditsIInv, Apart, Touched
<1> QED
  BY <1>3, <1>4, <1>5

LEMMA ErrorKeeps ==
    ASSUME EditsIInv, NEW q \in Active, Due(q) # "publish", EndsInError(q),
           UNCHANGED <<kind, doc, claimed, erased, follows, announced, unsaid>>
    PROVE  EditsIInv'
<1>1. /\ uncertain \subseteq uncertain'
      /\ Erasing(q) => "icon" \in uncertain'
  BY DEF EndsInError, Erasing, Edit
<1>2. /\ EditsShape' /\ Apart' /\ Active' = Active \ {q}
      /\ \A p \in Active' : Edit(p)' = Edit(p) /\ Due(p)' = Due(p) /\ change'[p] = change[p]
  BY <1>1, AnsweredMoves DEF EndsInError, EditsIInv, EditsShape
<1>3. Followed'
  BY <1>1, <1>2, SMT DEF EditsIInv, Followed, Touched
<1>4. FilesClaimed'
  BY <1>2 DEF EditsIInv, FilesClaimed
<1>5. IconKept'
  <2>1. \A p \in ERequests : Erasing(p) => p = q \/ Erasing(p)'
    BY <1>2 DEF Erasing, Marks
  <2> QED
    BY <1>1, <1>2, <2>1 DEF EditsIInv, IconKept
<1>6. GroupTold'
  BY <1>2, SMTT(30) DEF EditsIInv, GroupTold, ToldOf
<1> QED
  BY <1>2, <1>3, <1>4, <1>5, <1>6 DEF EditsIInv

LEMMA WriteKeeps ==
    ASSUME EditsIInv, NEW q \in Active, Due(q) = "write", ~Contradicts(Edit(q)),
           doc' = Applied(doc, Edit(q)), Onward(q),
           UNCHANGED <<kind, claimed, erased, follows, announced, unsaid, uncertain>>
    PROVE  EditsIInv'
<1> DEFINE e == Edit(q)
<1>1. /\ DOMAIN doc' = FieldsOf(kind) /\ DOMAIN follows = FieldsOf(kind)
      /\ "icon" \in FieldsOf(kind) /\ Touched(e) \subseteq FieldsOf(kind)
      /\ kind = "group" => Told \subseteq FieldsOf(kind)
      /\ \A f \in FieldsOf(kind) :
            doc'[f] = IF f \in DOMAIN e.sets THEN e.sets[f]
                      ELSE IF f \in e.remove THEN Unset ELSE doc[f]
  BY DEF EditsIInv, EditsShape, Applied, FieldsOf, Told
<1>2. /\ EditsShape' /\ Apart' /\ Active' = Active
      /\ \A p \in Active : Edit(p)' = Edit(p) /\ change'[p].copy = change[p].copy
      /\ \A p \in Active : p # q => Due(p)' = Due(p)
  BY <1>1, OnwardMoves
<1>3. Due(q)' = "publish"
  <2>1. /\ Due(q) \in Calls(Edit(q))
        /\ Due(q)' \in Earliest({d \in Calls(Edit(q)) : Rank[d] > Rank[Due(q)]})
    BY <1>1, OnwardMoves
  <2> QED
    BY <2>1, NextCall
<1>4. \A f : Touched(e) = DOMAIN e.sets \cup e.remove /\ (f \in e.remove => f \notin DOMAIN e.sets)
  BY DEF Touched, Contradicts
<1>5. Followed'
  <2>1. ASSUME NEW f \in FieldsOf(kind) \ uncertain
        PROVE  \/ follows[f] = doc'[f]
               \/ \E p \in Active : Due(p)' = "publish" /\ f \in Touched(Edit(p))
    <3>1. CASE f \in Touched(e)
      BY <3>1, <1>3
    <3>2. CASE f \notin Touched(e)
      BY <3>2, <1>1, <1>2, <1>4 DEF EditsIInv, Followed
    <3> QED
      BY <3>1, <3>2
  <2>2. ASSUME NEW p \in Active, Due(p)' = "publish", NEW f \in Touched(Edit(p)) \ uncertain
        PROVE  doc'[f] = IF f \in DOMAIN Edit(p).sets THEN Edit(p).sets[f] ELSE Unset
    <3>1. CASE p = q
      BY <3>1, <2>2, <1>1, <1>4
    <3>2. CASE p # q
      <4>1. f \notin Touched(e) /\ f \in FieldsOf(kind)
        BY <2>2, <3>2 DEF EditsIInv, Apart, EditsShape
      <4> QED
        BY <2>2, <3>2, <4>1, <1>1, <1>2, <1>4 DEF EditsIInv, Followed
    <3> QED
      BY <3>1, <3>2
  <2> QED
    BY <2>1, <2>2, <1>2, SMT DEF Followed, Touched
<1>6. FilesClaimed'
  BY <1>1, <1>2, <1>3 DEF EditsIInv, FilesClaimed
<1>7. IconKept'
  <2> SUFFICES ASSUME "icon" \notin uncertain PROVE IconKept'
    BY DEF IconKept
  <2>1. \A p \in ERequests : p # q /\ Erasing(p) => Erasing(p)'
    BY <1>2 DEF Erasing, Marks
  <2>2. ASSUME doc'["icon"] \in erased PROVE \E p \in ERequests : Erasing(p)'
    <3>1. "icon" \notin DOMAIN e.sets
      BY <2>2, <1>1 DEF EditsIInv, IconKept
    <3>2. "icon" \notin e.remove /\ doc["icon"] \in erased
      BY <2>2, <3>1, <1>1 DEF EditsIInv, FilesClaimed
    <3>3. PICK p \in ERequests : Erasing(p)
      BY <3>2 DEF EditsIInv, IconKept
    <3>4. p # q
      BY <3>2, <3>3 DEF Erasing
    <3> QED
      BY <3>3, <3>4, <2>1
  <2> QED
    BY <2>2, <1>2, <1>3 DEF EditsIInv, IconKept
<1>8. GroupTold'
  BY <1>1, <1>2, <1>3, SMT DEF EditsIInv, GroupTold, ToldOf
<1> QED
  BY <1>2, <1>5, <1>6, <1>7, <1>8 DEF EditsIInv

LEMMA PublishKeeps ==
    ASSUME EditsIInv, NEW q \in ERequests, PublishEdit(q)
    PROVE  EditsIInv'
<1> DEFINE e == Edit(q)
<1>0. /\ q \in Active /\ Due(q) = "publish" /\ Moves(q, Answered)
      /\ UNCHANGED <<kind, doc, claimed, erased, announced, unsaid, uncertain>>
  BY DEF PublishEdit, Active
<1>1. /\ DOMAIN doc = FieldsOf(kind) /\ DOMAIN follows' = FieldsOf(kind)
      /\ \A f \in FieldsOf(kind) :
            follows'[f] = IF f \in DOMAIN e.sets THEN e.sets[f]
                          ELSE IF f \in e.remove THEN Unset ELSE follows[f]
  BY DEF EditsIInv, EditsShape, Applied, PublishEdit, Edit
<1>2. /\ EditsShape' /\ Apart' /\ Active' = Active \ {q}
      /\ \A p \in Active' : Edit(p)' = Edit(p) /\ Due(p)' = Due(p) /\ change'[p] = change[p]
  BY <1>0, <1>1, AnsweredMoves
<1>3. Followed'
  <2>1. ASSUME NEW f \in FieldsOf(kind) \ uncertain
        PROVE  \/ follows'[f] = doc[f]
               \/ \E p \in Active' : Due(p)' = "publish" /\ f \in Touched(Edit(p)')
    <3>1. CASE f \in Touched(e)
      BY <3>1, <1>0, <1>1 DEF EditsIInv, Followed, Touched
    <3>2. CASE f \notin Touched(e)
      BY <3>2, <1>0, <1>1, <1>2, SMTT(30) DEF EditsIInv, Followed, Touched
    <3> QED
      BY <3>1, <3>2
  <2> QED
    BY <2>1, <1>0, <1>2, SMTT(30) DEF EditsIInv, Followed, Touched
<1>4. FilesClaimed'
  BY <1>0, <1>2 DEF EditsIInv, FilesClaimed
<1>5. IconKept'
  <2>1. \A p \in ERequests : Erasing(p) => Erasing(p)'
    BY <1>0, <1>2 DEF Erasing, Marks
  <2> QED
    BY <1>0, <1>2, <2>1 DEF EditsIInv, IconKept
<1>6. GroupTold'
  BY <1>0, <1>2, SMT DEF EditsIInv, GroupTold, ToldOf
<1> QED
  BY <1>2, <1>3, <1>4, <1>5, <1>6 DEF EditsIInv

LEMMA EditsStepKeeps == EditsIInv /\ [EditsNext]_editVars => EditsIInv'
<1> SUFFICES ASSUME EditsIInv, [EditsNext]_editVars PROVE EditsIInv'
  OBVIOUS
<1>1. ASSUME NEW q \in ERequests,
             \E e \in ChangeData : EditChannel(q, e) \/ webhook_edit(q, e) \/ webhook_edit_token(q, e)
      PROVE  EditsIInv'
  BY <1>1, BeginKeeps DEF EditChannel, webhook_edit, webhook_edit_token
<1>2. ASSUME NEW q \in ERequests, FindIcon(q) PROVE EditsIInv'
  <2>1. q \in Active /\ Due(q) = "find"
    BY <1>2 DEF FindIcon, Active
  <2>2. CASE change[q].e.sets.icon \in claimed
    BY <1>2, <2>1, <2>2, ErrorKeeps DEF FindIcon
  <2>3. CASE change[q].e.sets.icon \notin claimed
    BY <1>2, <2>1, <2>3, PassKeeps DEF FindIcon, Edit
  <2> QED
    BY <2>2, <2>3
<1>3. ASSUME NEW q \in ERequests, NEW max_allowed \in Bitrates, CheckBitrate(q, max_allowed)
      PROVE  EditsIInv'
  <2>1. q \in Active /\ Due(q) = "check"
    BY <1>3 DEF CheckBitrate, Active
  <2>2. CASE EndsInError(q)
    BY <1>3, <2>1, <2>2, ErrorKeeps DEF CheckBitrate
  <2>3. CASE Onward(q) /\ uncertain' = uncertain
    BY <1>3, <2>1, <2>3, PassKeeps DEF CheckBitrate
  <2> QED
    BY <1>3, <2>2, <2>3 DEF CheckBitrate
<1>4. ASSUME NEW q \in ERequests, update_channel(q) PROVE EditsIInv'
  <2>1. q \in Active /\ Due(q) = "write"
    BY <1>4 DEF update_channel, Active
  <2>2. CASE Contradicts(change[q].e)
    BY <1>4, <2>1, <2>2, ErrorKeeps DEF update_channel
  <2>3. CASE ~Contradicts(change[q].e)
    BY <1>4, <2>1, <2>3, WriteKeeps DEF update_channel, Edit
  <2> QED
    BY <2>2, <2>3
<1>5. ASSUME NEW q \in ERequests, CallFails(q) PROVE EditsIInv'
  <2>1. q \in Active /\ Due(q) # "publish"
    BY <1>5 DEF CallFails, Active
  <2> QED
    BY <1>5, <2>1, ErrorKeeps DEF CallFails
<1>6. CASE UNCHANGED editVars
  <2>1. /\ Active' = Active
        /\ \A p : Erasing(p)' = Erasing(p) /\ Edit(p)' = Edit(p) /\ Due(p)' = Due(p)
        /\ \A e : Calls(e)' = Calls(e) /\ Touched(e)' = Touched(e)
    BY <1>6, SMT DEF editVars, Active, Due, Erasing, Edit, Marks, Calls, Touched
  <2>2. EditsShape' /\ Apart'
    BY <1>6, <2>1 DEF editVars, EditsIInv, EditsShape, Apart
  <2>3. Followed'
    BY <1>6, <2>1 DEF editVars, EditsIInv, Followed
  <2>4. FilesClaimed' /\ IconKept' /\ GroupTold'
    BY <1>6, <2>1 DEF editVars, EditsIInv, FilesClaimed, IconKept, GroupTold, ToldOf
  <2> QED
    BY <2>2, <2>3, <2>4 DEF EditsIInv
<1> QED
  BY <1>1, <1>2, <1>3, <1>4, <1>5, <1>6, MarkKeeps, UseKeeps, AnnounceKeeps, PublishKeeps
  DEF EditsNext

(* When no edit is under way a client that followed the events shows what  *)
(* is stored, the icon is not a deleted file and the group was told, for   *)
(* any edits, of any number of requests, in any order: except for fields   *)
(* that two edits named at once, or whose edit failed after its mark       *)
(* (the edit routes of channels and webhooks).                             *)
THEOREM EditsAlwaysShown == EditsSpec => []EditsShown
<1>1. EditsIInv => EditsShown
  BY DEF EditsIInv, EditsShown, EditsShape, Followed, IconKept, Erasing, GroupTold, ToldOf
<1> QED
  BY <1>1, EditsInitOK, EditsStepKeeps, PTL DEF EditsSpec

-----------------------------------------------------------------------------
(***************************************************************************)
(* Relationships.  The requests that write carry two entries that agree,   *)
(* decided for two different users.                                        *)
(***************************************************************************)
Writes == [at : {"write_target", "write_self"}, by : RUsers, to : RUsers,
           own : Status, other : Status, set : Agreeing]

RelCallOK(c) ==
    /\ c.at \in Stages
    /\ c.at \in {"target", "decide"} =>
          c.by \in RUsers /\ c.to \in RUsers /\ c.by # c.to /\ c.op \in RelOps /\ c.own \in Status
    /\ c.at = "decide" => c.other \in Status
    /\ c.at \in {"write_target", "write_self"} => c \in Writes /\ c.by # c.to

RelCallsOK == DOMAIN call = RSlots /\ \A s \in RSlots : RelCallOK(call[s])

RelIInv ==
    /\ rel \in [RUsers -> [RUsers -> Status]]
    /\ RelCallsOK
    /\ SettledPairsAgree

(* Whatever a request decides on, the two entries it sets agree. *)
LEMMA OutcomesAgree ==
    ASSUME NEW c
    PROVE  Outcome(c) \subseteq Agreeing
  BY DEF Outcome, add_friend, remove_friend, block_user, unblock_user, Agreeing

LEMMA AgreeingPairs ==
    ASSUME NEW p \in Agreeing
    PROVE  /\ p = <<p[1], p[2]>>
           /\ p[1] \in Status /\ p[2] \in Status
           /\ <<p[2], p[1]>> \in Agreeing
  BY SMT DEF Agreeing, Status

(* Only the slot s changes, to a request that is well formed. *)
LEMMA RelCallsStep ==
    ASSUME RelCallsOK, NEW s \in RSlots, NEW c, RelCallOK(c), call' = [call EXCEPT ![s] = c]
    PROVE  /\ RelCallsOK'
           /\ call'[s] = c
           /\ \A r \in RSlots : r # s => call'[r] = call[r]
  BY SMT DEF RelCallsOK, RelCallOK

(* A step that writes no entry and ends no half-written pair keeps pairs   *)
(* as settled as they were.                                                *)
LEMMA QuietStep ==
    ASSUME SettledPairsAgree, NEW s \in RSlots, call[s].at # "write_self",
           \A r \in RSlots : r # s => call'[r] = call[r],
           UNCHANGED <<rel, stale>>
    PROVE  SettledPairsAgree'
<1> SUFFICES ASSUME NEW u \in RUsers, NEW v \in RUsers, u # v, {u, v} \notin stale,
                    <<rel[u][v], rel[v][u]>> \notin Agreeing
             PROVE  \E r \in Between(u, v)' : call'[r].at = "write_self"
  BY DEF SettledPairsAgree
<1>1. PICK r \in Between(u, v) : call[r].at = "write_self"
  BY DEF SettledPairsAgree
<1>2. r \in RSlots /\ r # s
  BY <1>1 DEF Between
<1>3. r \in Between(u, v)'
  BY <1>1, <1>2 DEF Between
<1> QED
  BY <1>1, <1>2, <1>3

LEMMA RelInitOK == RelInit => RelIInv
<1> SUFFICES ASSUME RelInit PROVE RelIInv
  OBVIOUS
<1>1. RelCallsOK
  BY DEF RelInit, RelCallsOK, RelCallOK, NoCall, Stages
<1>2. SettledPairsAgree
  BY DEF RelInit, SettledPairsAgree, Agreeing
<1> QED
  BY <1>1, <1>2 DEF RelInit, RelIInv, Status

LEMMA AuthenticateKeeps ==
    ASSUME RelIInv, NEW s \in RSlots, NEW u \in RUsers, NEW v \in RUsers, NEW op \in RelOps,
           Authenticate(s, u, v, op)
    PROVE  RelIInv'
<1> DEFINE c == [at |-> "target", op |-> op, by |-> u, to |-> v, own |-> rel[u][v],
                 sent |-> Cardinality({w \in Others(u) : rel[u][w] = "Outgoing"})]
<1>1. RelCallOK(c)
  BY DEF RelIInv, Authenticate, RelCallOK, Stages
<1>2. call' = [call EXCEPT ![s] = c] /\ UNCHANGED <<rel, stale>> /\ call[s].at = "idle"
  BY DEF Authenticate
<1> HIDE DEF c
<1>3. RelCallsOK' /\ \A r \in RSlots : r # s => call'[r] = call[r]
  BY <1>1, <1>2, RelCallsStep DEF RelIInv
<1>4. SettledPairsAgree'
  BY <1>2, <1>3, QuietStep DEF RelIInv
<1> QED
  BY <1>2, <1>3, <1>4 DEF RelIInv

LEMMA ResolveTargetKeeps ==
    ASSUME RelIInv, NEW s \in RSlots, ResolveTarget(s)
    PROVE  RelIInv'
<1> DEFINE d == call[s]
           c == [at |-> "decide", op |-> d.op, by |-> d.by, to |-> d.to,
                 own |-> d.own, sent |-> d.sent, other |-> rel[d.to][d.by]]
<1>1. RelCallOK(d) /\ d.at = "target"
  BY DEF RelIInv, RelCallsOK, ResolveTarget
<1>2. RelCallOK(c)
  BY <1>1 DEF RelIInv, RelCallOK, Stages
<1>3. call' = [call EXCEPT ![s] = c] /\ UNCHANGED <<rel, stale>>
  BY DEF ResolveTarget, RelIInv, RelCallsOK
<1> HIDE DEF c
<1>4. RelCallsOK' /\ \A r \in RSlots : r # s => call'[r] = call[r]
  BY <1>2, <1>3, RelCallsStep DEF RelIInv
<1>5. SettledPairsAgree'
  BY <1>1, <1>3, <1>4, QuietStep DEF RelIInv
<1> QED
  BY <1>3, <1>4, <1>5 DEF RelIInv

LEMMA DecideKeeps ==
    ASSUME RelIInv, NEW s \in RSlots, Decide(s)
    PROVE  RelIInv'
<1> DEFINE d == call[s]
           o == CHOOSE x \in Outcome(d) : TRUE
           w == [at |-> "write_target", by |-> d.by, to |-> d.to,
                 own |-> d.own, other |-> d.other, set |-> o]
           c == IF Outcome(d) = {} THEN NoCall ELSE w
<1>1. RelCallOK(d) /\ d.at = "decide"
  BY DEF RelIInv, RelCallsOK, Decide
<1>2. ASSUME Outcome(d) # {} PROVE RelCallOK(w)
  <2>1. o \in Agreeing
    BY <1>2, OutcomesAgree
  <2> HIDE DEF o
  <2>2. w \in Writes /\ w.by # w.to
    BY <1>1, <2>1 DEF RelCallOK, Writes
  <2> QED
    BY <2>2 DEF RelCallOK, Stages
<1>3. RelCallOK(NoCall)
  BY DEF RelCallOK, NoCall, Stages
<1>4. RelCallOK(c)
  BY <1>2, <1>3
<1>5. call' = [call EXCEPT ![s] = c] /\ UNCHANGED <<rel, stale>>
  BY DEF Decide
<1> HIDE DEF c
<1>6. RelCallsOK' /\ \A r \in RSlots : r # s => call'[r] = call[r]
  BY <1>4, <1>5, RelCallsStep DEF RelIInv
<1>7. SettledPairsAgree'
  BY <1>1, <1>5, <1>6, QuietStep DEF RelIInv
<1> QED
  BY <1>5, <1>6, <1>7 DEF RelIInv

(* Another pair is left as settled as it was by a request of this one. *)
LEMMA OtherPairs ==
    ASSUME RelIInv, NEW s \in RSlots, call[s] \in Writes,
           NEW u \in RUsers, NEW v \in RUsers, {u, v} # {call[s].by, call[s].to},
           \A r \in RSlots : r # s => call'[r] = call[r],
           rel'[u][v] = rel[u][v], rel'[v][u] = rel[v][u],
           {u, v} \in stale => {u, v} \in stale'
    PROVE  \/ u = v
           \/ {u, v} \in stale'
           \/ \E r \in Between(u, v)' : call'[r].at = "write_self"
           \/ <<rel'[u][v], rel'[v][u]>> \in Agreeing
<1>1. CASE \E r \in Between(u, v) : call[r].at = "write_self"
  <2>1. PICK r \in Between(u, v) : call[r].at = "write_self"
    BY <1>1
  <2>2. r \in RSlots /\ r # s
    BY DEF Between
  <2>3. r \in Between(u, v)'
    BY <2>1, <2>2 DEF Between
  <2> QED
    BY <2>1, <2>2, <2>3
<1>2. CASE ~ \E r \in Between(u, v) : call[r].at = "write_self"
  BY <1>2 DEF RelIInv, SettledPairsAgree
<1> QED
  BY <1>1, <1>2

LEMMA WriteTargetKeeps ==
    ASSUME RelIInv, NEW s \in RSlots, WriteTarget(s)
    PROVE  RelIInv'
<1> DEFINE d == call[s]
           c == [d EXCEPT !.at = "write_self"]
<1>1. d \in Writes /\ d.by # d.to
  BY DEF RelIInv, RelCallsOK, RelCallOK, WriteTarget
<1>2. c \in Writes /\ c.by = d.by /\ c.to = d.to /\ c.at = "write_self"
  BY <1>1 DEF Writes
<1>3. RelCallOK(c)
  BY <1>1, <1>2 DEF RelCallOK, Stages
<1>4. call' = [call EXCEPT ![s] = c]
  BY DEF WriteTarget
<1> HIDE DEF c
<1>5. RelCallsOK' /\ call'[s] = c /\ \A r \in RSlots : r # s => call'[r] = call[r]
  BY <1>3, <1>4, RelCallsStep DEF RelIInv
<1>6. d.set[2] \in Status
  BY <1>1, AgreeingPairs DEF Writes
<1>7. rel' = [rel EXCEPT ![d.to][d.by] = d.set[2]]
  BY DEF WriteTarget
<1>8. rel' \in [RUsers -> [RUsers -> Status]]
  BY <1>1, <1>6, <1>7 DEF RelIInv, Writes
<1>9. stale \subseteq stale'
  BY DEF WriteTarget
<1>10. SettledPairsAgree'
  <2> SUFFICES ASSUME NEW u \in RUsers, NEW v \in RUsers
               PROVE  \/ u = v
                      \/ {u, v} \in stale'
                      \/ \E r \in Between(u, v)' : call'[r].at = "write_self"
                      \/ <<rel'[u][v], rel'[v][u]>> \in Agreeing
    BY DEF SettledPairsAgree
  <2>1. CASE {u, v} = {d.by, d.to}
    BY <2>1, <1>2, <1>5 DEF Between
  <2>2. CASE {u, v} # {d.by, d.to}
    <3>1. rel'[u][v] = rel[u][v] /\ rel'[v][u] = rel[v][u]
      BY <2>2, <1>1, <1>7 DEF RelIInv, Writes
    <3> QED
      BY <2>2, <3>1, <1>1, <1>5, <1>9, OtherPairs
  <2> QED
    BY <2>1, <2>2
<1> QED
  BY <1>5, <1>8, <1>9, <1>10 DEF RelIInv

LEMMA WriteSelfKeeps ==
    ASSUME RelIInv, NEW s \in RSlots, WriteSelf(s)
    PROVE  RelIInv'
<1> DEFINE d == call[s]
<1>1. d \in Writes /\ d.by # d.to /\ d.at = "write_self"
  BY DEF RelIInv, RelCallsOK, RelCallOK, WriteSelf
<1>2. RelCallOK(NoCall)
  BY DEF RelCallOK, NoCall, Stages
<1>3. call' = [call EXCEPT ![s] = NoCall]
  BY DEF WriteSelf
<1>4. RelCallsOK' /\ \A r \in RSlots : r # s => call'[r] = call[r]
  BY <1>2, <1>3, RelCallsStep DEF RelIInv
<1>5. /\ d.set \in Agreeing /\ d.set = <<d.set[1], d.set[2]>>
      /\ d.set[1] \in Status /\ <<d.set[2], d.set[1]>> \in Agreeing
  BY <1>1, AgreeingPairs DEF Writes
<1>6. rel' = [rel EXCEPT ![d.by][d.to] = d.set[1]]
  BY DEF WriteSelf
<1>7. rel' \in [RUsers -> [RUsers -> Status]]
  BY <1>1, <1>5, <1>6 DEF RelIInv, Writes
<1>8. /\ stale \ {{d.by, d.to}} \subseteq stale'
      /\ StaleWrite(d) => {d.by, d.to} \in stale'
  BY <1>1 DEF WriteSelf, RelIInv, Writes, Pair
<1>9. SettledPairsAgree'
  <2> SUFFICES ASSUME NEW u \in RUsers, NEW v \in RUsers
               PROVE  \/ u = v
                      \/ {u, v} \in stale'
                      \/ \E r \in Between(u, v)' : call'[r].at = "write_self"
                      \/ <<rel'[u][v], rel'[v][u]>> \in Agreeing
    BY DEF SettledPairsAgree
  <2>1. CASE {u, v} = {d.by, d.to} /\ ~ StaleWrite(d)
    <3>1. rel[d.to][d.by] = d.set[2]
      BY <2>1, <1>1 DEF StaleWrite
    <3>2. rel'[d.by][d.to] = d.set[1] /\ rel'[d.to][d.by] = d.set[2]
      BY <3>1, <1>1, <1>6 DEF RelIInv, Writes
    <3>3. (u = d.by /\ v = d.to) \/ (u = d.to /\ v = d.by)
      BY <2>1
    <3> QED
      BY <3>2, <3>3, <1>5
  <2>2. CASE {u, v} = {d.by, d.to} /\ StaleWrite(d)
    BY <2>2, <1>8
  <2>3. CASE {u, v} # {d.by, d.to}
    <3>1. rel'[u][v] = rel[u][v] /\ rel'[v][u] = rel[v][u]
      BY <2>3, <1>1, <1>6 DEF RelIInv, Writes
    <3> QED
      BY <2>3, <3>1, <1>1, <1>4, <1>8, OtherPairs
  <2> QED
    BY <2>1, <2>2, <2>3
<1> QED
  BY <1>4, <1>7, <1>8, <1>9 DEF RelIInv

LEMMA WriteFailsKeeps ==
    ASSUME RelIInv, NEW s \in RSlots, WriteFails(s)
    PROVE  RelIInv'
<1> DEFINE d == call[s]
<1>1. d \in Writes /\ d.by # d.to
  BY DEF RelIInv, RelCallsOK, RelCallOK, WriteFails
<1>2. RelCallOK(NoCall)
  BY DEF RelCallOK, NoCall, Stages
<1>3. call' = [call EXCEPT ![s] = NoCall] /\ UNCHANGED rel
  BY DEF WriteFails
<1>4. RelCallsOK' /\ \A r \in RSlots : r # s => call'[r] = call[r]
  BY <1>2, <1>3, RelCallsStep DEF RelIInv
<1>5. /\ stale \subseteq stale'
      /\ d.at = "write_self" => {d.by, d.to} \in stale'
  BY <1>1 DEF WriteFails, RelIInv, Writes, Pair
<1>6. SettledPairsAgree'
  <2>1. CASE d.at = "write_self"
    <3> SUFFICES ASSUME NEW u \in RUsers, NEW v \in RUsers
                 PROVE  \/ u = v
                        \/ {u, v} \in stale'
                        \/ \E r \in Between(u, v)' : call'[r].at = "write_self"
                        \/ <<rel'[u][v], rel'[v][u]>> \in Agreeing
      BY DEF SettledPairsAgree
    <3>1. CASE {u, v} = {d.by, d.to}
      BY <3>1, <2>1, <1>5
    <3>2. CASE {u, v} # {d.by, d.to}
      BY <3>2, <1>1, <1>3, <1>4, <1>5, OtherPairs
    <3> QED
      BY <3>1, <3>2
  <2>2. CASE d.at # "write_self"
    <3>1. UNCHANGED <<rel, stale>>
      BY <2>2, <1>3 DEF WriteFails
    <3> QED
      BY <2>2, <3>1, <1>4, QuietStep DEF RelIInv
  <2> QED
    BY <2>1, <2>2
<1> QED
  BY <1>3, <1>4, <1>5, <1>6 DEF RelIInv

LEMMA RelStepKeeps == RelIInv /\ [RelNext]_relVars => RelIInv'
<1> SUFFICES ASSUME RelIInv, [RelNext]_relVars PROVE RelIInv'
  OBVIOUS
<1>1. CASE RelNext
  <2> PICK s \in RSlots :
        \/ \E u, v \in RUsers, op \in RelOps : Authenticate(s, u, v, op)
        \/ ResolveTarget(s) \/ Decide(s)
        \/ WriteTarget(s) \/ WriteSelf(s) \/ WriteFails(s)
    BY <1>1 DEF RelNext
  <2>1. CASE \E u, v \in RUsers, op \in RelOps : Authenticate(s, u, v, op)
    BY <2>1, AuthenticateKeeps
  <2>2. CASE ResolveTarget(s)
    BY <2>2, ResolveTargetKeeps
  <2>3. CASE Decide(s)
    BY <2>3, DecideKeeps
  <2>4. CASE WriteTarget(s)
    BY <2>4, WriteTargetKeeps
  <2>5. CASE WriteSelf(s)
    BY <2>5, WriteSelfKeeps
  <2>6. CASE WriteFails(s)
    BY <2>6, WriteFailsKeeps
  <2> QED
    BY <2>1, <2>2, <2>3, <2>4, <2>5, <2>6
<1>2. CASE UNCHANGED relVars
  BY <1>2 DEF relVars, RelIInv, RelCallsOK, RelCallOK, SettledPairsAgree, Between, Pair
<1> QED
  BY <1>1, <1>2

(* The documents of two users agree about them, unless a request between   *)
(* them is half written or their entries were decided on stale copies: for *)
(* any number of users, requests in flight and limit on requests sent      *)
(* (apply_relationship).                                                   *)
THEOREM PairsAgree == RelSpec => []SettledPairsAgree
<1>1. RelIInv => SettledPairsAgree
  BY DEF RelIInv
<1> QED
  BY <1>1, RelInitOK, RelStepKeeps, PTL DEF RelSpec

(***************************************************************************)
(* Accounts.  Of a user who is not crossed at most one request punishes or *)
(* logs in at a time, and how far it got says what already holds.          *)
(***************************************************************************)
Stage ==
    {Idle, Over}
    \cup [op : {"insert", "rename"}, u : AUsers, n : Usernames, d : Discriminators]
    \cup [op : {"recase"}, u : AUsers, n : Usernames]
    \cup [op : {"limit", "event"}, u : AUsers, n : Usernames, free : SUBSET Discriminators]
    \cup [op : {"join", "disable", "sessions", "flag", "over", "enable", "unflag", "login"},
          u : AUsers]

Punishes(q, u) == stage[q].op \in Punishing /\ stage[q].u = u

(* What a request that is under way for u rests on. *)
Reached(s) ==
    /\ s.op = "sessions" => s.u \in disabled
    /\ s.op = "flag" => s.u \in disabled /\ s.u \notin signedIn
    /\ s.op = "login" => s.u \notin banned

AloneUnlessCrossed ==
    \A u \in AUsers \ crossed : \A p, q \in ARequests : Punishes(p, u) /\ Punishes(q, u) => p = q

StagesReached ==
    \A q \in ARequests : stage[q].op \in Punishing /\ stage[q].u \notin crossed => Reached(stage[q])

PunishIInv == BannedIsOut /\ AloneUnlessCrossed /\ StagesReached /\ banned \subseteq AUsers

AccIInv ==
    /\ DOMAIN handles = AUsers
    /\ stage \in [ARequests -> Stage]
    /\ HandlesUnique
    /\ PunishIInv

LEMMA StageFields ==
    ASSUME NEW s \in Stage
    PROVE  /\ s.op \in {"insert", "rename"} =>
                s \in [op : {"insert", "rename"}, u : AUsers, n : Usernames, d : Discriminators]
           /\ s.op = "recase" => s \in [op : {"recase"}, u : AUsers, n : Usernames]
           /\ s.op \in {"limit", "event"} =>
                s \in [op : {"limit", "event"}, u : AUsers, n : Usernames,
                       free : SUBSET Discriminators]
           /\ s.op \in Punishing \cup {"join"} =>
                s \in [op : {"join", "disable", "sessions", "flag", "over", "enable", "unflag",
                             "login"}, u : AUsers]
           /\ s.op = "idle" => s = Idle
           /\ s.op # "ban"
  BY SMT DEF Stage, Idle, Over, Punishing

LEMMA StageStep ==
    ASSUME AccIInv, NEW q \in ARequests, NEW s \in Stage, To(q, s)
    PROVE  /\ stage' \in [ARequests -> Stage]
           /\ stage'[q] = s
           /\ \A r \in ARequests : r # q => stage'[r] = stage[r]
  BY DEF AccIInv, To

(* A request that neither punishes nor logs in disturbs none that does.    *)
LEMMA QuietAccounts ==
    ASSUME PunishIInv, NEW q \in ARequests,
           \A r \in ARequests : r # q => stage'[r] = stage[r],
           stage[q].op \notin Punishing, stage'[q].op \notin Punishing,
           crossed \subseteq crossed', UNCHANGED <<banned, disabled, signedIn>>
    PROVE  PunishIInv'
<1>1. \A r \in ARequests : stage'[r].op \in Punishing => r # q /\ stage'[r] = stage[r]
  OBVIOUS
<1>2. BannedIsOut'
  <2> SUFFICES ASSUME NEW u \in banned' \ crossed', u \notin disabled' \/ u \in signedIn'
               PROVE  \E r \in ARequests : stage'[r].op = "unflag" /\ stage'[r].u = u
    BY DEF BannedIsOut
  <2>1. PICK r \in ARequests : stage[r].op = "unflag" /\ stage[r].u = u
    BY DEF PunishIInv, BannedIsOut
  <2>2. r # q
    BY <2>1 DEF Punishing
  <2> QED
    BY <2>1, <2>2
<1>3. AloneUnlessCrossed'
  BY <1>1, SMT DEF PunishIInv, AloneUnlessCrossed, Punishes
<1>4. StagesReached'
  BY <1>1 DEF PunishIInv, StagesReached, Reached
<1> QED
  BY <1>2, <1>3, <1>4 DEF PunishIInv

(* A request for u begins: if u has another, u is crossed. *)
LEMMA PunishStarts ==
    ASSUME AccIInv, NEW q \in ARequests, NEW u \in AUsers, stage[q] = Idle,
           NEW s \in Stage, s.op \in Punishing, s.u = u, u \notin crossed' => Reached(s),
           To(q, s), crossed' = Overlap(u), UNCHANGED <<handles, banned, disabled, signedIn>>
    PROVE  AccIInv'
<1>1. /\ stage' \in [ARequests -> Stage] /\ stage'[q] = s
      /\ \A r \in ARequests : r # q => stage'[r] = stage[r]
  BY StageStep
<1>2. stage[q].op \notin Punishing
  BY SMT DEF Idle, Punishing
<1>3. crossed \subseteq crossed' /\ crossed' \subseteq crossed \cup {u}
  BY DEF Overlap
<1>4. \A r \in ARequests : Punishes(r, u) => u \in crossed'
  BY DEF Punishes, Overlap
<1>5. BannedIsOut'
  <2> SUFFICES ASSUME NEW v \in banned' \ crossed', v \notin disabled' \/ v \in signedIn'
               PROVE  \E r \in ARequests : stage'[r].op = "unflag" /\ stage'[r].u = v
    BY DEF BannedIsOut
  <2>1. PICK r \in ARequests : stage[r].op = "unflag" /\ stage[r].u = v
    BY <1>3 DEF AccIInv, PunishIInv, BannedIsOut
  <2>2. r # q
    BY <2>1, <1>2 DEF Punishing
  <2> QED
    BY <2>1, <2>2, <1>1
<1>6. AloneUnlessCrossed'
  BY <1>1, <1>3, <1>4, SMT DEF AccIInv, PunishIInv, AloneUnlessCrossed, Punishes
<1>7. StagesReached'
  BY <1>1, <1>3 DEF AccIInv, PunishIInv, StagesReached, Reached
<1>8. HandlesUnique'
  BY SMT DEF AccIInv, HandlesUnique, Exists
<1> QED
  BY <1>1, <1>5, <1>6, <1>7, <1>8 DEF AccIInv, PunishIInv

(* One handle is written, that no other user has. *)
LEMMA HandleWritten ==
    ASSUME AccIInv, NEW u \in AUsers, NEW n, NEW d, username_discriminator(u, n, d),
           handles' = [handles EXCEPT ![u] = [username |-> n, discriminator |-> d]]
    PROVE  DOMAIN handles' = AUsers /\ HandlesUnique'
<1>1. /\ DOMAIN handles' = AUsers
      /\ handles'[u].username = n /\ handles'[u].discriminator = d
      /\ \A v \in AUsers : v # u => handles'[v] = handles[v]
  BY DEF AccIInv
<1>2. \A v \in AUsers : v # u /\ Exists(v)' =>
          Lower[handles'[v].username] # Lower[n] \/ handles'[v].discriminator # d
  BY <1>1 DEF username_discriminator, Exists
<1> QED
  BY <1>1, <1>2, SMT DEF AccIInv, HandlesUnique, Exists

LEMMA SameHandles ==
    ASSUME AccIInv, UNCHANGED handles
    PROVE  DOMAIN handles' = AUsers /\ HandlesUnique'
  BY SMT DEF AccIInv, HandlesUnique, Exists

LEMMA AccountsInitOK ==
    ASSUME AccountsInit
    PROVE  AccIInv
<1> USE AccountsAssumption DEF AccountsInit
<1>1. HandlesUnique
  BY SMT DEF HandlesUnique, Exists, Unborn, NoName
<1>2. PunishIInv
  BY DEF PunishIInv, BannedIsOut, AloneUnlessCrossed, StagesReached, Punishes, Punishing, Idle
<1> QED
  BY <1>1, <1>2 DEF AccIInv, Stage

LEMMA RenameKeeps ==
    ASSUME AccIInv, NEW q \in ARequests,
           \/ \E u \in AUsers, n \in Usernames : complete(q, u, n) \/ change_username(q, u, n)
           \/ insert_user(q) \/ CheckLimit(q) \/ insert_ratelimit_event(q) \/ update_username(q)
           \/ ensure_official_membership(q)
    PROVE  AccIInv'
<1> DEFINE t == stage[q]
<1>0. t \in Stage
  BY DEF AccIInv
<1>1. /\ DOMAIN handles' = AUsers /\ HandlesUnique'
      /\ crossed \subseteq crossed' /\ UNCHANGED <<banned, disabled, signedIn>>
      /\ t.op \notin Punishing
      /\ \E s \in Stage : To(q, s) /\ s.op \notin Punishing
  <2>0. /\ Idle.op \notin Punishing
        /\ {"insert", "recase", "rename", "limit", "join", "over"} \cap Punishing = {}
    BY SMT DEF Idle, Punishing
  <2>1. CASE \E u \in AUsers, n \in Usernames : complete(q, u, n)
    <3> PICK u \in AUsers, n \in Usernames : complete(q, u, n)
      BY <2>1
    <3>1. PICK d \in Available(n) : To(q, [op |-> "insert", u |-> u, n |-> n, d |-> d])
      BY DEF complete
    <3>2. [op |-> "insert", u |-> u, n |-> n, d |-> d] \in Stage
      BY DEF Available, Stage
    <3>3. [op |-> "insert", u |-> u, n |-> n, d |-> d].op \notin Punishing
      BY <2>0
    <3> QED
      BY <2>0, <3>1, <3>2, <3>3, SameHandles DEF complete
  <2>2. CASE \E u \in AUsers, n \in Usernames : change_username(q, u, n)
    <3> PICK u \in AUsers, n \in Usernames : change_username(q, u, n)
      BY <2>2
    <3>1. CASE Lower[handles[u].username] = Lower[n]
      <4>1. [op |-> "recase", u |-> u, n |-> n] \in Stage
        BY DEF Stage
      <4>2. To(q, [op |-> "recase", u |-> u, n |-> n])
        BY <3>1 DEF change_username
      <4>3. [op |-> "recase", u |-> u, n |-> n].op \notin Punishing
        BY <2>0
      <4> QED
        BY <2>0, <4>1, <4>2, <4>3, SameHandles DEF change_username
    <3>2. CASE Lower[handles[u].username] # Lower[n] /\ handles[u].discriminator \in Available(n)
      <4>1. [op |-> "rename", u |-> u, n |-> n, d |-> handles[u].discriminator] \in Stage
        BY <3>2 DEF Stage, Available
      <4>2. To(q, [op |-> "rename", u |-> u, n |-> n, d |-> handles[u].discriminator])
        BY <3>2 DEF change_username
      <4>3. [op |-> "rename", u |-> u, n |-> n, d |-> handles[u].discriminator].op \notin Punishing
        BY <2>0
      <4> QED
        BY <2>0, <4>1, <4>2, <4>3, SameHandles DEF change_username
    <3>3. CASE Lower[handles[u].username] # Lower[n] /\ handles[u].discriminator \notin Available(n)
      <4>1. [op |-> "limit", u |-> u, n |-> n, free |-> Available(n)] \in Stage
        BY DEF Stage, Available
      <4>2. To(q, [op |-> "limit", u |-> u, n |-> n, free |-> Available(n)])
        BY <3>3 DEF change_username
      <4>3. [op |-> "limit", u |-> u, n |-> n, free |-> Available(n)].op \notin Punishing
        BY <2>0
      <4> QED
        BY <2>0, <4>1, <4>2, <4>3, SameHandles DEF change_username
    <3> QED
      BY <3>1, <3>2, <3>3
  <2>3. CASE insert_user(q)
    <3>1. t \in [op : {"insert", "rename"}, u : AUsers, n : Usernames, d : Discriminators]
      BY <2>3, <1>0, StageFields DEF insert_user
    <3>2. [op |-> "join", u |-> t.u] \in Stage /\ Over \in Stage
      BY <3>1 DEF Stage
    <3>3. CASE ~Exists(t.u) /\ username_discriminator(t.u, t.n, t.d)
      BY <2>3, <3>1, <3>2, <3>3, HandleWritten DEF insert_user, Punishing
    <3>4. CASE ~(~Exists(t.u) /\ username_discriminator(t.u, t.n, t.d))
      BY <2>3, <3>2, <3>4, SameHandles DEF insert_user, Punishing, Over
    <3> QED
      BY <3>3, <3>4
  <2>4. CASE CheckLimit(q)
    <3> DEFINE s == [t EXCEPT !.op = "event"]
    <3>1. t \in [op : {"limit", "event"}, u : AUsers, n : Usernames, free : SUBSET Discriminators]
      BY <2>4, <1>0, StageFields DEF CheckLimit
    <3>2. s \in [op : {"limit", "event"}, u : AUsers, n : Usernames, free : SUBSET Discriminators]
      BY <3>1
    <3>3. s \in Stage /\ Over \in Stage /\ s.op = "event"
      BY <3>1, <3>2 DEF Stage
    <3>4. To(q, Over) \/ To(q, s)
      BY <2>4 DEF CheckLimit
    <3>5. crossed \subseteq crossed' /\ UNCHANGED <<handles, banned, disabled, signedIn>>
      BY <2>4 DEF CheckLimit
    <3>6. t.op = "limit"
      BY <2>4 DEF CheckLimit
    <3> HIDE DEF s
    <3> QED
      BY <3>3, <3>4, <3>5, <3>6, SameHandles DEF Punishing, Over
  <2>5. CASE insert_ratelimit_event(q)
    <3>1. t \in [op : {"limit", "event"}, u : AUsers, n : Usernames, free : SUBSET Discriminators]
      BY <2>5, <1>0, StageFields DEF insert_ratelimit_event
    <3>2. PICK d \in t.free : To(q, [op |-> "rename", u |-> t.u, n |-> t.n, d |-> d])
      BY <2>5 DEF insert_ratelimit_event
    <3>3. [op |-> "rename", u |-> t.u, n |-> t.n, d |-> d] \in Stage
      BY <3>1 DEF Stage
    <3> QED
      BY <2>5, <3>2, <3>3, SameHandles DEF insert_ratelimit_event, Punishing
  <2>6. CASE update_username(q)
    <3> DEFINE d == IF t.op = "recase" THEN handles[t.u].discriminator ELSE t.d
    <3>1. t.u \in AUsers
      BY <2>6, <1>0, StageFields DEF update_username
    <3>2. Over \in Stage /\ Over.op \notin Punishing /\ t.op \notin Punishing
      BY <2>6 DEF Stage, Over, Punishing, update_username
    <3>3. CASE username_discriminator(t.u, t.n, d)
      <4>1. handles' = [handles EXCEPT ![t.u] = [username |-> t.n, discriminator |-> d]]
        BY <2>6, <3>3 DEF update_username
      <4> HIDE DEF d
      <4> QED
        BY <2>6, <3>1, <3>2, <3>3, <4>1, HandleWritten DEF update_username
    <3>4. CASE ~username_discriminator(t.u, t.n, d)
      BY <2>6, <3>2, <3>4, SameHandles DEF update_username
    <3> QED
      BY <3>3, <3>4
  <2>7. CASE ensure_official_membership(q)
    <3>1. Over \in Stage /\ Over.op \notin Punishing /\ t.op \notin Punishing
      BY <2>0, <2>7 DEF Stage, Over, ensure_official_membership
    <3> QED
      BY <2>7, <3>1, SameHandles DEF ensure_official_membership
  <2> QED
    BY <2>1, <2>2, <2>3, <2>4, <2>5, <2>6, <2>7
<1>2. PICK s \in Stage : To(q, s) /\ s.op \notin Punishing
  BY <1>1
<1>3. /\ stage' \in [ARequests -> Stage] /\ stage'[q] = s
      /\ \A r \in ARequests : r # q => stage'[r] = stage[r]
  BY <1>2, StageStep
<1>4. PunishIInv'
  BY <1>1, <1>2, <1>3, QuietAccounts DEF AccIInv
<1> QED
  BY <1>1, <1>3, <1>4 DEF AccIInv

LEMMA StartsKeep ==
    ASSUME AccIInv, NEW q \in ARequests, NEW u \in AUsers,
           ban_user(q, u) \/ unsuspend_user(q, u) \/ Login(q, u)
    PROVE  AccIInv'
<1>1. CASE ban_user(q, u)
  <2> DEFINE s == [op |-> "disable", u |-> u]
  <2>1. s \in Stage /\ s.op \in Punishing /\ s.u = u /\ Reached(s)
    BY DEF Stage, Punishing, Reached
  <2>2. To(q, s)
    BY <1>1 DEF ban_user, BanSteps
  <2> HIDE DEF s
  <2> QED
    BY <1>1, <2>1, <2>2, PunishStarts DEF ban_user
<1>2. CASE unsuspend_user(q, u)
  <2> DEFINE s == [op |-> "enable", u |-> u]
  <2>1. s \in Stage /\ s.op \in Punishing /\ s.u = u /\ Reached(s)
    BY DEF Stage, Punishing, Reached
  <2>2. To(q, s)
    BY <1>2 DEF unsuspend_user
  <2> HIDE DEF s
  <2> QED
    BY <1>2, <2>1, <2>2, PunishStarts DEF unsuspend_user
<1>3. CASE Login(q, u)
  <2> DEFINE s == [op |-> "login", u |-> u]
  <2>1. s \in Stage /\ s.op \in Punishing /\ s.u = u
    BY DEF Stage, Punishing
  <2>2. To(q, s)
    BY <1>3 DEF Login
  <2>3. u \notin crossed' => u \notin banned
    BY <1>3 DEF Login, Overlap, Punishing, AccIInv, PunishIInv, BannedIsOut
  <2>4. u \notin crossed' => Reached(s)
    BY <2>3 DEF Reached
  <2> HIDE DEF s
  <2> QED
    BY <1>3, <2>1, <2>2, <2>4, PunishStarts DEF Login
<1> QED
  BY <1>1, <1>2, <1>3

(* A request for u goes on, which touches the state of u alone: what others  *)
(* rest on stays, and it is enough that u itself is left well.             *)
LEMMA PunishMoves ==
    ASSUME AccIInv, NEW q \in ARequests, NEW u \in AUsers, Punishes(q, u),
           NEW s \in Stage, To(q, s), s.op \in Punishing => s.u = u,
           crossed \subseteq crossed', UNCHANGED handles, banned' \subseteq AUsers,
           \A v \in AUsers \ {u} : /\ v \in banned <=> v \in banned'
                                   /\ v \in disabled <=> v \in disabled'
                                   /\ v \in signedIn <=> v \in signedIn',
           u \in banned' \ crossed' => s.op = "unflag" \/ (u \in disabled' /\ u \notin signedIn'),
           u \notin crossed' /\ s.op = "sessions" => u \in disabled',
           u \notin crossed' /\ s.op = "flag" => u \in disabled' /\ u \notin signedIn',
           s.op # "login"
    PROVE  AccIInv'
<1>1. /\ stage' \in [ARequests -> Stage] /\ stage'[q] = s
      /\ \A r \in ARequests : r # q => stage'[r] = stage[r]
  BY StageStep
<1>2. BannedIsOut'
  <2> SUFFICES ASSUME NEW v \in banned' \ crossed', v \notin disabled' \/ v \in signedIn'
               PROVE  \E r \in ARequests : stage'[r].op = "unflag" /\ stage'[r].u = v
    BY DEF BannedIsOut
  <2>1. CASE v = u
    BY <2>1, <1>1 DEF Punishing
  <2>2. CASE v # u
    <3>1. PICK r \in ARequests : stage[r].op = "unflag" /\ stage[r].u = v
      BY <2>2 DEF AccIInv, PunishIInv, BannedIsOut
    <3>2. r # q
      BY <2>2, <3>1 DEF Punishes
    <3> QED
      BY <3>1, <3>2, <1>1
  <2> QED
    BY <2>1, <2>2
<1>3. \A v \in AUsers, r \in ARequests : Punishes(r, v)' => Punishes(r, v)
  BY <1>1 DEF Punishes
<1>4. AloneUnlessCrossed'
  BY <1>3 DEF AccIInv, PunishIInv, AloneUnlessCrossed
<1>5. StagesReached'
  <2> SUFFICES ASSUME NEW r \in ARequests, stage'[r].op \in Punishing, stage'[r].u \notin crossed'
               PROVE  Reached(stage[r])'
    BY DEF StagesReached
  <2>1. stage'[r].u \in AUsers
    BY <1>1, StageFields, SMT
  <2>2. CASE r = q
    BY <2>2, <1>1 DEF Reached
  <2>3. CASE r # q
    <3>1. stage'[r] = stage[r] /\ Reached(stage[r])
      BY <2>3, <1>1 DEF AccIInv, PunishIInv, StagesReached
    <3>2. stage[r].u # u
      BY <2>1, <2>3, <3>1 DEF AccIInv, PunishIInv, AloneUnlessCrossed, Punishes
    <3> QED
      BY <2>1, <3>1, <3>2 DEF Reached
  <2> QED
    BY <2>2, <2>3
<1> QED
  BY <1>1, <1>2, <1>4, <1>5, SameHandles DEF AccIInv, PunishIInv

(* The order of the steps of a ban. *)
LEMMA BanOrder ==
    /\ BanSteps["disable"] = "sessions"
    /\ BanSteps["sessions"] = "flag"
    /\ BanSteps["flag"] = "over"
  BY SMT DEF BanSteps

LEMMA PunishKeeps ==
    ASSUME AccIInv, NEW q \in ARequests, ban(q) \/ unsuspend(q) \/ LogIn(q)
    PROVE  AccIInv'
<1> DEFINE t == stage[q]
           u == t.u
<1>1. t \in Stage /\ t.op \in Punishing
  BY DEF AccIInv, ban, unsuspend, LogIn, Punishing
<1>2. u \in AUsers /\ Punishes(q, u)
  BY <1>1, StageFields DEF Punishes
<1>3. u \notin crossed => Reached(t)
  BY <1>1 DEF AccIInv, PunishIInv, StagesReached
<1>4. banned \subseteq AUsers
  BY DEF AccIInv, PunishIInv
<1>5. CASE ban(q)
  <2> DEFINE s == [op |-> BanSteps[t.op], u |-> u]
  <2>1. t.op \in {"disable", "sessions", "flag"} /\ To(q, s)
    BY <1>5 DEF ban
  <2>2. /\ t.op = "disable" => s.op = "sessions"
        /\ t.op = "sessions" => s.op = "flag"
        /\ t.op = "flag" => s.op = "over"
        /\ s.u = u
    BY BanOrder
  <2>3. s \in Stage
    BY <1>2, <2>1, <2>2 DEF Stage
  <2> HIDE DEF s
  <2>4. crossed' = crossed /\ UNCHANGED handles
    BY <1>5 DEF ban
  <2>5. CASE t.op = "disable"
    <3>1. disabled' = disabled \cup {u} /\ UNCHANGED <<signedIn, banned>>
      BY <1>5, <2>5 DEF ban
    <3>2. u \in banned \ crossed =>
            u \in disabled /\ u \notin signedIn
      <4> SUFFICES ASSUME u \in banned, u \notin crossed, ~(u \in disabled /\ u \notin signedIn)
                   PROVE  FALSE
        OBVIOUS
      <4>1. PICK p \in ARequests : stage[p].op = "unflag" /\ stage[p].u = u
        BY DEF AccIInv, PunishIInv, BannedIsOut
      <4>2. Punishes(p, u)
        BY <4>1 DEF Punishes, Punishing
      <4>3. p = q
        BY <1>2, <4>2 DEF AccIInv, PunishIInv, AloneUnlessCrossed
      <4> QED
        BY <2>5, <4>1, <4>3
    <3> QED
      BY <1>2, <1>4, <2>1, <2>2, <2>3, <2>4, <2>5, <3>1, <3>2, PunishMoves
  <2>6. CASE t.op = "sessions"
    <3>1. signedIn' = signedIn \ {u} /\ UNCHANGED <<disabled, banned>>
      BY <1>5, <2>6 DEF ban
    <3> QED
      BY <1>2, <1>3, <1>4, <2>1, <2>2, <2>3, <2>4, <2>6, <3>1, PunishMoves DEF Reached
  <2>7. CASE t.op = "flag"
    <3>1. banned' = banned \cup {u} /\ UNCHANGED <<disabled, signedIn>>
      BY <1>5, <2>7 DEF ban
    <3> QED
      BY <1>2, <1>3, <1>4, <2>1, <2>2, <2>3, <2>4, <2>7, <3>1, PunishMoves DEF Reached, Punishing
  <2> QED
    BY <2>1, <2>5, <2>6, <2>7
<1>6. CASE unsuspend(q)
  <2>1. CASE t.op = "enable"
    <3> DEFINE s == [t EXCEPT !.op = "unflag"]
               S == [op : {"join", "disable", "sessions", "flag", "over", "enable", "unflag",
                           "login"}, u : AUsers]
    <3>1. t \in S
      BY <1>1, StageFields
    <3>2. s \in S /\ s.op = "unflag" /\ s.u = u
      BY <3>1
    <3>3. s \in Stage
      BY <3>2 DEF Stage
    <3>4. /\ To(q, s) /\ disabled' = disabled \ {u}
          /\ UNCHANGED <<handles, banned, signedIn, crossed>>
      BY <1>6, <2>1 DEF unsuspend
    <3> HIDE DEF s, S
    <3> QED
      BY <1>2, <1>4, <3>2, <3>3, <3>4, PunishMoves
  <2>2. CASE t.op = "unflag"
    <3>1. /\ To(q, Over) /\ banned' = banned \ {u}
          /\ UNCHANGED <<handles, disabled, signedIn, crossed>>
      BY <1>6, <2>2 DEF unsuspend
    <3>2. Over \in Stage /\ Over.op = "over"
      BY DEF Stage, Over
    <3> QED
      BY <1>2, <1>4, <3>1, <3>2, PunishMoves DEF Punishing
  <2> QED
    BY <1>6, <2>1, <2>2 DEF unsuspend
<1>7. CASE LogIn(q)
  <2>1. /\ To(q, Over) /\ signedIn' = signedIn \cup {u} /\ t.op = "login"
        /\ UNCHANGED <<handles, disabled, banned, crossed>>
    BY <1>7 DEF LogIn
  <2>2. Over \in Stage /\ Over.op = "over"
    BY DEF Stage, Over
  <2>3. u \notin crossed => u \notin banned
    BY <1>3, <2>1 DEF Reached
  <2> QED
    BY <1>2, <1>4, <2>1, <2>2, <2>3, PunishMoves DEF Punishing
<1> QED
  BY <1>5, <1>6, <1>7

LEMMA FailureKeeps ==
    ASSUME AccIInv, NEW q \in ARequests, AccountCallFails(q)
    PROVE  AccIInv'
<1> DEFINE t == stage[q]
           u == t.u
<1>1. /\ To(q, Over) /\ crossed \subseteq crossed'
      /\ UNCHANGED <<handles, banned, disabled, signedIn>>
      /\ t.op = "unflag" => u \in crossed'
  BY DEF AccountCallFails
<1>2. Over \in Stage /\ Over.op = "over" /\ Over.op \notin Punishing /\ t \in Stage
  BY DEF Stage, Over, Punishing, AccIInv
<1>3. CASE t.op \in Punishing
  <2>1. u \in AUsers /\ Punishes(q, u)
    BY <1>2, <1>3, StageFields DEF Punishes
  <2>2. u \in banned \ crossed' => u \in disabled /\ u \notin signedIn
    <3> SUFFICES ASSUME u \in banned \ crossed', u \notin disabled \/ u \in signedIn PROVE FALSE
      OBVIOUS
    <3>1. PICK r \in ARequests : stage[r].op = "unflag" /\ stage[r].u = u
      BY <1>1 DEF AccIInv, PunishIInv, BannedIsOut
    <3>2. r = q
      BY <1>1, <2>1, <3>1 DEF AccIInv, PunishIInv, AloneUnlessCrossed, Punishes, Punishing
    <3> QED
      BY <1>1, <3>1, <3>2
  <2>3. banned' \subseteq AUsers
    BY <1>1 DEF AccIInv, PunishIInv
  <2> QED
    BY <1>1, <1>2, <2>1, <2>2, <2>3, PunishMoves
<1>4. CASE t.op \notin Punishing
  <2>1. /\ stage' \in [ARequests -> Stage] /\ stage'[q] = Over
        /\ \A r \in ARequests : r # q => stage'[r] = stage[r]
    BY <1>1, <1>2, StageStep
  <2>2. PunishIInv'
    BY <1>1, <1>2, <1>4, <2>1, QuietAccounts DEF AccIInv
  <2> QED
    BY <1>1, <2>1, <2>2, SameHandles DEF AccIInv
<1> QED
  BY <1>3, <1>4

LEMMA AccountsRest ==
    ASSUME AccIInv, UNCHANGED <<handles, banned, disabled, signedIn, stage, crossed>>
    PROVE  AccIInv'
  BY SMTT(30) DEF AccIInv, HandlesUnique, Exists, PunishIInv, BannedIsOut, AloneUnlessCrossed, Punishes,
         StagesReached, Reached

LEMMA AccountsStepKeeps == AccIInv /\ [AccountsNext]_accountVars => AccIInv'
<1> SUFFICES ASSUME AccIInv, [AccountsNext]_accountVars PROVE AccIInv'
  OBVIOUS
<1>1. ASSUME NEW q \in ARequests,
             \/ \E u \in AUsers :
                   \/ \E n \in Usernames : complete(q, u, n) \/ change_username(q, u, n)
                   \/ ban_user(q, u) \/ unsuspend_user(q, u) \/ Login(q, u)
             \/ insert_user(q) \/ CheckLimit(q) \/ insert_ratelimit_event(q) \/ update_username(q)
             \/ ban(q) \/ unsuspend(q) \/ LogIn(q)
             \/ ensure_official_membership(q)
             \/ AccountCallFails(q)
      PROVE  AccIInv'
  BY <1>1, RenameKeeps, StartsKeep, PunishKeeps, FailureKeeps
<1>2. ASSUME NEW u \in AUsers, backfill_official_server(u) \/ LeaveOfficial(u)
      PROVE  AccIInv'
  BY <1>2, AccountsRest DEF backfill_official_server, LeaveOfficial
<1>3. CASE UNCHANGED accountVars
  BY <1>3, AccountsRest DEF accountVars
<1> QED
  BY <1>1, <1>2, <1>3 DEF AccountsNext

(* No two users share a handle up to case, and who is flagged as banned is *)
(* disabled and has no session, however many users onboard, rename, are    *)
(* banned, unsuspended and log in at once, and wherever a request fails    *)
(* (update_username, ban_user).                                            *)
THEOREM AccountsAlwaysKept == AccountsSpec => []AccountsKept
<1>1. AccIInv => AccountsKept
  BY DEF AccIInv, PunishIInv, AccountsKept
<1> QED
  BY <1>1, AccountsInitOK, AccountsStepKeeps, PTL DEF AccountsSpec

-----------------------------------------------------------------------------
(***************************************************************************)
(* Direct messages.  A request that is about to insert a channel saw none  *)
(* of its pair; none is there yet unless another request of the same pair  *)
(* was under way, and then the pair is noted in raced.                     *)
(***************************************************************************)
DirectMessage ==
    [recipients : SUBSET DmUsers, active : BOOLEAN, shut : BOOLEAN, last_message_id : Nat]

Opening == {Closed} \cup [op : {"insert"}, pair : SUBSET DmUsers]

DirectShape ==
    /\ dms \in Seq(DirectMessage) /\ Len(dms) <= MaxDms
    /\ opening \in [DmRequests -> Opening]
    /\ lastTask \in [DmWorkers -> [1 .. MaxDms -> Nat]]
    /\ lastQ \in Seq(Nat) /\ written \in Seq(Nat) /\ unqueued \subseteq Nat

(* What a request that is about to insert relies on. *)
AloneFor(q, pair) ==
    /\ \A d \in Dms : dms[d].recipients # pair
    /\ \A p \in DmRequests : opening[p] # Closed /\ opening[p].pair = pair => p = q

DirectIInv ==
    /\ DirectShape
    /\ OneDirectMessage
    /\ \A q \in DmRequests, pair \in SUBSET DmUsers :
          opening[q] # Closed /\ opening[q].pair = pair => pair \in raced \/ AloneFor(q, pair)

LEMMA OpeningKinds ==
    ASSUME NEW o \in Opening
    PROVE  o # Closed => o.op = "insert" /\ o.pair \in SUBSET DmUsers
  BY DEF Opening, Closed

(* Steps that keep the recipients of every channel and the requests keep   *)
(* the pairs apart.                                                        *)
LEMMA RecipientsKept ==
    ASSUME DirectIInv, DirectShape', Len(dms') = Len(dms),
           \A d \in Dms : dms'[d].recipients = dms[d].recipients,
           opening' = opening, raced' = raced
    PROVE  DirectIInv'
<1>1. Dms' = Dms
  BY DEF Dms
<1>2. OneDirectMessage'
  <2> SUFFICES ASSUME NEW d \in Dms, NEW e \in Dms, dms'[d].recipients = dms'[e].recipients
               PROVE  d = e \/ dms'[d].recipients \in raced
    BY <1>1 DEF OneDirectMessage
  <2>1. dms[d].recipients = dms[e].recipients
    OBVIOUS
  <2> QED
    BY <2>1 DEF DirectIInv, OneDirectMessage
<1> QED
  BY <1>1, <1>2 DEF DirectIInv, AloneFor

LEMMA open_dmKeeps ==
    ASSUME DirectIInv, NEW q \in DmRequests, NEW u \in DmUsers, NEW t \in DmUsers, open_dm(q, u, t)
    PROVE  DirectIInv'
<1> DEFINE P == {u, t}
           r == [op |-> "insert", pair |-> P]
           others == {p \in DmRequests : opening[p] # Closed /\ opening[p].pair = P}
<1>1. P \in SUBSET DmUsers /\ r \in Opening /\ r.pair = P
  BY DEF Opening
<1>2. /\ opening[q] = Closed /\ \A d \in Dms : dms[d].recipients # P
      /\ opening' = [opening EXCEPT ![q] = r]
      /\ raced' = IF others # {} THEN raced \cup {P} ELSE raced
      /\ UNCHANGED <<dms, written, unqueued, lastQ, lastTask>>
  BY DEF open_dm, create_dm, find_direct_message_channel
<1>3. raced \subseteq raced' /\ (P \notin raced' => others = {})
  BY <1>2
<1>4. \A p \in DmRequests : P \notin raced' /\ opening[p] # Closed => opening[p].pair # P
  BY <1>3
<1> HIDE DEF P, r, others
<1>5. DirectShape'
  BY <1>1, <1>2 DEF DirectShape, DirectIInv
<1>6. Dms' = Dms /\ OneDirectMessage'
  BY <1>2, <1>3 DEF DirectIInv, OneDirectMessage, Dms
<1>7. /\ opening'[q] = r
      /\ \A p \in DmRequests \ {q} : opening'[p] = opening[p]
  BY <1>2 DEF DirectIInv, DirectShape
<1>8. ASSUME NEW p \in DmRequests, NEW pair \in SUBSET DmUsers,
             opening'[p] # Closed, opening'[p].pair = pair, pair \notin raced'
      PROVE  AloneFor(p, pair)'
  <2>1. CASE p = q
    <3>1. pair = P
      BY <1>1, <1>7, <1>8, <2>1
    <3> QED
      BY <1>2, <1>4, <1>6, <1>7, <1>8, <2>1, <3>1 DEF AloneFor
  <2>2. CASE p # q
    <3>1. opening[p] # Closed /\ opening[p].pair = pair /\ pair \notin raced
      BY <1>3, <1>7, <1>8, <2>2
    <3>2. AloneFor(p, pair) /\ pair # P
      BY <1>4, <1>8, <3>1 DEF DirectIInv
    <3> QED
      BY <1>1, <1>2, <1>6, <1>7, <3>2 DEF AloneFor
  <2> QED
    BY <2>1, <2>2
<1> QED
  BY <1>5, <1>6, <1>8 DEF DirectIInv

LEMMA insert_dmKeeps ==
    ASSUME DirectIInv, NEW q \in DmRequests, insert_dm(q)
    PROVE  DirectIInv'
<1>1. opening[q] # Closed /\ Len(dms) < MaxDms /\ opening' = [opening EXCEPT ![q] = Closed]
      /\ UNCHANGED <<written, unqueued, lastQ, lastTask, raced>>
  BY DEF insert_dm
<1>0. PICK P \in SUBSET DmUsers : P = opening[q].pair
  BY <1>1, OpeningKinds DEF DirectIInv, DirectShape
<1> DEFINE m == [recipients |-> P, active |-> TRUE, shut |-> FALSE, last_message_id |-> 0]
<1>2. m \in DirectMessage /\ m.recipients = P
  BY DEF DirectMessage
<1>3. dms' = Append(dms, m)
  BY <1>0 DEF insert_dm
<1> HIDE DEF m
<1>4. DirectShape'
  <2>1. dms' \in Seq(DirectMessage) /\ Len(dms') <= MaxDms
    BY <1>1, <1>2, <1>3, DmAssumption, SMT DEF DirectIInv, DirectShape
  <2> QED
    BY <1>1, <2>1 DEF DirectIInv, DirectShape, Opening
<1>5. /\ Dms' = Dms \cup {Len(dms) + 1} /\ Len(dms) + 1 \notin Dms
      /\ dms'[Len(dms) + 1] = m /\ \A d \in Dms : dms'[d] = dms[d]
  BY <1>2, <1>3, SMT DEF DirectIInv, DirectShape, Dms
<1>6. PICK n : n = Len(dms) + 1
  OBVIOUS
<1>7. P \in raced \/ AloneFor(q, P)
  BY <1>0, <1>1 DEF DirectIInv
<1>8. \A d \in Dms' : (d = n /\ dms'[d].recipients = P) \/ (d \in Dms /\ dms'[d].recipients = dms[d].recipients)
  BY <1>2, <1>5, <1>6
<1>9. OneDirectMessage'
  <2> SUFFICES ASSUME NEW d \in Dms', NEW e \in Dms', dms'[d].recipients = dms'[e].recipients,
                      d # e, dms'[d].recipients \notin raced
               PROVE  FALSE
    BY <1>1 DEF OneDirectMessage
  <2>1. CASE d \in Dms /\ e \in Dms
    BY <1>5, <2>1 DEF DirectIInv, OneDirectMessage
  <2>2. CASE d = n \/ e = n
    <3>1. dms'[n].recipients = P /\ n \notin Dms
      BY <1>2, <1>5, <1>6
    <3>2. dms'[d].recipients = P /\ dms'[e].recipients = P /\ P \notin raced
      BY <2>2, <3>1
    <3>3. \A a \in Dms : dms'[a].recipients # P
      BY <1>7, <1>5, <3>2 DEF AloneFor
    <3> QED
      BY <1>8, <3>2, <3>3
  <2> QED
    BY <1>8, <2>1, <2>2
<1>10. opening'[q] = Closed /\ \A p \in DmRequests \ {q} : opening'[p] = opening[p]
  BY <1>1 DEF DirectIInv, DirectShape
<1>11. ASSUME NEW p \in DmRequests, NEW pair \in SUBSET DmUsers,
              opening'[p] # Closed, opening'[p].pair = pair, pair \notin raced
       PROVE  AloneFor(p, pair)'
  <2>1. p # q /\ opening[p] # Closed /\ opening[p].pair = pair
    BY <1>10, <1>11
  <2>2. AloneFor(p, pair)
    BY <1>11, <2>1 DEF DirectIInv
  <2>3. pair # P
    BY <1>0, <1>1, <2>1, <2>2 DEF AloneFor
  <2>4. \A d \in Dms' : dms'[d].recipients # pair
    BY <1>8, <2>2, <2>3 DEF AloneFor
  <2> QED
    BY <1>10, <2>2, <2>4 DEF AloneFor
<1> QED
  BY <1>1, <1>4, <1>9, <1>11 DEF DirectIInv

LEMMA OpenFailsKeeps ==
    ASSUME DirectIInv, NEW q \in DmRequests, OpenFails(q)
    PROVE  DirectIInv'
<1>1. /\ opening' = [opening EXCEPT ![q] = Closed]
      /\ UNCHANGED <<dms, written, unqueued, lastQ, lastTask, raced>>
  BY DEF OpenFails
<1>2. opening'[q] = Closed /\ \A p \in DmRequests \ {q} : opening'[p] = opening[p]
  BY <1>1 DEF DirectIInv, DirectShape
<1>3. DirectShape' /\ Dms' = Dms
  BY <1>1 DEF DirectIInv, DirectShape, Opening, Dms
<1>4. OneDirectMessage'
  BY <1>1, <1>3 DEF DirectIInv, OneDirectMessage
<1>5. ASSUME NEW p \in DmRequests, NEW pair \in SUBSET DmUsers,
             opening'[p] # Closed, opening'[p].pair = pair, pair \notin raced
      PROVE  AloneFor(p, pair)'
  <2>1. opening[p] # Closed /\ opening[p].pair = pair
    BY <1>2, <1>5
  <2>2. AloneFor(p, pair)
    BY <1>5, <2>1 DEF DirectIInv
  <2> QED
    BY <1>1, <1>2, <1>3, <2>2 DEF AloneFor
<1> QED
  BY <1>1, <1>3, <1>4, <1>5 DEF DirectIInv

(* A channel is written to field by field, never to its recipients. *)
LEMMA ChannelWritten ==
    ASSUME DirectIInv, NEW d \in Dms, NEW m \in DirectMessage, m.recipients = dms[d].recipients,
           dms' = [dms EXCEPT ![d] = m]
    PROVE  /\ dms' \in Seq(DirectMessage) /\ Len(dms') = Len(dms)
           /\ \A e \in Dms : dms'[e].recipients = dms[e].recipients
<1>1. dms' \in Seq(DirectMessage) /\ Len(dms') = Len(dms)
  BY SMT DEF DirectIInv, DirectShape, Dms
<1>2. dms'[d] = m /\ \A e \in Dms \ {d} : dms'[e] = dms[e]
  BY SMT DEF DirectIInv, DirectShape, Dms
<1> QED
  BY <1>1, <1>2

LEMMA close_dmKeeps ==
    ASSUME DirectIInv, NEW d \in Dms, close_dm(d)
    PROVE  DirectIInv'
<1> DEFINE m == [dms[d] EXCEPT !.active = FALSE, !.shut = TRUE]
<1>1. dms[d] \in DirectMessage
  BY SMT DEF DirectIInv, DirectShape, Dms
<1>2. m \in DirectMessage /\ m.recipients = dms[d].recipients
  BY <1>1 DEF DirectMessage
<1>3. /\ dms' = [dms EXCEPT ![d] = m]
      /\ UNCHANGED <<opening, written, unqueued, lastQ, lastTask, raced>>
  BY <1>1 DEF close_dm
<1> HIDE DEF m
<1>4. /\ dms' \in Seq(DirectMessage) /\ Len(dms') = Len(dms)
      /\ \A e \in Dms : dms'[e].recipients = dms[e].recipients
  BY <1>2, <1>3, ChannelWritten
<1>5. DirectShape'
  BY <1>3, <1>4 DEF DirectIInv, DirectShape
<1> QED
  BY <1>3, <1>4, <1>5, RecipientsKept

LEMMA send_dmKeeps ==
    ASSUME DirectIInv, NEW d \in Dms, send_dm(d)
    PROVE  DirectIInv'
<1> DEFINE m == [dms[d] EXCEPT !.shut = FALSE]
<1>1. dms[d] \in DirectMessage /\ d \in Nat
  BY SMT DEF DirectIInv, DirectShape, Dms
<1>2. m \in DirectMessage /\ m.recipients = dms[d].recipients
  BY <1>1 DEF DirectMessage
<1>3. /\ dms' = [dms EXCEPT ![d] = m] /\ written' = Append(written, d)
      /\ unqueued' = unqueued \cup {Len(written) + 1}
      /\ UNCHANGED <<opening, lastQ, lastTask, raced>>
  BY DEF send_dm
<1> HIDE DEF m
<1>4. /\ dms' \in Seq(DirectMessage) /\ Len(dms') = Len(dms)
      /\ \A e \in Dms : dms'[e].recipients = dms[e].recipients
  BY <1>2, <1>3, ChannelWritten
<1>5. written' \in Seq(Nat) /\ unqueued' \subseteq Nat
  <2>1. written \in Seq(Nat) /\ unqueued \subseteq Nat
    BY DEF DirectIInv, DirectShape
  <2>2. written' \in Seq(Nat) /\ Len(written) + 1 \in Nat
    BY <1>1, <1>3, <2>1, SMT
  <2> QED
    BY <1>3, <2>1, <2>2
<1>6. DirectShape'
  BY <1>3, <1>4, <1>5 DEF DirectIInv, DirectShape
<1> QED
  BY <1>3, <1>4, <1>6, RecipientsKept

LEMMA queue_lastKeeps ==
    ASSUME DirectIInv, NEW m \in unqueued, queue_last(m)
    PROVE  DirectIInv'
<1>1. /\ unqueued' = unqueued \ {m} /\ (lastQ' = lastQ \/ lastQ' = Append(lastQ, m))
      /\ UNCHANGED <<dms, opening, written, lastTask, raced>>
  BY DEF queue_last
<1>2. lastQ' \in Seq(Nat)
  <2>1. lastQ \in Seq(Nat) /\ m \in Nat
    BY DEF DirectIInv, DirectShape
  <2> QED
    BY <1>1, <2>1, SMT
<1>3. DirectShape'
  BY <1>1, <1>2 DEF DirectIInv, DirectShape
<1> QED
  BY <1>1, <1>3, RecipientsKept

LEMMA PopLastKeeps ==
    ASSUME DirectIInv, NEW w \in DmWorkers, PopLast(w)
    PROVE  DirectIInv'
<1>1. PICK m, d : /\ m = Head(lastQ) /\ lastQ # <<>> /\ lastQ' = Tail(lastQ)
                  /\ lastTask' = [lastTask EXCEPT ![w] = [lastTask[w] EXCEPT ![d] = m]]
                  /\ UNCHANGED <<dms, opening, written, unqueued, raced>>
  BY DEF PopLast, TaskId
<1>2. lastQ' \in Seq(Nat) /\ m \in Nat
  BY <1>1, SMT DEF DirectIInv, DirectShape
<1>3. lastTask' \in [DmWorkers -> [1 .. MaxDms -> Nat]]
  BY <1>1, <1>2 DEF DirectIInv, DirectShape
<1>4. DirectShape'
  BY <1>1, <1>2, <1>3 DEF DirectIInv, DirectShape
<1> QED
  BY <1>1, <1>4, RecipientsKept

LEMMA CommitLastKeeps ==
    ASSUME DirectIInv, NEW w \in DmWorkers, NEW d \in Dms, CommitLast(w, d) \/ CommitFails(w, d)
    PROVE  DirectIInv'
<1>1. dms[d] \in DirectMessage /\ lastTask[w][d] \in Nat
  <2>1. d \in 1 .. MaxDms
    BY DmAssumption, SMT DEF DirectIInv, DirectShape, Dms
  <2>2. dms[d] \in DirectMessage
    BY SMT DEF DirectIInv, DirectShape, Dms
  <2> QED
    BY <2>1, <2>2 DEF DirectIInv, DirectShape
<1>2. lastTask' = [lastTask EXCEPT ![w] = [lastTask[w] EXCEPT ![d] = 0]]
      /\ UNCHANGED <<opening, written, unqueued, lastQ, raced>>
  BY DEF CommitLast, CommitFails
<1>3. lastTask' \in [DmWorkers -> [1 .. MaxDms -> Nat]]
  BY <1>2 DEF DirectIInv, DirectShape
<1>4. CASE CommitLast(w, d)
  <2> DEFINE two == Cardinality(dms[d].recipients) = 2
             m == [dms[d] EXCEPT !.last_message_id = lastTask[w][d], !.active = @ \/ two]
  <2>1. dms' = [dms EXCEPT ![d] = m]
    BY <1>4, <1>1 DEF CommitLast
  <2>2. two \in BOOLEAN
    OBVIOUS
  <2> HIDE DEF two
  <2>3. m \in DirectMessage /\ m.recipients = dms[d].recipients
    BY <1>1, <2>2 DEF DirectMessage
  <2> HIDE DEF m
  <2>4. /\ dms' \in Seq(DirectMessage) /\ Len(dms') = Len(dms)
        /\ \A e \in Dms : dms'[e].recipients = dms[e].recipients
    BY <2>1, <2>3, ChannelWritten
  <2>5. DirectShape'
    BY <1>2, <1>3, <2>4 DEF DirectIInv, DirectShape
  <2> QED
    BY <1>2, <2>4, <2>5, RecipientsKept
<1>5. CASE CommitFails(w, d)
  <2>1. UNCHANGED dms
    BY <1>5 DEF CommitFails
  <2>2. DirectShape'
    BY <1>2, <1>3, <2>1 DEF DirectIInv, DirectShape
  <2> QED
    BY <1>2, <2>1, <2>2, RecipientsKept
<1> QED
  BY <1>4, <1>5

LEMMA DirectInitOK == DirectInit => DirectIInv
<1> SUFFICES ASSUME DirectInit PROVE DirectIInv
  OBVIOUS
<1>1. DirectShape
  BY DmAssumption, SMT DEF DirectInit, DirectShape, Opening
<1>2. Dms = {}
  BY SMT DEF DirectInit, Dms
<1> QED
  BY <1>1, <1>2 DEF DirectInit, DirectIInv, OneDirectMessage

LEMMA DirectStepKeeps == ASSUME DirectIInv, [DirectNext]_directVars PROVE DirectIInv'
<1>1. ASSUME UNCHANGED <<dms, opening, written, unqueued, lastQ, lastTask, raced>> PROVE DirectIInv'
  <2>1. DirectShape'
    BY <1>1 DEF DirectIInv, DirectShape
  <2> QED
    BY <1>1, <2>1, RecipientsKept
<1>2. CASE UNCHANGED directVars
  BY <1>1, <1>2 DEF directVars
<1>3. CASE \E u, t \in DmUsers : (\E status \in DmStatuses : Relate(u, t, status)) \/ Share(u, t)
  BY <1>1, <1>3 DEF Relate, Share
<1> QED
  BY <1>2, <1>3, open_dmKeeps, insert_dmKeeps, OpenFailsKeeps, close_dmKeeps, send_dmKeeps,
     queue_lastKeeps, PopLastKeeps, CommitLastKeeps DEF DirectNext

(* Two users have one direct message however many requests open it: only   *)
(* requests that looked before any of them inserted make two.              *)
THEOREM AlwaysOneDirectMessage == DirectSpec => []OneDirectMessage
<1>1. DirectIInv => OneDirectMessage
  BY DEF DirectIInv
<1> QED
  BY <1>1, DirectInitOK, DirectStepKeeps, PTL DEF DirectSpec

=============================================================================
