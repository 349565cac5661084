----------------------- MODULE XfireGameDetectionProofs -----------------------
(***************************************************************************)
(* The games list, for any number of attempts, failures, crashes and       *)
(* versions, and the detectors and configured games on top of it, for any  *)
(* games, paths, edits and crashes, and whatever a new detector finds in   *)
(* memory.                                                                 *)
(*                                                                         *)
(* Every call of slotUpdate is, at every moment, either a request that is  *)
(* under way or the one gamesListReady that came of it.  TypeOK is not     *)
(* inductive without that count (nothing in the types bounds readies), so  *)
(* the two are proved together.                                            *)
(*                                                                         *)
(* ConfigurationKept is inductive where no game is configured twice, in    *)
(* memory or in the file, and a file that was never made has no games; the *)
(* lemmas say what each way to change a document does to every setting in  *)
(* it.                                                                     *)
(***************************************************************************)
EXTENDS XfireGameDetection, SequenceTheorems, TLAPS

--------------------------------------------------------------------------------
(* The games list. *)

IndInv == TypeOK /\ ReadyOncePerUpdate

\* A reply carries a version of the range, and at most one more failure.
LEMMA ReplyTyped ==
    ASSUME TypeOK, NEW v \in 0..MaxVersion, Reply(v)
    PROVE  failures' \in 0..MaxFailures
  BY BoundsAssumption DEF TypeOK, Reply

\* What the count leaves for the readies: no more than there were attempts.
LEMMA CountBounds ==
    ASSUME NEW r \in Nat, NEW v \in Nat, NEW l \in Nat, NEW u \in 0..MaxUpdates,
           r + v + l = u
    PROVE  r \in 0..MaxUpdates
<1>1. MaxUpdates \in Nat /\ u \in Nat /\ u =< MaxUpdates
  BY BoundsAssumption
<1>2. r =< u
  OBVIOUS
<1> QED BY <1>1, <1>2

\* The program starts with no request and no attempt.
LEMMA InitInv == Init => IndInv
<1> SUFFICES ASSUME Init PROVE IndInv
  OBVIOUS
<1>1. /\ 0 \in 0..MaxVersion /\ 1 \in 1..MaxVersion /\ 1 \in 0..MaxVersion
      /\ 0 \in 0..MaxUpdates /\ 0 \in 0..MaxFailures /\ 0 \in 0..MaxCrashes
  BY BoundsAssumption
<1>2. TypeOK
  BY <1>1 DEF Init, TypeOK
<1>3. ReadyOncePerUpdate
  BY DEF Init, ReadyOncePerUpdate
<1> QED BY <1>2, <1>3 DEF IndInv

\* Every step turns requests into requests or readies, one for one.
LEMMA StepInv == IndInv /\ [Next]_vars => IndInv'
<1> SUFFICES ASSUME IndInv, [Next]_vars PROVE IndInv'
  OBVIOUS
<1> USE BoundsAssumption
<1>0. TypeOK /\ ReadyOncePerUpdate
  BY DEF IndInv
<1>1. CASE SlotUpdate
  <2>1. updates' \in 0..MaxUpdates /\ versions' \in Nat /\ ReadyOncePerUpdate'
    BY <1>0, <1>1 DEF SlotUpdate, TypeOK, ReadyOncePerUpdate
  <2>2. list' \in 0..MaxVersion
    BY <1>0, <1>1 DEF SlotUpdate, TypeOK
  <2>3. TypeOK'
    BY <1>0, <1>1, <2>1, <2>2 DEF SlotUpdate, TypeOK
  <2> QED BY <2>1, <2>3 DEF IndInv
<1>2. CASE ReceivedVersion
  <2>1. PICK v \in 0..MaxVersion :
           /\ Reply(v)
           /\ IF Outdated(v) THEN lists' = lists + 1 /\ UNCHANGED readies
              ELSE readies' = readies + 1 /\ UNCHANGED lists
    BY <1>2 DEF ReceivedVersion
  <2>2. failures' \in 0..MaxFailures
    BY <1>0, <2>1, ReplyTyped
  <2>3. /\ versions' \in Nat /\ lists' \in Nat /\ readies' \in Nat
        /\ updates' = updates /\ updates \in 0..MaxUpdates
        /\ readies' + versions' + lists' = updates'
    <3>1. /\ versions \in Nat /\ lists \in Nat /\ readies \in Nat
          /\ readies + versions + lists = updates /\ updates \in 0..MaxUpdates
          /\ versions > 0 /\ versions' = versions - 1 /\ updates' = updates
      BY <1>0, <1>2 DEF TypeOK, ReadyOncePerUpdate, ReceivedVersion
    <3> QED BY <2>1, <3>1
  <2>4. readies' \in 0..MaxUpdates
    BY <2>3, CountBounds
  <2>5. TypeOK'
    BY <1>0, <1>2, <2>2, <2>3, <2>4 DEF TypeOK, ReceivedVersion
  <2> QED BY <2>3, <2>5 DEF IndInv, ReadyOncePerUpdate
<1>3. CASE ReceivedList
  <2>1. PICK v \in 0..MaxVersion : Reply(v) /\ list' = v /\ file' = v
    BY <1>3 DEF ReceivedList
  <2>2. failures' \in 0..MaxFailures
    BY <1>0, <2>1, ReplyTyped
  <2>3. /\ versions' \in Nat /\ lists' \in Nat /\ readies' \in Nat
        /\ updates' = updates /\ updates \in 0..MaxUpdates
        /\ readies' + versions' + lists' = updates'
    BY <1>0, <1>3 DEF TypeOK, ReadyOncePerUpdate, ReceivedList
  <2>4. readies' \in 0..MaxUpdates
    BY <2>3, CountBounds
  <2>5. TypeOK'
    BY <1>0, <1>3, <2>1, <2>2, <2>3, <2>4 DEF TypeOK, ReceivedList
  <2> QED BY <2>3, <2>5 DEF IndInv, ReadyOncePerUpdate
<1>4. CASE Publish
  <2>1. published' \in 1..MaxVersion
    BY <1>0, <1>4 DEF TypeOK, Publish
  <2>2. TypeOK' /\ ReadyOncePerUpdate'
    BY <1>0, <1>4, <2>1 DEF TypeOK, ReadyOncePerUpdate, Publish
  <2> QED BY <2>2 DEF IndInv
<1>5. CASE Crash
  <2>1. crashes' \in 0..MaxCrashes /\ 0 \in 0..MaxVersion /\ 0 \in 0..MaxUpdates
    BY <1>0, <1>5 DEF TypeOK, Crash
  <2>2. file' \in {Absent} \union 0..MaxVersion
    BY <1>0, <1>5, <2>1 DEF TypeOK, Crash
  <2>3. TypeOK'
    BY <1>0, <1>5, <2>1, <2>2 DEF TypeOK, Crash
  <2>4. ReadyOncePerUpdate'
    BY <1>5 DEF ReadyOncePerUpdate, Crash
  <2> QED BY <2>3, <2>4 DEF IndInv
<1>6. CASE UNCHANGED vars
  BY <1>0, <1>6 DEF vars, IndInv, TypeOK, ReadyOncePerUpdate
<1> QED BY <1>1, <1>2, <1>3, <1>4, <1>5, <1>6 DEF Next

\* The strengthened invariant, for any bounds.
THEOREM Inductive == Spec => []IndInv
  BY InitInv, StepInv, PTL DEF Spec

\* Each attempt to connect goes on at most once, however the replies of
\* overlapping attempts mix (XfireGamesList::slotReceivedGamesList).
THEOREM OneReadyPerUpdate == Spec => []ReadyOncePerUpdate
<1>1. IndInv => ReadyOncePerUpdate
  BY DEF IndInv
<1> QED BY <1>1, Inductive, PTL

\* Versions and counters stay in their ranges.
THEOREM TypeCorrect == Spec => []TypeOK
<1>1. IndInv => TypeOK
  BY DEF IndInv
<1> QED BY <1>1, Inductive, PTL

--------------------------------------------------------------------------------

\* As long as no request failed: a version of the local list, and an attempt that
\* went on, both stand for a list that was read from the file or saved to it.
ListKept ==
    failures = 0 /\ (local > 0 \/ readies > 0) => list > 0 /\ file = list

\* A reply without a failure is a list.
LEMMA ReplyOfNoFailure ==
    ASSUME TypeOK, NEW v, Reply(v), failures' = 0
    PROVE  failures = 0 /\ v > 0
  BY DEF TypeOK, Reply

\* Without failures nothing but a newer list replaces the list or its file.
LEMMA ListKeptStep == TypeOK /\ ListKept /\ [Next]_vars => ListKept'
<1> SUFFICES ASSUME TypeOK, ListKept, [Next]_vars, failures' = 0,
                    local' > 0 \/ readies' > 0
             PROVE  list' > 0 /\ file' = list'
  BY DEF ListKept
<1>0. /\ file \in Int /\ list \in Nat /\ local \in Int /\ readies \in Nat
      /\ failures \in Nat /\ Absent = -1
  BY BoundsAssumption DEF TypeOK, Absent
<1>1. CASE SlotUpdate
  <2>1. failures = 0 /\ local' = file /\ file' = file /\ readies' = readies
        /\ list' = IF file = Absent THEN list ELSE file
    BY <1>1 DEF SlotUpdate
  <2> QED BY <2>1, <1>0 DEF ListKept
<1>2. CASE ReceivedVersion
  <2>1. PICK v \in 0..MaxVersion :
           /\ Reply(v)
           /\ IF Outdated(v) THEN UNCHANGED readies ELSE readies' = readies + 1
    BY <1>2 DEF ReceivedVersion
  <2>2. failures = 0 /\ v > 0 /\ local' = local /\ list' = list /\ file' = file
    BY <2>1, <1>2, ReplyOfNoFailure DEF ReceivedVersion
  <2>3. local > 0 \/ readies > 0
    BY <2>1, <2>2 DEF Outdated
  <2> QED BY <2>2, <2>3 DEF ListKept
<1>3. CASE ReceivedList
  <2>1. PICK v \in 0..MaxVersion : Reply(v) /\ list' = v /\ file' = v
    BY <1>3 DEF ReceivedList
  <2> QED BY <2>1, ReplyOfNoFailure
<1>4. CASE Publish
  BY <1>4 DEF Publish, ListKept
<1>5. CASE Crash
  BY <1>5 DEF Crash
<1>6. CASE UNCHANGED vars
  BY <1>6 DEF vars, ListKept
<1> QED BY <1>1, <1>2, <1>3, <1>4, <1>5, <1>6 DEF Next

\* Without failures an attempt that goes on has a games list, the one in the file,
\* wherever a crash cut the file and however attempts overlap: a damaged file never
\* counts as up to date (XfireGamesList::slotUpdate, slotReceivedGamesList).
THEOREM AttemptsHaveList == Spec => []ListPresent
<1>1. Init => ListKept
  BY DEF Init, ListKept
<1>2. ListKept => ListPresent
  BY DEF ListKept, ListPresent
<1> QED BY <1>1, <1>2, ListKeptStep, TypeCorrect, PTL DEF Spec

--------------------------------------------------------------------------------
(* Detectors and configured games. *)

Entry == [name : Name, detect : Path \union {"", "bare"}]

Once(doc) ==
    \A i, j \in DOMAIN doc.games : doc.games[i].name = doc.games[j].name => i = j

States == {"whole", "broken", "no file"}

--------------------------------------------------------------------------------
(* Documents and what they set. *)

\* A function on 1..n is a sequence.
LEMMA FunctionIsSeq ==
    ASSUME NEW T, NEW n \in Nat, NEW f \in [1..n -> T]
    PROVE  f \in Seq(T)
  BY SeqDef

\* The parts of a document,
LEMMA DocumentIs ==
    ASSUME NEW S, NEW doc \in Documents(S)
    PROVE  /\ doc.state \in S /\ doc.games \in Seq(Entry)
           /\ Len(doc.games) \in Nat /\ DOMAIN doc.games = 1..Len(doc.games)
           /\ \A i \in DOMAIN doc.games : doc.games[i] \in Entry
           /\ doc = Document(doc.state, doc.games)
<1>1. doc.state \in S /\ doc.games \in Seq(Entry) /\ doc = Document(doc.state, doc.games)
  BY DEF Documents, Document, Entry
<1> QED BY <1>1, LenProperties, ElementOfSeq

\* a document of given parts,
LEMMA DocumentOf ==
    ASSUME NEW S, NEW state \in S, NEW games \in Seq(Entry)
    PROVE  /\ Document(state, games) \in Documents(S)
           /\ Document(state, games).state = state /\ Document(state, games).games = games
  BY DEF Documents, Document, Entry

\* and the states it may be in.
LEMMA DocumentIn ==
    ASSUME NEW S, NEW doc \in Documents(S), NEW T, doc.state \in T
    PROVE  doc \in Documents(T)
<1> DEFINE state == doc.state
           games == doc.games
<1>1. doc = Document(state, games) /\ state \in T /\ games \in Seq(Entry)
  BY DocumentIs
<1> HIDE DEF state, games
<1> QED BY <1>1, DocumentOf

\* A game that is configured has the setting of its entry.
LEMMA SettingIs ==
    ASSUME NEW doc, Once(doc), NEW i \in DOMAIN doc.games
    PROVE  /\ EntryOf(doc, doc.games[i].name) = {doc.games[i]}
           /\ Setting(doc, doc.games[i].name) = Text(doc.games[i].detect)
<1> DEFINE n == doc.games[i].name
           e == doc.games[i]
<1>1. e \in Entries(doc) /\ e.name = n
  BY DEF Entries
<1>2. \A f \in Entries(doc) : f.name = n => f = e
  BY DEF Entries, Once
<1>3. EntryOf(doc, n) = {e}
  BY <1>1, <1>2 DEF EntryOf
<1> HIDE DEF n, e
<1>4. (CHOOSE f \in {e} : TRUE) = e
  OBVIOUS
<1>5. Setting(doc, n) = Text(e.detect)
  BY <1>3, <1>4 DEF Setting
<1> QED BY <1>3, <1>5 DEF n, e

\* A game without an entry has no setting.
LEMMA SettingNone ==
    ASSUME NEW doc, NEW n
    PROVE  /\ EntryOf(doc, n) = {} <=> \A i \in DOMAIN doc.games : doc.games[i].name # n
           /\ EntryOf(doc, n) = {} => Setting(doc, n) = "none"
  BY DEF EntryOf, Entries, Setting

\* Two documents that have the same of a game.
LEMMA SameSetting ==
    ASSUME NEW d, NEW e, Once(d), Once(e), NEW n,
           \A i \in DOMAIN d.games : d.games[i].name = n =>
              \E j \in DOMAIN e.games :
                 e.games[j].name = n /\ Text(e.games[j].detect) = Text(d.games[i].detect),
           \A j \in DOMAIN e.games : e.games[j].name = n => \E i \in DOMAIN d.games : d.games[i].name = n
    PROVE  Setting(d, n) = Setting(e, n)
<1>1. CASE \E i \in DOMAIN d.games : d.games[i].name = n
  <2>1. PICK i \in DOMAIN d.games : d.games[i].name = n
    BY <1>1
  <2>2. PICK j \in DOMAIN e.games :
           e.games[j].name = n /\ Text(e.games[j].detect) = Text(d.games[i].detect)
    BY <2>1
  <2>3. Setting(d, n) = Text(d.games[i].detect) /\ Setting(e, n) = Text(e.games[j].detect)
    BY <2>1, <2>2, SettingIs
  <2> QED BY <2>2, <2>3
<1>2. CASE \A i \in DOMAIN d.games : d.games[i].name # n
  BY <1>2, SettingNone
<1> QED BY <1>1, <1>2

\* Reading takes a text that is empty away, and nothing else.
LEMMA ReadIs ==
    ASSUME NEW S, NEW doc \in Documents(S), Once(doc)
    PROVE  /\ Read(doc) \in Documents(S) /\ Once(Read(doc))
           /\ \A n : Setting(Read(doc), n) = Setting(doc, n)
<1> DEFINE games == doc.games
           read == [i \in DOMAIN games |-> [games[i] EXCEPT !.detect = IF @ = "" THEN "bare" ELSE @]]
           r == Read(doc)
<1>1. /\ games \in Seq(Entry) /\ Len(games) \in Nat /\ DOMAIN games = 1..Len(games)
      /\ \A i \in DOMAIN games : games[i] \in Entry
      /\ doc.state \in S /\ doc = Document(doc.state, games)
  BY DocumentIs
<1>2. ASSUME NEW i \in DOMAIN games
      PROVE  /\ read[i] \in Entry /\ read[i].name = games[i].name
             /\ Text(read[i].detect) = Text(games[i].detect)
  <2>1. games[i] \in Entry
    BY <1>1
  <2> QED BY <2>1 DEF Entry, Text
<1>3. read \in Seq(Entry) /\ DOMAIN read = DOMAIN games
  <2>1. read \in [DOMAIN games -> Entry]
    BY <1>2
  <2> HIDE DEF read, games
  <2>2. read \in [1..Len(games) -> Entry]
    BY <1>1, <2>1
  <2>3. DOMAIN read = DOMAIN games
    BY <2>1
  <2>4. read \in Seq(Entry)
    BY <1>1, <2>2, FunctionIsSeq
  <2> QED BY <2>3, <2>4
<1>4. r = Document(doc.state, read)
  <2>1. r = [doc EXCEPT !.games = read]
    BY DEF Read
  <2> HIDE DEF read, r
  <2>2. doc = [state |-> doc.state, games |-> games]
    BY <1>1 DEF Document
  <2> QED BY <2>1, <2>2 DEF Document
<1> HIDE DEF read, r, games
<1>5. r \in Documents(S) /\ r.games = read /\ doc.games = games
  BY <1>1, <1>3, <1>4, DocumentOf DEF games
<1>6. Once(r)
  BY <1>2, <1>3, <1>5 DEF Once
<1>7. \A n : Setting(r, n) = Setting(doc, n)
  <2>1. TAKE n
  <2> QED BY <1>2, <1>3, <1>5, <1>6, SameSetting
<1> QED BY <1>5, <1>6, <1>7 DEF r

--------------------------------------------------------------------------------
(* What the user applies to the document. *)

Paths == Path \union {""}
InMemory == Documents({"whole", "broken"})

\* Where the entry of a configured game is.
LEMMA PlaceIs ==
    ASSUME document \in InMemory, Once(document), NEW n, EntryOf(document, n) # {}
    PROVE  Place(n) \in DOMAIN document.games /\ document.games[Place(n)].name = n
<1>1. DOMAIN document.games = 1..Len(document.games) /\ Len(document.games) \in Nat
  BY DocumentIs DEF InMemory
<1>2. PICK i \in DOMAIN document.games : document.games[i].name = n
  BY SettingNone
<1>3. \A j \in DOMAIN document.games : document.games[j].name = n => j <= i
  <2>1. TAKE j \in DOMAIN document.games
  <2>2. document.games[j].name = n => j = i
    BY <1>2 DEF Once
  <2> QED BY <1>1, <2>2
<1> QED BY <1>2, <1>3 DEF Place

\* A path that is updated is the new one, or the game has no text and keeps none.
LEMMA UpdatedIs ==
    ASSUME document \in InMemory, Once(document), NEW n \in Name, NEW p \in Paths,
           EntryOf(document, n) # {}
    PROVE  /\ Updated(n, p) \in InMemory /\ Once(Updated(n, p))
           /\ \A m : m # n => Setting(Updated(n, p), m) = Setting(document, m)
           /\ \/ Setting(Updated(n, p), n) = p
              \/ EntryOf(Updated(n, p), n) = {[name |-> n, detect |-> "bare"]} /\ p # ""
<1> DEFINE games == document.games
           k == Place(n)
           detect == IF games[k].detect = "bare" THEN "bare" ELSE p
           new == [name |-> n, detect |-> detect]
           updated == [games EXCEPT ![k] = new]
           u == Updated(n, p)
<1>1. /\ games \in Seq(Entry) /\ Len(games) \in Nat /\ DOMAIN games = 1..Len(games)
      /\ \A i \in DOMAIN games : games[i] \in Entry
      /\ document.state \in {"whole", "broken"} /\ document = Document(document.state, games)
  BY DocumentIs DEF InMemory
<1>2. k \in DOMAIN games /\ games[k].name = n
  BY PlaceIs
<1>3. new \in Entry /\ p # "bare"
  BY PathAssumption DEF Entry, Paths
<1>4. u = Document(document.state, updated)
  <2>1. u = [document EXCEPT !.games = [games EXCEPT ![k] = [games[k] EXCEPT !.detect = detect]]]
    BY DEF Updated
  <2>2. [games[k] EXCEPT !.detect = detect] = new
    <3>1. games[k] \in Entry /\ games[k].name = n
      BY <1>1, <1>2
    <3>2. ASSUME NEW e \in Entry, e.name = n, NEW d
          PROVE  [e EXCEPT !.detect = d] = [name |-> n, detect |-> d]
      <4>1. e = [name |-> n, detect |-> e.detect]
        BY <3>2 DEF Entry
      <4> QED BY <4>1
    <3> HIDE DEF games, k, detect
    <3> QED BY <3>1, <3>2
  <2> HIDE DEF u, new, detect, k, games
  <2>3. document = [state |-> document.state, games |-> games]
    BY <1>1 DEF Document
  <2> QED BY <2>1, <2>2, <2>3 DEF Document
<1>5. new.name = n /\ new.detect = detect /\ (detect = "bare" \/ detect = p)
  OBVIOUS
<1> HIDE DEF u, new, detect, k
<1>6. /\ DOMAIN updated = DOMAIN games /\ updated[k] = new
      /\ \A i \in DOMAIN games : i # k => updated[i] = games[i]
      /\ \A i \in DOMAIN games : updated[i].name = games[i].name
  BY <1>1, <1>2, <1>5
<1>7. updated \in Seq(Entry)
  <2> HIDE DEF games
  <2>1. updated \in [1..Len(games) -> Entry]
    BY <1>1, <1>2, <1>3, <1>6
  <2> HIDE DEF updated
  <2> QED BY <1>1, <2>1, FunctionIsSeq
<1> HIDE DEF updated
<1>8. u \in InMemory /\ u.games = updated
  BY <1>1, <1>4, <1>7, DocumentOf, ZenonT(60) DEF InMemory
<1>9. Once(u)
  BY <1>6, <1>8 DEF Once
<1>10. \A m : m # n => Setting(u, m) = Setting(document, m)
  <2>1. SUFFICES ASSUME NEW m, m # n PROVE Setting(u, m) = Setting(document, m)
    OBVIOUS
  <2>2. \A i \in DOMAIN games : games[i].name = m => updated[i] = games[i]
    BY <1>2, <1>6, <2>1
  <2> QED BY <1>6, <1>8, <1>9, <2>2, SameSetting
<1>11. EntryOf(u, n) = {new} /\ Setting(u, n) = Text(detect)
  BY <1>2, <1>5, <1>6, <1>8, <1>9, SettingIs
<1>12. Setting(u, n) = p \/ (EntryOf(u, n) = {[name |-> n, detect |-> "bare"]} /\ p # "")
  <2>1. CASE detect = "bare"
    BY <2>1, <1>11 DEF Text, new
  <2>2. CASE detect = p
    BY <2>2, <1>3, <1>11 DEF Text
  <2> QED BY <1>5, <2>1, <2>2
<1> QED BY <1>8, <1>9, <1>10, <1>12 DEF u

\* A game that is new has the path it was applied with.
LEMMA AppendedIs ==
    ASSUME document \in InMemory, Once(document), NEW n \in Name, NEW p \in Paths,
           EntryOf(document, n) = {}
    PROVE  /\ Appended(n, p) \in InMemory /\ Once(Appended(n, p))
           /\ \A m : m # n => Setting(Appended(n, p), m) = Setting(document, m)
           /\ Setting(Appended(n, p), n) = p
<1> DEFINE games == document.games
           new == [name |-> n, detect |-> p]
           more == Append(games, new)
           u == Appended(n, p)
<1>1. /\ games \in Seq(Entry) /\ Len(games) \in Nat /\ DOMAIN games = 1..Len(games)
      /\ document.state \in {"whole", "broken"} /\ document = Document(document.state, games)
  BY DocumentIs DEF InMemory
<1>2. \A i \in DOMAIN games : games[i].name # n
  BY SettingNone
<1>3. new \in Entry /\ new.name = n /\ new.detect = p /\ p # "bare"
  BY PathAssumption DEF Entry, Paths
<1>4. u = Document(document.state, more)
  <2>1. u = [document EXCEPT !.games = more]
    BY DEF Appended
  <2> HIDE DEF u, more, games
  <2>2. document = [state |-> document.state, games |-> games]
    BY <1>1 DEF Document
  <2> QED BY <2>1, <2>2 DEF Document
<1> HIDE DEF u, new
<1>5. /\ more \in Seq(Entry) /\ DOMAIN more = 1..(Len(games) + 1) /\ more[Len(games) + 1] = new
      /\ \A i \in DOMAIN games : more[i] = games[i]
  <2> HIDE DEF games
  <2> QED BY <1>1, <1>3, AppendProperties, LenProperties
<1>6. /\ \A i \in DOMAIN more : i \in DOMAIN games \/ i = Len(games) + 1
      /\ DOMAIN games \subseteq DOMAIN more /\ Len(games) + 1 \in DOMAIN more
  BY <1>1, <1>5
<1> HIDE DEF more
<1>7. u \in InMemory /\ u.games = more
  <2>1. document.state \in {"whole", "broken"} /\ more \in Seq(Entry)
    BY <1>1, <1>5
  <2> HIDE DEF games
  <2> QED BY <1>4, <2>1, DocumentOf DEF InMemory
<1>8. Once(u)
  <2>1. SUFFICES ASSUME NEW i \in DOMAIN more, NEW j \in DOMAIN more, more[i].name = more[j].name
                 PROVE  i = j
    BY <1>7 DEF Once
  <2>2. CASE i \in DOMAIN games /\ j \in DOMAIN games
    BY <1>5, <2>1, <2>2 DEF Once
  <2>3. ~(i \in DOMAIN games /\ j = Len(games) + 1) /\ ~(i = Len(games) + 1 /\ j \in DOMAIN games)
    BY <1>2, <1>3, <1>5, <2>1
  <2> QED BY <1>6, <2>2, <2>3
<1>9. \A m : m # n => Setting(u, m) = Setting(document, m)
  <2>1. SUFFICES ASSUME NEW m, m # n PROVE Setting(u, m) = Setting(document, m)
    OBVIOUS
  <2>2. \A i \in DOMAIN more : more[i].name = m => i \in DOMAIN games /\ games[i] = more[i]
    BY <1>3, <1>5, <1>6, <2>1
  <2>3. \A i \in DOMAIN games : games[i].name = m => i \in DOMAIN more /\ more[i] = games[i]
    BY <1>5, <1>6
  <2> QED BY <1>7, <1>8, <2>2, <2>3, SameSetting
<1>10. Setting(u, n) = p
  <2>1. Setting(u, n) = Text(p)
    BY <1>3, <1>5, <1>6, <1>7, <1>8, SettingIs
  <2> QED BY <1>3, <2>1 DEF Text
<1> QED BY <1>7, <1>8, <1>9, <1>10 DEF u

\* Removing an entry moves those behind it.
LEMMA RemoveAtIs ==
    ASSUME NEW T, NEW s \in Seq(T), NEW k \in 1..Len(s)
    PROVE  /\ RemoveAt(s, k) \in Seq(T) /\ DOMAIN RemoveAt(s, k) = 1..(Len(s) - 1)
           /\ \A i \in 1..(Len(s) - 1) : RemoveAt(s, k)[i] = IF i < k THEN s[i] ELSE s[i + 1]
<1> DEFINE a == SubSeq(s, 1, k - 1)
           b == SubSeq(s, k + 1, Len(s))
<1>1. Len(s) \in Nat /\ k \in 1..Len(s) /\ \A i \in 1..Len(s) : s[i] \in T
  BY LenProperties, ElementOfSeq
<1>2. a \in Seq(T) /\ Len(a) = k - 1 /\ \A i \in 1..(k - 1) : a[i] = s[i]
  <2>1. 1 \in Int /\ k - 1 \in Int /\ \A i \in 1..(k - 1) : s[i] \in T
    BY <1>1
  <2>2. /\ a \in Seq(T) /\ Len(a) = IF 1 <= k - 1 THEN (k - 1) - 1 + 1 ELSE 0
        /\ \A i \in 1..((k - 1) - 1 + 1) : a[i] = s[1 + i - 1]
    BY <2>1, SubSeqProperties
  <2> HIDE DEF a
  <2> QED BY <1>1, <2>2
<1>3. /\ b \in Seq(T) /\ Len(b) = Len(s) - k
      /\ \A i \in 1..(Len(s) - k) : b[i] = s[i + k]
  <2>1. k + 1 \in Int /\ Len(s) \in Int /\ \A i \in (k + 1)..Len(s) : s[i] \in T
    BY <1>1
  <2>2. /\ b \in Seq(T) /\ Len(b) = IF k + 1 <= Len(s) THEN Len(s) - (k + 1) + 1 ELSE 0
        /\ \A i \in 1..(Len(s) - (k + 1) + 1) : b[i] = s[(k + 1) + i - 1]
    BY <2>1, SubSeqProperties
  <2> HIDE DEF b
  <2> QED BY <1>1, <2>2
<1> HIDE DEF a, b
<1>4. /\ a \o b \in Seq(T) /\ Len(a \o b) = Len(a) + Len(b)
      /\ \A i \in 1..(Len(a) + Len(b)) : (a \o b)[i] = IF i <= Len(a) THEN a[i] ELSE b[i - Len(a)]
  BY <1>2, <1>3, ConcatProperties
<1>5. RemoveAt(s, k) = a \o b
  BY DEF RemoveAt, a, b
<1> DEFINE c == RemoveAt(s, k)
<1>6. c \in Seq(T) /\ Len(c) = Len(s) - 1 /\ DOMAIN c = 1..(Len(s) - 1)
  <2>1. c \in Seq(T) /\ Len(c) = Len(s) - 1
    BY <1>1, <1>2, <1>3, <1>4, <1>5
  <2> HIDE DEF c
  <2> QED BY <2>1, LenProperties
<1>7. ASSUME NEW i \in 1..(Len(s) - 1) PROVE c[i] = IF i < k THEN s[i] ELSE s[i + 1]
  <2>1. c[i] = IF i <= k - 1 THEN a[i] ELSE b[i - (k - 1)]
    BY <1>1, <1>2, <1>3, <1>4, <1>5
  <2>2. CASE i < k
    BY <1>1, <1>2, <2>1, <2>2
  <2>3. CASE i >= k
    <3>1. c[i] = b[i - (k - 1)] /\ i - (k - 1) \in 1..(Len(s) - k) /\ (i - (k - 1)) + k = i + 1
      BY <1>1, <2>1, <2>3
    <3> QED BY <1>1, <1>3, <2>3, <3>1
  <2> QED BY <1>1, <2>2, <2>3
<1> QED BY <1>6, <1>7

\* A game that is disabled is not configured any more.
LEMMA RemovedIs ==
    ASSUME document \in InMemory, Once(document), NEW n
    PROVE  /\ Removed(n) \in InMemory /\ Once(Removed(n))
           /\ \A m : m # n => Setting(Removed(n), m) = Setting(document, m)
           /\ EntryOf(Removed(n), n) = {} /\ Setting(Removed(n), n) = "none"
<1>1. CASE EntryOf(document, n) = {}
  BY <1>1, SettingNone DEF Removed
<1>2. CASE EntryOf(document, n) # {}
  <2> DEFINE games == document.games
             k == Place(n)
             less == RemoveAt(games, k)
             u == Removed(n)
  <2>1. /\ games \in Seq(Entry) /\ Len(games) \in Nat /\ DOMAIN games = 1..Len(games)
        /\ document.state \in {"whole", "broken"} /\ document = Document(document.state, games)
    BY DocumentIs DEF InMemory
  <2>2. k \in DOMAIN games /\ games[k].name = n
    BY <1>2, PlaceIs
  <2>3. u = Document(document.state, less)
    <3>1. u = [document EXCEPT !.games = less]
      BY <1>2 DEF Removed
    <3> HIDE DEF u, less, games
    <3>2. document = [state |-> document.state, games |-> games]
      BY <2>1 DEF Document
    <3> QED BY <3>1, <3>2 DEF Document
  <2>4. /\ less \in Seq(Entry) /\ DOMAIN less = 1..(Len(games) - 1)
        /\ \A i \in 1..(Len(games) - 1) : less[i] = IF i < k THEN games[i] ELSE games[i + 1]
    <3> HIDE DEF games, k
    <3> QED BY <2>1, <2>2, RemoveAtIs
  <2> HIDE DEF u, less, k
  <2> DEFINE From(i) == IF i < k THEN i ELSE i + 1
             To(j) == IF j < k THEN j ELSE j - 1
  <2>5. /\ \A i \in DOMAIN less : From(i) \in DOMAIN games /\ From(i) # k /\ less[i] = games[From(i)]
        /\ \A i, j \in DOMAIN less : From(i) = From(j) => i = j
        /\ \A j \in DOMAIN games : j # k => To(j) \in DOMAIN less /\ From(To(j)) = j
    <3> HIDE DEF games
    <3> QED BY <2>1, <2>2, <2>4
  <2> HIDE DEF From, To
  <2>6. u \in InMemory /\ u.games = less
    <3>1. document.state \in {"whole", "broken"} /\ less \in Seq(Entry)
      BY <2>1, <2>4
    <3> HIDE DEF games
    <3> QED BY <2>3, <3>1, DocumentOf DEF InMemory
  <2>7. Once(u)
    BY <2>5, <2>6 DEF Once
  <2>8. \A m : m # n => Setting(u, m) = Setting(document, m)
    <3>1. SUFFICES ASSUME NEW m, m # n PROVE Setting(u, m) = Setting(document, m)
      OBVIOUS
    <3>2. \A i \in DOMAIN less : From(i) \in DOMAIN games /\ games[From(i)] = less[i]
      BY <2>5
    <3>3. \A j \in DOMAIN games : games[j].name = m => To(j) \in DOMAIN less /\ less[To(j)] = games[j]
      BY <2>2, <2>5, <3>1
    <3> QED BY <2>6, <2>7, <3>2, <3>3, SameSetting
  <2>9. \A i \in DOMAIN u.games : u.games[i].name # n
    BY <2>2, <2>5, <2>6 DEF Once
  <2>10. EntryOf(u, n) = {} /\ Setting(u, n) = "none"
    BY <2>9, SettingNone
  <2> QED BY <2>6, <2>7, <2>8, <2>10 DEF u
<1> QED BY <1>1, <1>2

--------------------------------------------------------------------------------
(* The configuration. *)

Configured ==
    /\ document \in InMemory /\ Once(document)
    /\ config \in Documents(States) /\ Once(config)
    /\ config.state = "no file" => config = NoFile
    /\ wanted \in [Name -> Paths \union {"none"}] /\ excused \subseteq Name
    /\ ConfigurationKept

\* Documents without games: broken, missing and new ones.
LEMMA EmptyDocuments ==
    /\ Broken \in InMemory /\ Broken \in Documents(States) /\ Once(Broken) /\ Broken.state = "broken"
    /\ NoFile \in Documents(States) /\ Once(NoFile) /\ NoFile.state = "no file"
    /\ Document("whole", <<>>) \in InMemory /\ Document("whole", <<>>) \in Documents(States)
    /\ Once(Document("whole", <<>>)) /\ Document("whole", <<>>).state = "whole"
    /\ \A n : /\ Setting(Broken, n) = "none" /\ Setting(NoFile, n) = "none"
              /\ Setting(Document("whole", <<>>), n) = "none"
<1>1. <<>> \in Seq(Entry) /\ DOMAIN <<>> = {}
  BY EmptySeq, LenProperties
<1>2. ASSUME NEW S, NEW state \in S
      PROVE  LET d == Document(state, <<>>)
             IN  d \in Documents(S) /\ Once(d) /\ d.state = state /\ \A n : Setting(d, n) = "none"
  <2> DEFINE d == Document(state, <<>>)
  <2>1. d \in Documents(S) /\ d.state = state /\ d.games = <<>>
    BY <1>1, <1>2, DocumentOf
  <2> HIDE DEF d
  <2>2. Once(d) /\ \A i \in DOMAIN d.games : FALSE
    BY <1>1, <2>1 DEF Once
  <2>3. \A n : Setting(d, n) = "none"
    BY <2>2, SettingNone
  <2> QED BY <2>1, <2>2, <2>3 DEF d
<1> QED BY <1>2 DEF Broken, NoFile, InMemory, States

\* The file is read, and made first if there is none.
LEMMA ReloadKeeps == ASSUME Configured, Reload PROVE Configured'
<1>1. /\ config' = Made(config) /\ document' = Read(config')
      /\ wanted' = wanted /\ excused' = excused
  BY DEF Reload
<1>2. /\ Made(config) \in InMemory /\ Made(config) \in Documents(States) /\ Once(Made(config))
      /\ Made(config).state # "no file"
      /\ \A n : Setting(Made(config), n) = Setting(config, n)
  <2>1. CASE config = NoFile
    BY <2>1, EmptyDocuments DEF Made
  <2>2. CASE config # NoFile
    <3>1. Made(config) = config /\ config.state # "no file"
      BY <2>2 DEF Made, Configured
    <3>2. config.state \in States
      BY DocumentIs DEF Configured
    <3>3. config.state \in {"whole", "broken"}
      BY <3>1, <3>2 DEF States
    <3>4. config \in InMemory
      BY <3>3, DocumentIn DEF InMemory, Configured
    <3> QED BY <3>1, <3>4 DEF Configured
  <2> QED BY <2>1, <2>2
<1> DEFINE made == Made(config)
<1> HIDE DEF made
<1>3. /\ Read(made) \in InMemory /\ Once(Read(made))
      /\ \A n : Setting(Read(made), n) = Setting(config, n)
  BY <1>2, ReadIs DEF InMemory, made
<1>4. config' = made /\ document' = Read(made)
  BY <1>1 DEF made
<1>5. ConfigurationKept'
  BY <1>1, <1>2, <1>3, <1>4 DEF Configured, ConfigurationKept, made
<1>6. /\ document' \in InMemory /\ Once(document') /\ config' \in Documents(States)
      /\ Once(config') /\ config'.state # "no file"
  BY <1>2, <1>3, <1>4 DEF made
<1>7. wanted' \in [Name -> Paths \union {"none"}] /\ excused' \subseteq Name
  BY <1>1 DEF Configured
<1> QED BY <1>5, <1>6, <1>7 DEF Configured, Once

\* The user applies a setting to one game.
LEMMA AppliesKeeps ==
    ASSUME Configured, NEW n \in Name, NEW p \in Paths \union {"none"}, NEW doc \in InMemory,
           Once(doc), Applies(n, p, doc),
           \A m : m # n => Setting(doc, m) = Setting(document, m),
           \/ document = Broken
           \/ Setting(doc, n) = p
           \/ EntryOf(doc, n) = {[name |-> n, detect |-> "bare"]} /\ p # ""
    PROVE  Configured'
<1>1. /\ document' = doc /\ config' = doc /\ wanted' = [wanted EXCEPT ![n] = p]
      /\ excused' = IF document = Broken THEN Name
                    ELSE IF EntryOf(document', n) = {[name |-> n, detect |-> "bare"]} /\ p # ""
                    THEN excused \union {n} ELSE excused \ {n}
  BY DEF Applies, Wants
<1>2. doc \in Documents(States) /\ doc.state # "no file"
  <2>1. doc.state \in {"whole", "broken"}
    BY DocumentIs DEF InMemory
  <2> QED BY <2>1, DocumentIn DEF States, InMemory
<1>3. wanted' \in [Name -> Paths \union {"none"}] /\ excused' \subseteq Name
  BY <1>1 DEF Configured
<1>4. ASSUME NEW m \in Name \ excused' PROVE Setting(doc, m) = wanted'[m]
  <2>1. document # Broken
    BY <1>1, <1>4
  <2>2. CASE m = n
    <3>1. wanted'[n] = p
      BY <1>1 DEF Configured
    <3>2. ~(EntryOf(doc, n) = {[name |-> n, detect |-> "bare"]} /\ p # "")
      BY <1>1, <1>4, <2>1, <2>2
    <3> QED BY <2>1, <2>2, <3>1, <3>2
  <2>3. CASE m # n
    <3>1. wanted'[m] = wanted[m] /\ m \notin excused
      BY <1>1, <1>4, <2>1, <2>3 DEF Configured
    <3>2. Setting(document, m) = wanted[m]
      BY <2>1, <3>1 DEF Configured, ConfigurationKept
    <3> QED BY <2>3, <3>1, <3>2
  <2> QED BY <2>2, <2>3
<1>5. ConfigurationKept'
  BY <1>1, <1>4 DEF ConfigurationKept
<1>6. Once(document)' /\ Once(config)'
  BY <1>1 DEF Once
<1> QED BY <1>1, <1>2, <1>3, <1>5, <1>6 DEF Configured

\* Applying a path configures this game as the user wants it, and no other.
LEMMA EnableKeeps ==
    ASSUME Configured, NEW n \in Name, NEW p \in Paths, Enable(n, p)
    PROVE  Configured'
<1>1. document \in InMemory /\ Once(document)
  BY DEF Configured
<1>2. CASE EntryOf(document, n) # {} /\ Applies(n, p, Updated(n, p))
  <2> DEFINE u == Updated(n, p)
  <2>1. /\ u \in InMemory /\ Once(u) /\ \A m : m # n => Setting(u, m) = Setting(document, m)
        /\ Setting(u, n) = p \/ (EntryOf(u, n) = {[name |-> n, detect |-> "bare"]} /\ p # "")
    BY <1>1, <1>2, UpdatedIs
  <2>2. Applies(n, p, u)
    BY <1>2
  <2> HIDE DEF u
  <2> QED BY <2>1, <2>2, AppliesKeeps
<1>3. CASE EntryOf(document, n) = {} /\ Applies(n, p, Appended(n, p))
  <2> DEFINE u == Appended(n, p)
  <2>1. /\ u \in InMemory /\ Once(u) /\ \A m : m # n => Setting(u, m) = Setting(document, m)
        /\ Setting(u, n) = p
    BY <1>1, <1>3, AppendedIs
  <2>2. Applies(n, p, u)
    BY <1>3
  <2> HIDE DEF u
  <2> QED BY <2>1, <2>2, AppliesKeeps
<1>4. CASE document = Broken /\ Applies(n, p, document)
  BY <1>1, <1>4, AppliesKeeps
<1> QED BY <1>2, <1>3, <1>4 DEF Enable

\* Removing a game removes no other.
LEMMA DisableKeeps ==
    ASSUME Configured, NEW n \in Name, Disable(n)
    PROVE  Configured'
<1> DEFINE u == Removed(n)
<1>1. /\ u \in InMemory /\ Once(u) /\ \A m : m # n => Setting(u, m) = Setting(document, m)
      /\ Setting(u, n) = "none"
  BY RemovedIs DEF Configured
<1>2. Applies(n, "none", u)
  BY DEF Disable
<1> HIDE DEF u
<1> QED BY <1>1, <1>2, AppliesKeeps

\* The program ends, maybe while it saves.
LEMMA RestartKeeps == ASSUME Configured, Restarts PROVE Configured'
<1>1. /\ document' = Broken /\ wanted' = wanted
      /\ \/ UNCHANGED <<config, excused>>
         \/ config' = Broken /\ excused' = Name
  BY DEF Restarts
<1>2. document' \in InMemory /\ Once(document') /\ wanted' \in [Name -> Paths \union {"none"}]
  BY <1>1, EmptyDocuments DEF Configured
<1>3. CASE UNCHANGED <<config, excused>>
  BY <1>1, <1>2, <1>3 DEF Configured, ConfigurationKept, Once
<1>4. CASE config' = Broken /\ excused' = Name
  <2>1. config' \in Documents(States) /\ Once(config') /\ config'.state # "no file"
    BY <1>4, EmptyDocuments
  <2>2. ConfigurationKept'
    BY <1>4 DEF ConfigurationKept
  <2> QED BY <1>2, <1>4, <2>1, <2>2 DEF Configured, Once
<1> QED BY <1>1, <1>3, <1>4

--------------------------------------------------------------------------------
(* Detectors, processes and the game that is announced. *)

Seen == Found \union Memory

Detecting ==
    /\ running \subseteq Paths /\ offered \subseteq Game
    /\ detectors \in Seq(Seen) /\ Len(detectors) = readies
    /\ session \in {"closed", "connecting", "in"} /\ announced \in Seen \union {None}
    /\ edits \in 0..MaxEdits /\ moves \in 0..MaxMoves

\* What a detector finds is a game or none.
LEMMA DetectedTyped == \A programs : Detected(programs) \in Seen
  BY DEF Detected, GameID, Listed, Found, Seen

\* A poll of a detector,
LEMMA PollKeeps ==
    ASSUME Detecting, TypeOK, NEW k, Poll(k)
    PROVE  Detecting'
<1> DEFINE found == Detected(running)
<1>1. /\ k \in DOMAIN detectors /\ detectors' = [detectors EXCEPT ![k] = found]
      /\ \/ announced' = announced \/ announced' = detectors'[Len(detectors')]
      /\ UNCHANGED <<running, offered, session, edits, moves, readies>>
  BY DEF Poll, SlotSendIngameStatus, SendIngameStatus, vars, configuration
<1>2. found \in Seen
  BY DetectedTyped
<1> HIDE DEF found
<1>3. /\ detectors \in Seq(Seen) /\ Len(detectors) \in Nat /\ DOMAIN detectors = 1..Len(detectors)
      /\ \A i \in 1..Len(detectors) : detectors[i] \in Seen
  BY LenProperties, ElementOfSeq DEF Detecting
<1>4. detectors' \in [1..Len(detectors) -> Seen]
  BY <1>1, <1>2, <1>3
<1>5. detectors' \in Seq(Seen) /\ Len(detectors') = Len(detectors)
  <2>1. detectors' \in Seq(Seen) /\ DOMAIN detectors' = 1..Len(detectors)
    BY <1>3, <1>4, FunctionIsSeq
  <2>2. Len(detectors') \in Nat /\ DOMAIN detectors' = 1..Len(detectors')
    BY <2>1, LenProperties
  <2> QED BY <1>3, <2>1, <2>2
<1>6. detectors'[Len(detectors')] \in Seen
  <2>1. Len(detectors) \in 1..Len(detectors)
    BY <1>1, <1>3
  <2> QED BY <1>4, <1>5, <2>1
<1> QED BY <1>1, <1>5, <1>6 DEF Detecting

\* a reply to a request,
LEMMA ReceivesKeeps ==
    ASSUME Detecting, TypeOK, Receives
    PROVE  Detecting' /\ UNCHANGED <<document, config, wanted, excused>>
<1>1. readies \in Nat /\ (readies' = readies \/ readies' = readies + 1)
  <2>1. readies \in Nat
    BY BoundsAssumption DEF TypeOK
  <2> QED BY <2>1 DEF Receives, ReceivedVersion, ReceivedList
<1>2. CASE readies' > readies
  <2>1. PICK m \in Memory : detectors' = Append(detectors, m)
    BY <1>2 DEF Receives, Continues, NewDetector
  <2>2. detectors' \in Seq(Seen) /\ Len(detectors') = Len(detectors) + 1
    <3>1. detectors \in Seq(Seen) /\ m \in Seen
      BY DEF Detecting, Seen
    <3> QED BY <2>1, <3>1, AppendProperties
  <2>3. Len(detectors') = readies'
    BY <1>1, <1>2, <2>2 DEF Detecting
  <2>4. /\ UNCHANGED <<document, config, wanted, excused, edits, running, announced, moves>>
        /\ offered' \subseteq Game /\ session' \in {"closed", "connecting", "in"}
    BY <1>2 DEF Receives, Continues, FillTree, Listed, Detecting
  <2> QED BY <2>2, <2>3, <2>4 DEF Detecting
<1>3. CASE readies' = readies
  BY <1>1, <1>3 DEF Receives, configuration, detection, Detecting
<1> QED BY <1>1, <1>2, <1>3

\* and every step keep the detectors' types.
LEMMA DetectingStep ==
    ASSUME Detecting, TypeOK, Step
    PROVE  Detecting'
<1> USE DetectionAssumption DEF Detecting
<1>1. CASE Updates
  BY <1>1 DEF Updates, SlotUpdate, Reload, detection
<1>2. CASE Receives
  BY <1>2, ReceivesKeeps
<1>3. CASE Publish /\ UNCHANGED <<configuration, detection>>
  BY <1>3 DEF Publish, configuration, detection
<1>4. CASE Restarts
  <2>1. /\ detectors' = <<>> /\ readies' = 0 /\ offered' = {} /\ session' = "closed"
        /\ announced' = None /\ UNCHANGED <<running, edits, moves>>
    BY <1>4 DEF Restarts, Crash
  <2>2. detectors' \in Seq(Seen) /\ Len(detectors') = 0
    BY <2>1, EmptySeq
  <2> QED BY <2>1, <2>2
<1>5. ASSUME NEW n \in Name, NEW p, NEW doc, Applies(n, p, doc)
      PROVE  Detecting'
  <2>1. edits' \in 0..MaxEdits
    <3>1. edits \in 0..MaxEdits /\ MaxEdits \in Nat
      OBVIOUS
    <3>2. edits < MaxEdits /\ edits' = edits + 1
      BY <1>5 DEF Applies
    <3> HIDE DEF Detecting
    <3> QED BY <3>1, <3>2
  <2>2. UNCHANGED <<running, offered, detectors, session, announced, moves, readies>>
    BY <1>5 DEF Applies, vars, detection
  <2> QED BY <2>1, <2>2
<1>6. CASE \E n \in Name : Disable(n) \/ \E p \in Path \union {""} : Enable(n, p)
  BY <1>5, <1>6 DEF Disable, Enable
<1>7. CASE \E k \in 1..MaxUpdates : Poll(k)
  BY <1>7, PollKeeps
<1>8. CASE LoggedIn \/ SessionEnds
  BY <1>8 DEF LoggedIn, SessionEnds, vars, configuration
<1>9. CASE Moves
  <2>1. moves' \in 0..MaxMoves
    <3>1. moves \in 0..MaxMoves /\ MaxMoves \in Nat
      OBVIOUS
    <3>2. moves < MaxMoves /\ moves' = moves + 1
      BY <1>9 DEF Moves
    <3> HIDE DEF Detecting
    <3> QED BY <3>1, <3>2
  <2>2. running' \subseteq Paths
    BY <1>9 DEF Moves, Paths
  <2> QED BY <1>9, <2>1, <2>2 DEF Moves, vars, configuration
<1> QED BY <1>1, <1>2, <1>3, <1>4, <1>6, <1>7, <1>8, <1>9 DEF Step

--------------------------------------------------------------------------------
(* The invariant. *)

DetectionInv == IndInv /\ Configured /\ Detecting

\* The program starts with no detector.
LEMMA DetectionStarts == DetectionInit => DetectionInv
<1> SUFFICES ASSUME DetectionInit PROVE DetectionInv
  OBVIOUS
<1>1. IndInv
  BY InitInv DEF DetectionInit
<1>2. Configured
  <2>1. /\ document = Broken /\ config = NoFile /\ excused = {}
        /\ wanted = [n \in Name |-> "none"]
    BY DEF DetectionInit
  <2>2. ConfigurationKept
    BY <2>1, EmptyDocuments DEF ConfigurationKept
  <2> QED BY <2>1, <2>2, EmptyDocuments DEF Configured
<1>3. Detecting
  <2>1. <<>> \in Seq(Seen) /\ Len(<<>>) = 0
    BY EmptySeq
  <2>2. /\ running = {} /\ offered = {} /\ detectors = <<>> /\ readies = 0
        /\ session = "closed" /\ announced = None /\ edits = 0 /\ moves = 0
    BY DEF DetectionInit, Init
  <2>3. 0 \in 0..MaxEdits /\ 0 \in 0..MaxMoves
    BY DetectionAssumption
  <2> QED BY <2>1, <2>2, <2>3 DEF Detecting
<1> QED BY <1>1, <1>2, <1>3 DEF DetectionInv

\* Every step is one of the games list's or leaves that alone.
LEMMA StepOfList == Step => [Next]_vars
  BY DEF Step, Updates, Receives, Restarts, Disable, Enable, Applies, Poll, LoggedIn, SessionEnds,
         Moves, Next

\* Every step keeps what is configured, or names the reason.
LEMMA ConfiguredStep ==
    ASSUME Configured, Detecting, TypeOK, Step
    PROVE  Configured'
<1>1. ASSUME UNCHANGED <<document, config, wanted, excused>>
      PROVE  Configured'
  BY <1>1 DEF Configured, ConfigurationKept, Once
<1>2. CASE Updates
  BY <1>2, ReloadKeeps DEF Updates
<1>3. CASE Receives
  BY <1>1, <1>3, ReceivesKeeps
<1>4. CASE Restarts
  BY <1>4, RestartKeeps
<1>5. CASE \E n \in Name : Disable(n) \/ \E p \in Path \union {""} : Enable(n, p)
  BY <1>5, DisableKeeps, EnableKeeps DEF Paths
<1>6. CASE \/ Publish /\ UNCHANGED <<configuration, detection>>
           \/ \E k \in 1..MaxUpdates : Poll(k)
           \/ LoggedIn \/ SessionEnds \/ Moves
  BY <1>1, <1>6 DEF configuration, Poll, LoggedIn, SessionEnds, Moves
<1> QED BY <1>2, <1>3, <1>4, <1>5, <1>6 DEF Step

\* Every step keeps the invariant.
LEMMA DetectionStep == DetectionInv /\ [DetectionNext]_allVars => DetectionInv'
<1> SUFFICES ASSUME DetectionInv, [DetectionNext]_allVars PROVE DetectionInv'
  OBVIOUS
<1>1. IndInv /\ TypeOK /\ Configured /\ Detecting
  BY DEF DetectionInv, IndInv
<1>2. CASE Step
  BY <1>1, <1>2, StepOfList, StepInv, ConfiguredStep, DetectingStep DEF DetectionInv
<1>3. CASE UNCHANGED allVars
  <2>1. UNCHANGED vars /\ UNCHANGED configuration /\ UNCHANGED detection
    BY <1>3 DEF allVars
  <2>2. IndInv'
    BY <1>1, <2>1, StepInv
  <2>3. Configured' /\ Detecting'
    BY <1>1, <2>1 DEF configuration, detection, vars, Configured, ConfigurationKept, Once, Detecting
  <2> QED BY <2>2, <2>3 DEF DetectionInv
<1> QED BY <1>2, <1>3 DEF DetectionNext

\* The strengthened invariant of detectors, configured games and the games list.
THEOREM DetectionInductive == DetectionSpec => []DetectionInv
  BY DetectionStarts, DetectionStep, PTL DEF DetectionSpec

\* Detectors, configured games and what the server was told keep their types; there is
\* a detector for each gamesListReady, and no game is ever configured twice
\* (slotApplyGameConfiguration, slotContinueConnecting).
THEOREM DetectionTypeCorrect == DetectionSpec => []TypesOK
<1>1. DetectionInv => TypesOK
  BY DEF DetectionInv, IndInv, Configured, Detecting, TypesOK, Once, InMemory, States, Paths, Seen
<1> QED BY <1>1, DetectionInductive, PTL

\* The configured games stay what the user applied, in memory and in the file, over
\* restarts and reloads at any moment of a login, but for the reasons named: a crash
\* while saving, Apply on a document that was not read, a game saved without a text
\* (XfireGamesManager::slotApplyGameConfiguration, XfireGamesList::initConfiguredGamesList).
THEOREM ConfigurationStays == DetectionSpec => []ConfigurationKept
<1>1. DetectionInv => ConfigurationKept
  BY DEF DetectionInv, Configured
<1> QED BY <1>1, DetectionInductive, PTL

\* Detectors, edits and sessions leave the games list to itself, so that what is proved
\* of it above holds with them: one gamesListReady for each attempt,
\* and a list without failures.
THEOREM ListUnderDetection == DetectionSpec => [](ReadyOncePerUpdate /\ ListPresent)
<1>1. DetectionInit => Init
  BY DEF DetectionInit
<1>2. [DetectionNext]_allVars => [Next]_vars
  BY StepOfList DEF DetectionNext, allVars
<1>3. DetectionSpec => Spec
  BY <1>1, <1>2, PTL DEF DetectionSpec, Spec
<1> QED BY <1>3, OneReadyPerUpdate, AttemptsHaveList, PTL
================================================================================
