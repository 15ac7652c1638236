-------------------------- MODULE VisionQueueProofs --------------------------
(***************************************************************************)
(* IInv is an inductive invariant of VisionQueue, for any images, requests *)
(* and analyses. Its two halves, FilesInv about files and their rows and   *)
(* TasksInv about analyses and their tasks, share little state and are     *)
(* shown one after the other, action by action, after the types. What      *)
(* remains is about the two tables only: AnalysesHaveAssets, and that they *)
(* implement VisionContract, both from what a step can do to them.         *)
(***************************************************************************)
EXTENDS VisionQueue, FiniteSetTheorems, SequenceTheorems, TLAPS

USE DEF disk, analyses, uploads, deletes, submits, tasks, lifespan, requests, history

-----------------------------------------------------------------------------
(* Files and their rows.                                                   *)

\* What becomes of a file without a row, spelled out.
LEMMA OrphansOpened ==
    /\ OrphansComeFromFailures
         <=> \A i \in files :
               \/ Stored(i) \/ i \in spoiled
               \/ \E v \in Uploaders : upc[v] = "written" /\ content[cur[v]] = i
               \/ \E d \in Deleters : dpc[d] \in {"dropped", "late"} /\ content[victim[d]] = i
    /\ OrphansComeFromFailures'
         <=> \A i \in files' :
               \/ Stored(i)' \/ i \in spoiled'
               \/ \E v \in Uploaders : upc'[v] = "written" /\ content'[cur'[v]] = i
               \/ \E d \in Deleters : dpc'[d] \in {"dropped", "late"} /\ content'[victim'[d]] = i
BY DEF OrphansComeFromFailures, InBetween

\* A step that leaves files, rows and their requests alone.
LEMMA FilesFrame ==
    ASSUME FilesInv, UNCHANGED <<files, assets, content, upc, cur, last, sent, dpc, victim, robbed, spoiled>>
    PROVE  FilesInv'
<1>1. Kept' = Kept /\ Claims' = Claims
  BY DEF Kept, Claims
<1>2. \A u \in Uploaders : Pending(u)' = Pending(u)
  BY DEF Pending
<1>3. IdsAreApart'
  BY <1>1, <1>2 DEF FilesInv, IdsAreApart
<1>4. ImagesAreKnown'
  BY <1>1 DEF FilesInv, ImagesAreKnown
<1>5. ClaimsAreExclusive'
  BY <1>1 DEF FilesInv, ClaimsAreExclusive
<1>6. OrphansComeFromFailures'
  BY OrphansOpened DEF FilesInv, Stored
<1> QED BY <1>3, <1>4, <1>5, <1>6 DEF FilesInv

\* Ids stay apart as long as none comes into use and none is taken back.
LEMMA ApartIds ==
    ASSUME IdsAreApart, UNCHANGED sent,
           \A u \in Uploaders : /\ Pending(u)' \subseteq Pending(u)
                                /\ upc'[u] # "idle" => cur'[u] \in Pending(u)',
           \A x \in Kept' : x \in Kept \/ \E u \in Uploaders : x \in Pending(u) /\ x \notin Pending(u)'
    PROVE  IdsAreApart'
<1>1. \A u \in Uploaders : Pending(u)' \subseteq 1..sent' /\ (upc'[u] # "idle" => cur'[u] \in Pending(u)')
  BY DEF IdsAreApart
<1>2. \A u, v \in Uploaders : u # v => Pending(u)' \cap Pending(v)' = {}
  BY DEF IdsAreApart
<1>3. Kept' \subseteq 1..sent'
  BY DEF IdsAreApart
<1>4. ASSUME NEW u \in Uploaders, NEW x \in Kept', x \in Pending(u)'
      PROVE  FALSE
  BY <1>4 DEF IdsAreApart
<1> QED BY <1>1, <1>2, <1>3, <1>4 DEF IdsAreApart

\* The file of one image after another: an uploader's ids are those it has not
\* come to yet.
LEMMA NextFilePending ==
    ASSUME TypeOK, IdsAreApart, NEW u \in Uploaders, upc[u] # "idle", NextFile(u) \/ EndRequest(u)
    PROVE  /\ upc' \in [Uploaders -> {"idle", "next", "writing", "written"}]
           /\ cur' \in [Uploaders -> Assets \cup {0}] /\ last' \in [Uploaders -> Assets \cup {0}]
           /\ upc'[u] \in {"idle", "next"}
           /\ \A v \in Uploaders : v # u => upc'[v] = upc[v] /\ cur'[v] = cur[v] /\ Pending(v)' = Pending(v)
           /\ Pending(u)' \subseteq Pending(u) \ {cur[u]}
           /\ \A v \in Uploaders : upc'[v] # "idle" => cur'[v] \in Pending(v)'
<1>1. /\ upc \in [Uploaders -> {"idle", "next", "writing", "written"}]
      /\ cur \in [Uploaders -> Assets \cup {0}] /\ last \in [Uploaders -> Assets \cup {0}]
      /\ MaxFiles \in Nat
  BY VisionAssumption DEF TypeOK
<1>2. cur[u] \in cur[u]..last[u] /\ cur[u] \in Nat /\ last[u] \in Nat /\ last[u] <= MaxFiles
  BY <1>1 DEF IdsAreApart, Pending, Assets
<1>3. CASE EndRequest(u)
  <2>1. /\ upc' = [upc EXCEPT ![u] = "idle"]
        /\ cur' = [cur EXCEPT ![u] = 0] /\ last' = [last EXCEPT ![u] = 0]
    BY <1>3 DEF EndRequest
  <2>2. /\ upc'[u] = "idle"
        /\ \A v \in Uploaders : v # u => upc'[v] = upc[v] /\ cur'[v] = cur[v] /\ last'[v] = last[v]
    BY <1>1, <2>1
  <2>3. Pending(u)' = {} /\ \A v \in Uploaders : v # u => Pending(v)' = Pending(v)
    BY <2>2 DEF Pending
  <2>4. \A v \in Uploaders : upc'[v] # "idle" => cur'[v] \in Pending(v)'
    BY <2>2, <2>3 DEF IdsAreApart
  <2>5. /\ upc' \in [Uploaders -> {"idle", "next", "writing", "written"}]
        /\ cur' \in [Uploaders -> Assets \cup {0}] /\ last' \in [Uploaders -> Assets \cup {0}]
    BY <1>1, <2>1
  <2> QED BY <2>2, <2>3, <2>4, <2>5
<1>4. CASE ~EndRequest(u)
  <2>1. /\ cur[u] < last[u]
        /\ upc' = [upc EXCEPT ![u] = "next"]
        /\ cur' = [cur EXCEPT ![u] = cur[u] + 1] /\ last' = last
    BY <1>4 DEF NextFile
  <2>2. /\ upc'[u] = "next" /\ cur'[u] = cur[u] + 1 /\ last'[u] = last[u]
        /\ \A v \in Uploaders : v # u => upc'[v] = upc[v] /\ cur'[v] = cur[v] /\ last'[v] = last[v]
    BY <1>1, <2>1
  <2>3. Pending(u)' = (cur[u] + 1)..last[u] /\ Pending(u) = cur[u]..last[u]
        /\ \A v \in Uploaders : v # u => Pending(v)' = Pending(v)
    BY <2>2 DEF Pending
  <2>4. Pending(u)' \subseteq Pending(u) \ {cur[u]} /\ cur'[u] \in Pending(u)'
    BY <1>2, <2>1, <2>2, <2>3
  <2>5. \A v \in Uploaders : upc'[v] # "idle" => cur'[v] \in Pending(v)'
    <3>1. \A v \in Uploaders : v # u => Pending(v)' = Pending(v) /\ upc'[v] = upc[v] /\ cur'[v] = cur[v]
      BY <2>2, <2>3
    <3>2. \A v \in Uploaders : upc[v] # "idle" => cur[v] \in Pending(v)
      BY DEF IdsAreApart
    <3> QED BY <2>4, <3>1, <3>2
  <2>6. cur[u] + 1 \in Assets
    BY <1>1, <1>2, <2>1 DEF Assets
  <2>7. /\ upc' \in [Uploaders -> {"idle", "next", "writing", "written"}]
        /\ cur' \in [Uploaders -> Assets \cup {0}] /\ last' \in [Uploaders -> Assets \cup {0}]
    BY <1>1, <2>1, <2>6
  <2> QED BY <2>2, <2>3, <2>4, <2>5, <2>7
<1> QED BY <1>3, <1>4

\* Claims stay exclusive while none is added and no file that is claimed goes.
LEMMA FewerClaims ==
    ASSUME ClaimsAreExclusive, Claims' \subseteq Claims, files \subseteq files', robbed \subseteq robbed',
           \A x \in Claims : content'[x] = content[x],
           \A d \in Deleters : dpc'[d] = "dropped" =>
               dpc[d] = "dropped" /\ victim'[d] = victim[d] /\ victim[d] \notin assets'
    PROVE  ClaimsAreExclusive'
<1>1. \A x \in Claims' : content'[x] \in files' \cup robbed'
  BY DEF ClaimsAreExclusive
<1>2. \A x, y \in Claims' : content'[x] = content'[y] /\ content'[x] \notin robbed' => x = y
  BY DEF ClaimsAreExclusive
<1> QED BY <1>1, <1>2 DEF ClaimsAreExclusive

\* A request takes ids that none has had.
LEMMA UploadI ==
    ASSUME TypeOK, FilesInv, NEW u \in Uploaders, Upload(u) \/ Scan(u)
    PROVE  TypeOK' /\ FilesInv'
<1>1. /\ upc[u] = "idle" /\ upc' = [upc EXCEPT ![u] = "next"]
      /\ cur' = [cur EXCEPT ![u] = sent + 1]
      /\ UNCHANGED <<files, assets, content, dpc, victim, robbed, spoiled>>
  BY DEF Upload, Scan, FirstIdle
<1>2. PICK n \in Nat : n >= sent + 1 /\ n <= MaxFiles /\ sent' = n /\ last' = [last EXCEPT ![u] = n]
  <2>1. sent \in Nat /\ MaxFiles \in Nat /\ MaxScan \in Nat
    BY VisionAssumption DEF TypeOK
  <2>2. CASE Upload(u)
    <3>1. sent < MaxFiles /\ sent' = sent + 1 /\ last' = [last EXCEPT ![u] = sent + 1]
      BY <2>2 DEF Upload
    <3>2. sent + 1 \in Nat /\ sent + 1 >= sent + 1 /\ sent + 1 <= MaxFiles
      BY <2>1, <3>1
    <3> QED BY <3>1, <3>2
  <2>3. CASE Scan(u)
    <3>1. PICK k \in 2..MaxScan :
            sent + k <= MaxFiles /\ sent' = sent + k /\ last' = [last EXCEPT ![u] = sent + k]
      BY <2>3 DEF Scan
    <3>2. sent + k \in Nat /\ sent + k >= sent + 1 /\ sent + k <= MaxFiles
      BY <2>1, <3>1
    <3> QED BY <3>1, <3>2
  <2> QED BY <2>2, <2>3
<1>3. /\ sent \in Nat /\ sent + 1 \in Assets /\ n \in Assets /\ sent' \in 0..MaxFiles
  BY <1>2, VisionAssumption DEF TypeOK, Assets
<1>4. TypeOK'
  BY <1>1, <1>2, <1>3 DEF TypeOK, Upload, Scan
<1>5. /\ upc'[u] = "next" /\ cur'[u] = sent + 1 /\ last'[u] = n
      /\ \A v \in Uploaders : v # u => upc'[v] = upc[v] /\ cur'[v] = cur[v] /\ last'[v] = last[v]
  BY <1>1, <1>2 DEF TypeOK
<1>6. Pending(u)' = (sent + 1)..n /\ \A v \in Uploaders : v # u => Pending(v)' = Pending(v)
  BY <1>5 DEF Pending
<1>7. Kept' = Kept /\ Claims' = Claims
  <2>1. \A v \in Uploaders : (upc'[v] = "written" <=> upc[v] = "written")
                             /\ (upc[v] = "written" => cur'[v] = cur[v])
    BY <1>1, <1>5
  <2> QED BY <1>1, <2>1 DEF Kept, Claims
<1>8. IdsAreApart'
  <2>1. \A v \in Uploaders : Pending(v)' \subseteq 1..sent' /\ (upc'[v] # "idle" => cur'[v] \in Pending(v)')
    <3>1. Pending(u)' \subseteq 1..sent' /\ cur'[u] \in Pending(u)'
      BY <1>2, <1>3, <1>5, <1>6
    <3>2. ASSUME NEW v \in Uploaders, v # u
          PROVE  Pending(v)' \subseteq 1..sent' /\ (upc'[v] # "idle" => cur'[v] \in Pending(v)')
      <4>1. Pending(v) \subseteq 1..sent /\ (upc[v] # "idle" => cur[v] \in Pending(v))
        BY DEF FilesInv, IdsAreApart
      <4>2. 1..sent \subseteq 1..sent'
        BY <1>2, <1>3
      <4> QED BY <1>5, <1>6, <3>2, <4>1, <4>2
    <3> QED BY <3>1, <3>2
  <2>2. \A v, w \in Uploaders : v # w => Pending(v)' \cap Pending(w)' = {}
    <3>1. \A v \in Uploaders : v # u => Pending(u)' \cap Pending(v)' = {}
      <4>1. \A v \in Uploaders : Pending(v) \subseteq 1..sent
        BY DEF FilesInv, IdsAreApart
      <4>2. (sent + 1)..n \cap 1..sent = {}
        BY <1>3
      <4> QED BY <1>6, <4>1, <4>2
    <3> QED BY <1>6, <3>1 DEF FilesInv, IdsAreApart
  <2>3. Kept' \subseteq 1..sent'
    BY <1>2, <1>3, <1>7 DEF FilesInv, IdsAreApart
  <2>4. \A v \in Uploaders : Pending(v)' \cap Kept' = {}
    <3>1. Kept \subseteq 1..sent
      BY DEF FilesInv, IdsAreApart
    <3>2. (sent + 1)..n \cap 1..sent = {}
      BY <1>3
    <3> QED BY <1>6, <1>7, <3>1, <3>2 DEF FilesInv, IdsAreApart
  <2> QED BY <2>1, <2>2, <2>3, <2>4 DEF IdsAreApart
<1>9. ImagesAreKnown'
  BY <1>1, <1>5, <1>7 DEF FilesInv, ImagesAreKnown
<1>10. ClaimsAreExclusive'
  BY <1>1, <1>7 DEF FilesInv, ClaimsAreExclusive
<1>11. OrphansComeFromFailures'
  BY <1>1, <1>5, OrphansOpened DEF FilesInv, Stored
<1> QED BY <1>4, <1>8, <1>9, <1>10, <1>11 DEF FilesInv

\* An uploader that has not written its file steps: only the image of the id it
\* is at changes, and nobody has seen that; what it leaves on disk is spoiled.
LEMMA UploaderMoves ==
    ASSUME TypeOK, FilesInv, NEW u \in Uploaders, upc[u] \in {"next", "writing"},
           UNCHANGED <<assets, sent, dpc, victim, robbed>>,
           files \subseteq files', files' \subseteq files \cup spoiled', spoiled \subseteq spoiled',
           content' \in [Assets -> Images \cup {None}],
           \A x \in Assets : x # cur[u] => content'[x] = content[x],
           \/ NextFile(u) \/ EndRequest(u)
           \/ upc' = [upc EXCEPT ![u] = "writing"] /\ UNCHANGED <<cur, last>> /\ content'[cur[u]] \in Images
    PROVE  FilesInv' /\ upc' \in [Uploaders -> {"idle", "next", "writing", "written"}]
           /\ cur' \in [Uploaders -> Assets \cup {0}] /\ last' \in [Uploaders -> Assets \cup {0}]
<1>1. IdsAreApart /\ ImagesAreKnown /\ ClaimsAreExclusive /\ OrphansComeFromFailures
  BY DEF FilesInv
<1>2. /\ upc' \in [Uploaders -> {"idle", "next", "writing", "written"}]
      /\ cur' \in [Uploaders -> Assets \cup {0}] /\ last' \in [Uploaders -> Assets \cup {0}]
      /\ upc'[u] # "written" /\ (upc'[u] = "writing" => cur'[u] = cur[u] /\ content'[cur[u]] \in Images)
      /\ \A v \in Uploaders : v # u => upc'[v] = upc[v] /\ cur'[v] = cur[v] /\ Pending(v)' = Pending(v)
      /\ Pending(u)' \subseteq Pending(u)
      /\ \A v \in Uploaders : upc'[v] # "idle" => cur'[v] \in Pending(v)'
  <2>1. CASE NextFile(u) \/ EndRequest(u)
    BY <1>1, <2>1, NextFilePending
  <2>2. CASE upc' = [upc EXCEPT ![u] = "writing"] /\ UNCHANGED <<cur, last>> /\ content'[cur[u]] \in Images
    <3>1. upc'[u] = "writing" /\ \A v \in Uploaders : v # u => upc'[v] = upc[v]
      BY <2>2 DEF TypeOK
    <3>2. \A v \in Uploaders : Pending(v)' = Pending(v) /\ (upc'[v] # "idle" => upc[v] # "idle")
      BY <2>2, <3>1 DEF Pending
    <3>3. \A v \in Uploaders : upc'[v] # "idle" => cur'[v] \in Pending(v)'
      BY <1>1, <2>2, <3>2 DEF IdsAreApart
    <3> QED BY <2>2, <3>1, <3>2, <3>3 DEF TypeOK
  <2> QED BY <2>1, <2>2
<1>3. Kept' = Kept
  BY DEF Kept
<1>4. Claims' = Claims
  <2>1. \A v \in Uploaders : (upc'[v] = "written" <=> upc[v] = "written")
                             /\ (upc[v] = "written" => cur'[v] = cur[v])
    BY <1>2
  <2> QED BY <2>1 DEF Claims
<1>5. IdsAreApart'
  BY <1>1, <1>2, <1>3, ApartIds
<1>6. Kept \subseteq Assets /\ cur[u] \notin Kept
  <2>1. sent \in Nat /\ sent <= MaxFiles /\ MaxFiles \in Nat
    BY VisionAssumption DEF TypeOK
  <2> QED BY <1>1, <2>1 DEF IdsAreApart, Assets
<1>7. \A v \in Uploaders : v # u /\ upc[v] # "idle" => cur[v] \in Assets /\ cur[v] # cur[u]
  <2>1. sent \in Nat /\ sent <= MaxFiles /\ MaxFiles \in Nat
    BY VisionAssumption DEF TypeOK
  <2>2. \A v \in Uploaders : upc[v] # "idle" => cur[v] \in Pending(v) /\ cur[v] \in 1..sent
    BY <1>1 DEF IdsAreApart
  <2> QED BY <1>1, <2>1, <2>2 DEF IdsAreApart, Assets
<1>8. \A x \in Kept : content'[x] = content[x]
  BY <1>6
<1>9. ImagesAreKnown'
  <2>1. \A v \in Uploaders : upc'[v] \in {"writing", "written"} => content'[cur'[v]] \in Images
    BY <1>1, <1>2, <1>7 DEF ImagesAreKnown
  <2> QED BY <1>1, <1>3, <1>8, <2>1 DEF ImagesAreKnown
<1>10. \A x \in Claims : content'[x] = content[x]
  <2>1. \A x \in Claims : x \in Kept \/ \E v \in Uploaders : upc[v] = "written" /\ x = cur[v]
    BY DEF Claims, Kept
  <2> QED BY <1>7, <1>8, <2>1
<1>11. ClaimsAreExclusive'
  BY <1>1, <1>4, <1>10, FewerClaims DEF ClaimsAreExclusive
<1>12. OrphansComeFromFailures'
  <2> SUFFICES ASSUME NEW i \in files, i \notin spoiled'
               PROVE  \/ Stored(i)'
                      \/ \E v \in Uploaders : upc'[v] = "written" /\ content'[cur'[v]] = i
                      \/ \E d \in Deleters : dpc[d] \in {"dropped", "late"} /\ content'[victim[d]] = i
    BY OrphansOpened
  <2>1. CASE Stored(i)
    BY <1>8, <2>1 DEF Stored, Kept
  <2>2. CASE \E v \in Uploaders : upc[v] = "written" /\ content[cur[v]] = i
    <3>1. PICK v \in Uploaders : upc[v] = "written" /\ content[cur[v]] = i
      BY <2>2
    <3>2. v # u /\ upc'[v] = "written" /\ cur'[v] = cur[v] /\ content'[cur[v]] = content[cur[v]]
      BY <1>2, <1>7, <3>1
    <3> QED BY <3>1, <3>2
  <2>3. CASE \E d \in Deleters : dpc[d] \in {"dropped", "late"} /\ content[victim[d]] = i
    <3>1. PICK d \in Deleters : dpc[d] \in {"dropped", "late"} /\ content[victim[d]] = i
      BY <2>3
    <3>2. victim[d] \in Kept
      BY <3>1 DEF Kept
    <3> QED BY <1>8, <3>1, <3>2
  <2> QED BY <1>1, <2>1, <2>2, <2>3, OrphansOpened
<1> QED BY <1>2, <1>5, <1>9, <1>11, <1>12 DEF FilesInv

\* RefuseFile and LookUpDigest.
LEMMA LookUpI ==
    ASSUME TypeOK, FilesInv, NEW u \in Uploaders, RefuseFile(u) \/ LookUpDigest(u)
    PROVE  TypeOK' /\ FilesInv'
<1>1. cur[u] \in Assets /\ upc[u] = "next"
  <2>1. upc[u] = "next" /\ cur[u] \in Pending(u) /\ Pending(u) \subseteq 1..sent
    BY DEF RefuseFile, LookUpDigest, FilesInv, IdsAreApart
  <2> QED BY <2>1, VisionAssumption DEF TypeOK, Assets
<1>2. UNCHANGED <<files, assets, sent, dpc, victim, robbed, spoiled>>
  BY DEF RefuseFile, LookUpDigest
<1>3. \/ (NextFile(u) \/ EndRequest(u)) /\ UNCHANGED content
      \/ \E i \in Images : /\ upc' = [upc EXCEPT ![u] = "writing"] /\ UNCHANGED <<cur, last>>
                           /\ content' = [content EXCEPT ![cur[u]] = i]
  BY DEF RefuseFile, LookUpDigest
<1>4. /\ content' \in [Assets -> Images \cup {None}]
      /\ \A x \in Assets : x # cur[u] => content'[x] = content[x]
      /\ \/ NextFile(u) \/ EndRequest(u)
         \/ upc' = [upc EXCEPT ![u] = "writing"] /\ UNCHANGED <<cur, last>> /\ content'[cur[u]] \in Images
  <2>1. content \in [Assets -> Images \cup {None}]
    BY DEF TypeOK
  <2> QED BY <1>1, <1>3, <2>1
<1>5. FilesInv' /\ upc' \in [Uploaders -> {"idle", "next", "writing", "written"}]
      /\ cur' \in [Uploaders -> Assets \cup {0}] /\ last' \in [Uploaders -> Assets \cup {0}]
  BY <1>1, <1>2, <1>4, UploaderMoves
<1>6. TypeOK'
  BY <1>4, <1>5 DEF RefuseFile, LookUpDigest, TypeOK
<1> QED BY <1>5, <1>6

\* WritePrivate: the exclusive creation adds a claim to an image nobody claims.
LEMMA WritePrivateI ==
    ASSUME TypeOK, FilesInv, NEW u \in Uploaders, WritePrivate(u)
    PROVE  TypeOK' /\ FilesInv'
<1>1. /\ upc[u] = "writing" /\ cur[u] \in Assets /\ cur[u] \in Pending(u)
      /\ content[cur[u]] \in Images
  <2>1. upc[u] = "writing" /\ cur[u] \in Pending(u) /\ Pending(u) \subseteq 1..sent
    BY DEF WritePrivate, FilesInv, IdsAreApart
  <2>2. content[cur[u]] \in Images
    BY <2>1 DEF FilesInv, ImagesAreKnown
  <2> QED BY <2>1, <2>2, VisionAssumption DEF TypeOK, Assets
<1>2. UNCHANGED <<assets, sent, dpc, victim, robbed, spoiled>>
  BY DEF WritePrivate
<1>3. CASE content[cur[u]] \in files
  <2>1. content' = [content EXCEPT ![cur[u]] = None] /\ NextFile(u) /\ UNCHANGED files
    BY <1>3 DEF WritePrivate
  <2>2. /\ content' \in [Assets -> Images \cup {None}]
        /\ \A x \in Assets : x # cur[u] => content'[x] = content[x]
    BY <1>1, <2>1 DEF TypeOK
  <2>3. FilesInv' /\ upc' \in [Uploaders -> {"idle", "next", "writing", "written"}]
        /\ cur' \in [Uploaders -> Assets \cup {0}] /\ last' \in [Uploaders -> Assets \cup {0}]
    BY <1>1, <1>2, <2>1, <2>2, UploaderMoves
  <2>4. TypeOK'
    BY <2>1, <2>2, <2>3 DEF WritePrivate, TypeOK
  <2> QED BY <2>3, <2>4
<1>4. CASE content[cur[u]] \notin files
  <2>1. /\ files' = files \cup {content[cur[u]]}
        /\ upc' = [upc EXCEPT ![u] = "written"]
        /\ UNCHANGED <<content, cur, last>>
    BY <1>4 DEF WritePrivate
  <2>2. TypeOK'
    BY <1>1, <2>1 DEF WritePrivate, TypeOK
  <2>3. upc'[u] = "written" /\ \A v \in Uploaders : v # u => upc'[v] = upc[v]
    BY <2>1 DEF TypeOK
  <2>4. Kept' = Kept /\ \A v \in Uploaders : Pending(v)' = Pending(v)
    BY <1>1, <1>2, <2>1, <2>3 DEF Kept, Pending
  <2>5. Claims' = Claims \cup {cur[u]}
    BY <1>2, <2>1, <2>3 DEF Claims
  <2>6. IdsAreApart'
    <3>1. IdsAreApart
      BY DEF FilesInv
    <3>2. \A v \in Uploaders : upc'[v] # "idle" => cur'[v] \in Pending(v)'
      BY <1>1, <2>1, <2>3, <2>4, <3>1 DEF IdsAreApart
    <3> QED BY <1>2, <2>4, <3>1, <3>2, ApartIds
  <2>7. ImagesAreKnown'
    BY <1>1, <2>1, <2>3, <2>4 DEF FilesInv, ImagesAreKnown
  <2>8. ClaimsAreExclusive'
    <3>1. ClaimsAreExclusive
      BY DEF FilesInv
    <3>2. \A x \in Claims' : content'[x] \in files' \cup robbed'
      BY <1>2, <2>1, <2>5, <3>1 DEF ClaimsAreExclusive
    <3>3. \A x \in Claims : content[x] = content[cur[u]] => content[x] \in robbed
      BY <1>4, <3>1 DEF ClaimsAreExclusive
    <3>4. \A x, y \in Claims' : content'[x] = content'[y] /\ content'[x] \notin robbed' => x = y
      BY <1>2, <2>1, <2>5, <3>1, <3>3 DEF ClaimsAreExclusive
    <3> QED BY <1>2, <3>1, <3>2, <3>4 DEF ClaimsAreExclusive
  <2>9. OrphansComeFromFailures'
    <3> SUFFICES ASSUME NEW i \in files', i \notin spoiled
                 PROVE  \/ Stored(i)'
                        \/ \E v \in Uploaders : upc'[v] = "written" /\ content'[cur'[v]] = i
                        \/ \E d \in Deleters : dpc'[d] \in {"dropped", "late"} /\ content'[victim'[d]] = i
      BY <1>2, OrphansOpened
    <3>1. CASE i = content[cur[u]]
      BY <2>1, <2>3, <3>1
    <3>2. CASE i \in files
      <4>1. \/ Stored(i)
            \/ \E v \in Uploaders : upc[v] = "written" /\ content[cur[v]] = i
            \/ \E d \in Deleters : dpc[d] \in {"dropped", "late"} /\ content[victim[d]] = i
        BY <3>2, OrphansOpened DEF FilesInv
      <4>2. \A v \in Uploaders : upc[v] = "written" => upc'[v] = "written"
        BY <1>1, <2>3
      <4> QED BY <1>2, <2>1, <4>1, <4>2 DEF Stored
    <3> QED BY <2>1, <3>1, <3>2
  <2> QED BY <2>2, <2>6, <2>7, <2>8, <2>9 DEF FilesInv
<1> QED BY <1>3, <1>4

\* WriteFails: the image of the id is forgotten, the file may stay.
LEMMA WriteFailsI ==
    ASSUME TypeOK, FilesInv, NEW u \in Uploaders, WriteFails(u)
    PROVE  TypeOK' /\ FilesInv'
<1>1. upc[u] = "writing" /\ cur[u] \in Assets /\ content[cur[u]] \in Images
  <2>1. upc[u] = "writing" /\ cur[u] \in Pending(u) /\ Pending(u) \subseteq 1..sent
    BY DEF WriteFails, FilesInv, IdsAreApart
  <2>2. content[cur[u]] \in Images
    BY <2>1 DEF FilesInv, ImagesAreKnown
  <2> QED BY <2>1, <2>2, VisionAssumption DEF TypeOK, Assets
<1>2. /\ UNCHANGED <<assets, sent, dpc, victim, robbed>>
      /\ content' = [content EXCEPT ![cur[u]] = None] /\ NextFile(u)
  BY DEF WriteFails
<1>3. /\ files \subseteq files' /\ files' \subseteq files \cup {content[cur[u]]}
      /\ spoiled \subseteq spoiled' /\ spoiled' \subseteq spoiled \cup {content[cur[u]]}
      /\ files' \subseteq files \cup spoiled'
  BY DEF WriteFails
<1>4. /\ content' \in [Assets -> Images \cup {None}]
      /\ \A x \in Assets : x # cur[u] => content'[x] = content[x]
  BY <1>1, <1>2 DEF TypeOK
<1>5. FilesInv' /\ upc' \in [Uploaders -> {"idle", "next", "writing", "written"}]
      /\ cur' \in [Uploaders -> Assets \cup {0}] /\ last' \in [Uploaders -> Assets \cup {0}]
  BY <1>1, <1>2, <1>3, <1>4, UploaderMoves
<1>6. files' \subseteq Images /\ spoiled' \subseteq Images
  BY <1>1, <1>3 DEF TypeOK
<1>7. TypeOK'
  BY <1>4, <1>5, <1>6 DEF WriteFails, TypeOK
<1> QED BY <1>5, <1>7

\* InsertAsset and InsertFails: the claim of the uploader becomes that of its
\* row, or ends.
LEMMA InsertAssetI ==
    ASSUME TypeOK, FilesInv, NEW u \in Uploaders, InsertAsset(u) \/ InsertFails(u)
    PROVE  TypeOK' /\ FilesInv'
<1>1. /\ upc[u] = "written" /\ cur[u] \in Assets /\ cur[u] \in Pending(u)
      /\ content[cur[u]] \in Images
  <2>1. upc[u] = "written" /\ cur[u] \in Pending(u) /\ Pending(u) \subseteq 1..sent
    BY DEF InsertAsset, InsertFails, FilesInv, IdsAreApart
  <2>2. content[cur[u]] \in Images
    BY <2>1 DEF FilesInv, ImagesAreKnown
  <2> QED BY <2>1, <2>2, VisionAssumption DEF TypeOK, Assets
<1>2. /\ UNCHANGED <<files, content, sent, dpc, victim, robbed>>
      /\ spoiled \subseteq spoiled' /\ spoiled' \subseteq spoiled \cup files
  BY DEF InsertAsset, InsertFails
<1>3. \/ /\ EndRequest(u) /\ UNCHANGED assets
         /\ Stored(content[cur[u]]) \/ content[cur[u]] \notin files \/ content[cur[u]] \in spoiled'
      \/ NextFile(u) /\ assets' = assets \cup {cur[u]}
  BY DEF InsertAsset, InsertFails
<1>4. IdsAreApart /\ ImagesAreKnown /\ ClaimsAreExclusive /\ OrphansComeFromFailures
  BY DEF FilesInv
<1>5. /\ upc' \in [Uploaders -> {"idle", "next", "writing", "written"}]
      /\ cur' \in [Uploaders -> Assets \cup {0}] /\ last' \in [Uploaders -> Assets \cup {0}]
      /\ upc'[u] \in {"idle", "next"}
      /\ \A v \in Uploaders : v # u => upc'[v] = upc[v] /\ cur'[v] = cur[v] /\ Pending(v)' = Pending(v)
      /\ Pending(u)' \subseteq Pending(u) \ {cur[u]}
      /\ \A v \in Uploaders : upc'[v] # "idle" => cur'[v] \in Pending(v)'
  BY <1>1, <1>3, <1>4, NextFilePending
<1>6. assets' \subseteq assets \cup {cur[u]} /\ assets \subseteq assets'
  BY <1>3
<1>7. TypeOK'
  <2>1. assets' \subseteq Assets /\ spoiled' \subseteq Images
    BY <1>1, <1>2, <1>6 DEF TypeOK
  <2> QED BY <1>5, <2>1 DEF InsertAsset, InsertFails, TypeOK
<1>8. Kept \subseteq Kept' /\ Kept' \subseteq Kept \cup {cur[u]}
  BY <1>2, <1>6 DEF Kept
<1>9. IdsAreApart'
  BY <1>1, <1>2, <1>4, <1>5, <1>8, ApartIds
<1>10. ImagesAreKnown'
  BY <1>1, <1>2, <1>4, <1>5, <1>8 DEF ImagesAreKnown
<1>11. Claims' \subseteq Claims
  <2>1. cur[u] \in Claims
    BY <1>1 DEF Claims
  <2>2. \A v \in Uploaders : upc'[v] = "written" => upc[v] = "written" /\ cur'[v] = cur[v]
    BY <1>5
  <2>3. assets' \subseteq Claims
    BY <1>6, <2>1 DEF Claims
  <2> QED BY <1>2, <2>2, <2>3 DEF Claims
<1>12. ClaimsAreExclusive'
  <2>1. \A d \in Deleters : dpc[d] = "dropped" => victim[d] \notin assets'
    <3>1. \A d \in Deleters : dpc[d] = "dropped" => victim[d] \in Kept
      BY DEF Kept
    <3>2. cur[u] \notin Kept
      BY <1>1, <1>4 DEF IdsAreApart
    <3> QED BY <1>4, <1>6, <3>1, <3>2 DEF ClaimsAreExclusive
  <2> QED BY <1>2, <1>4, <1>11, <2>1, FewerClaims
<1>13. OrphansComeFromFailures'
  <2> SUFFICES ASSUME NEW i \in files, i \notin spoiled'
               PROVE  \/ Stored(i)'
                      \/ \E v \in Uploaders : upc'[v] = "written" /\ content'[cur'[v]] = i
                      \/ \E d \in Deleters : dpc'[d] \in {"dropped", "late"} /\ content'[victim'[d]] = i
    BY <1>2, OrphansOpened
  <2>1. Stored(i) => Stored(i)'
    BY <1>2, <1>6 DEF Stored
  <2>2. CASE \E v \in Uploaders : upc[v] = "written" /\ content[cur[v]] = i
    <3>1. PICK v \in Uploaders : upc[v] = "written" /\ content[cur[v]] = i
      BY <2>2
    <3>2. CASE v # u
      BY <1>2, <1>5, <3>1, <3>2
    <3>3. CASE v = u
      BY <1>2, <1>3, <2>1, <3>1, <3>3 DEF Stored
    <3> QED BY <3>2, <3>3
  <2> QED BY <1>2, <1>4, <2>1, <2>2, OrphansOpened
<1> QED BY <1>7, <1>9, <1>10, <1>12, <1>13 DEF FilesInv

\* A deletion that has found a row keeps no id that was not kept.
LEMMA FindAssetI ==
    ASSUME TypeOK, FilesInv, NEW d \in Deleters, FindAsset(d)
    PROVE  TypeOK' /\ FilesInv'
<1>1. /\ dpc[d] = "idle" /\ dpc' = [dpc EXCEPT ![d] = "found"]
      /\ UNCHANGED <<files, assets, content, upc, cur, last, sent, robbed, spoiled>>
  BY DEF FindAsset, FirstIdle
<1>2. PICK x \in assets : victim' = [victim EXCEPT ![d] = x]
  BY DEF FindAsset
<1>3. IdsAreApart /\ ImagesAreKnown /\ ClaimsAreExclusive /\ OrphansComeFromFailures
  BY DEF FilesInv
<1>4. /\ dpc'[d] = "found" /\ victim'[d] = x
      /\ \A e \in Deleters : e # d => dpc'[e] = dpc[e] /\ victim'[e] = victim[e]
  BY <1>1, <1>2 DEF TypeOK
<1>5. TypeOK'
  BY <1>1, <1>2 DEF FindAsset, TypeOK
<1>6. Kept' = Kept
  BY <1>1, <1>4 DEF Kept
<1>7. \A e \in Deleters : /\ dpc'[e] \in {"dropped", "late"} <=> dpc[e] \in {"dropped", "late"}
                          /\ dpc'[e] = "dropped" <=> dpc[e] = "dropped"
                          /\ dpc[e] \in {"dropped", "late"} => victim'[e] = victim[e]
  BY <1>1, <1>4
<1>8. Claims' = Claims
  BY <1>1, <1>7 DEF Claims
<1>9. \A u \in Uploaders : Pending(u)' = Pending(u)
  BY <1>1 DEF Pending
<1>10. IdsAreApart'
  BY <1>1, <1>3, <1>6, <1>9 DEF IdsAreApart
<1>11. ImagesAreKnown'
  BY <1>1, <1>3, <1>6 DEF ImagesAreKnown
<1>12. ClaimsAreExclusive'
  BY <1>1, <1>3, <1>7, <1>8 DEF ClaimsAreExclusive
<1>13. OrphansComeFromFailures'
  BY <1>1, <1>3, <1>7, OrphansOpened DEF Stored
<1> QED BY <1>5, <1>10, <1>11, <1>12, <1>13 DEF FilesInv

\* DeleteRow: the claim of the row becomes that of the deletion that removed it.
LEMMA DeleteRowFiles ==
    ASSUME TypeOK, FilesInv, NEW d \in Deleters, DeleteRow(d)
    PROVE  TypeOK' /\ FilesInv'
<1>1. /\ dpc[d] = "found" /\ assets' = assets \ {victim[d]}
      /\ dpc' = [dpc EXCEPT ![d] = IF victim[d] \in assets THEN "dropped" ELSE "late"]
      /\ UNCHANGED <<files, content, upc, cur, last, sent, victim, robbed, spoiled>>
  BY DEF DeleteRow
<1>2. IdsAreApart /\ ImagesAreKnown /\ ClaimsAreExclusive /\ OrphansComeFromFailures
  BY DEF FilesInv
<1>3. /\ dpc'[d] = IF victim[d] \in assets THEN "dropped" ELSE "late"
      /\ \A e \in Deleters : e # d => dpc'[e] = dpc[e]
  BY <1>1 DEF TypeOK
<1>4. TypeOK'
  <2>1. row' \in [Analyses -> {"none", "queued", "running", "completed", "failed", "gone"}]
    BY DEF DeleteRow, TypeOK
  <2>2. dpc' \in [Deleters -> {"idle", "found", "dropped", "late"}]
    BY <1>1 DEF TypeOK
  <2> QED BY <1>1, <2>1, <2>2 DEF DeleteRow, TypeOK
<1>5. Kept' \subseteq Kept
  BY <1>1, <1>3 DEF Kept
<1>6. \A u \in Uploaders : Pending(u)' = Pending(u)
  BY <1>1 DEF Pending
<1>7. IdsAreApart'
  BY <1>1, <1>2, <1>5, <1>6 DEF IdsAreApart
<1>8. ImagesAreKnown'
  BY <1>1, <1>2, <1>5 DEF ImagesAreKnown
<1>9. Claims' \subseteq Claims
  BY <1>1, <1>3 DEF Claims
<1>10. ClaimsAreExclusive'
  <2>1. \A x \in Claims' : content'[x] \in files' \cup robbed'
    BY <1>1, <1>2, <1>9 DEF ClaimsAreExclusive
  <2>2. \A x, y \in Claims' : content'[x] = content'[y] /\ content'[x] \notin robbed' => x = y
    BY <1>1, <1>2, <1>9 DEF ClaimsAreExclusive
  <2>3. \A e \in Deleters : dpc'[e] = "dropped" => victim'[e] \notin assets'
    BY <1>1, <1>2, <1>3 DEF ClaimsAreExclusive
  <2>4. \A e \in Deleters : e # d /\ dpc'[e] = "dropped" /\ dpc'[d] = "dropped" => victim[e] # victim[d]
    BY <1>2, <1>3 DEF ClaimsAreExclusive
  <2>5. \A e, f \in Deleters :
          dpc'[e] = "dropped" /\ dpc'[f] = "dropped" /\ victim'[e] = victim'[f] => e = f
    BY <1>1, <1>2, <1>3, <2>4 DEF ClaimsAreExclusive
  <2> QED BY <2>1, <2>2, <2>3, <2>5 DEF ClaimsAreExclusive
<1>11. OrphansComeFromFailures'
  <2> SUFFICES ASSUME NEW i \in files, i \notin spoiled
               PROVE  \/ Stored(i)'
                      \/ \E u \in Uploaders : upc'[u] = "written" /\ content'[cur'[u]] = i
                      \/ \E e \in Deleters : dpc'[e] \in {"dropped", "late"} /\ content'[victim'[e]] = i
    BY <1>1, OrphansOpened
  <2>1. CASE Stored(i)
    <3>1. PICK x \in assets : content[x] = i
      BY <2>1 DEF Stored
    <3>2. CASE x = victim[d]
      BY <1>1, <1>3, <3>1, <3>2
    <3>3. CASE x # victim[d]
      BY <1>1, <3>1, <3>3 DEF Stored
    <3> QED BY <3>2, <3>3
  <2>2. CASE \E e \in Deleters : dpc[e] \in {"dropped", "late"} /\ content[victim[e]] = i
    BY <1>1, <1>3, <2>2
  <2> QED BY <1>1, <1>2, <2>1, <2>2, OrphansOpened
<1> QED BY <1>4, <1>7, <1>8, <1>10, <1>11 DEF FilesInv

\* Unlink: nobody else claims the file, or the deletion was late and its image
\* counts as robbed.
LEMMA UnlinkI ==
    ASSUME TypeOK, FilesInv, NEW d \in Deleters, Unlink(d)
    PROVE  TypeOK' /\ FilesInv'
<1>1. /\ dpc[d] \in {"dropped", "late"}
      /\ files' = files \ {content[victim[d]]}
      /\ robbed' = IF dpc[d] = "late" THEN robbed \cup {content[victim[d]]} ELSE robbed
      /\ dpc' = [dpc EXCEPT ![d] = "idle"] /\ victim' = [victim EXCEPT ![d] = 0]
      /\ spoiled' = spoiled \ {content[victim[d]]}
      /\ UNCHANGED <<assets, content, upc, cur, last, sent>>
  BY DEF Unlink, EndDeletion
<1>2. IdsAreApart /\ ImagesAreKnown /\ ClaimsAreExclusive /\ OrphansComeFromFailures
  BY DEF FilesInv
<1>3. /\ dpc'[d] = "idle"
      /\ \A e \in Deleters : e # d => dpc'[e] = dpc[e] /\ victim'[e] = victim[e]
  BY <1>1 DEF TypeOK
<1>4. victim[d] \in Kept /\ content[victim[d]] \in Images
  <2>1. victim[d] \in Kept
    BY <1>1 DEF Kept
  <2> QED BY <1>2, <2>1 DEF ImagesAreKnown
<1>5. TypeOK'
  BY <1>1, <1>4 DEF Unlink, TypeOK
<1>6. Kept' \subseteq Kept
  BY <1>1, <1>3 DEF Kept
<1>7. \A u \in Uploaders : Pending(u)' = Pending(u)
  BY <1>1 DEF Pending
<1>8. IdsAreApart'
  BY <1>1, <1>2, <1>6, <1>7 DEF IdsAreApart
<1>9. ImagesAreKnown'
  BY <1>1, <1>2, <1>6 DEF ImagesAreKnown
<1>10. Claims' \subseteq Claims
  BY <1>1, <1>3 DEF Claims
<1>11. dpc[d] = "dropped" => victim[d] \notin Claims' /\ victim[d] \in Claims
  <2> SUFFICES ASSUME dpc[d] = "dropped" PROVE victim[d] \notin Claims' /\ victim[d] \in Claims
    OBVIOUS
  <2>1. victim[d] \notin assets'
    BY <1>1, <1>2 DEF ClaimsAreExclusive
  <2>2. \A u \in Uploaders : upc[u] = "written" => cur[u] # victim[d]
    BY <1>2, <1>4 DEF IdsAreApart
  <2>3. \A e \in Deleters : dpc'[e] = "dropped" => victim'[e] # victim[d]
    BY <1>2, <1>3 DEF ClaimsAreExclusive
  <2>4. victim[d] \notin Claims'
    BY <1>1, <2>1, <2>2, <2>3 DEF Claims
  <2> QED BY <2>4 DEF Claims
<1>12. ClaimsAreExclusive'
  <2>1. \A x \in Claims' : content'[x] \in files' \cup robbed'
    <3> SUFFICES ASSUME NEW x \in Claims' PROVE content[x] \in files' \cup robbed'
      BY <1>1
    <3>1. x \in Claims /\ content[x] \in files \cup robbed /\ robbed \subseteq robbed'
      BY <1>1, <1>2, <1>10 DEF ClaimsAreExclusive
    <3>2. CASE content[x] = content[victim[d]] /\ dpc[d] = "dropped"
      BY <1>2, <1>11, <3>1, <3>2 DEF ClaimsAreExclusive
    <3>3. CASE content[x] = content[victim[d]] /\ dpc[d] = "late"
      BY <1>1, <3>3
    <3>4. CASE content[x] # content[victim[d]]
      BY <1>1, <3>1, <3>4
    <3> QED BY <1>1, <3>2, <3>3, <3>4
  <2>2. \A x, y \in Claims' : content'[x] = content'[y] /\ content'[x] \notin robbed' => x = y
    BY <1>1, <1>2, <1>10 DEF ClaimsAreExclusive
  <2>3. \A e \in Deleters : dpc'[e] = "dropped" => e # d /\ dpc[e] = "dropped" /\ victim'[e] = victim[e]
    BY <1>3
  <2> QED BY <1>1, <1>2, <2>1, <2>2, <2>3 DEF ClaimsAreExclusive
<1>13. OrphansComeFromFailures'
  <2> SUFFICES ASSUME NEW i \in files', i \notin spoiled'
               PROVE  \/ Stored(i)'
                      \/ \E u \in Uploaders : upc'[u] = "written" /\ content'[cur'[u]] = i
                      \/ \E e \in Deleters : dpc'[e] \in {"dropped", "late"} /\ content'[victim'[e]] = i
    BY <1>1, OrphansOpened
  <2>1. i \in files /\ i \notin spoiled /\ i # content[victim[d]]
    BY <1>1
  <2>2. CASE \E e \in Deleters : dpc[e] \in {"dropped", "late"} /\ content[victim[e]] = i
    BY <1>1, <1>3, <2>1, <2>2
  <2> QED BY <1>1, <1>2, <2>1, <2>2, OrphansOpened DEF Stored
<1> QED BY <1>5, <1>8, <1>9, <1>12, <1>13 DEF FilesInv

\* DeleteFails and UnlinkFails: the deletion ends, its file stays.
LEMMA DeletionFailsI ==
    ASSUME TypeOK, FilesInv, NEW d \in Deleters, DeleteFails(d) \/ UnlinkFails(d)
    PROVE  TypeOK' /\ FilesInv'
<1>1. /\ dpc[d] # "idle" /\ dpc' = [dpc EXCEPT ![d] = "idle"] /\ victim' = [victim EXCEPT ![d] = 0]
      /\ UNCHANGED <<files, assets, content, upc, cur, last, sent, robbed>>
      /\ spoiled \subseteq spoiled' /\ spoiled' \subseteq spoiled \cup files
      /\ dpc[d] \in {"dropped", "late"} => content[victim[d]] \in spoiled'
  BY DEF DeleteFails, UnlinkFails, EndDeletion
<1>2. IdsAreApart /\ ImagesAreKnown /\ ClaimsAreExclusive /\ OrphansComeFromFailures
  BY DEF FilesInv
<1>3. /\ dpc'[d] = "idle"
      /\ \A e \in Deleters : e # d => dpc'[e] = dpc[e] /\ victim'[e] = victim[e]
  BY <1>1 DEF TypeOK
<1>4. TypeOK'
  <2>1. spoiled' \subseteq Images
    BY <1>1 DEF TypeOK
  <2>2. dpc' \in [Deleters -> {"idle", "found", "dropped", "late"}] /\ victim' \in [Deleters -> Assets \cup {0}]
    BY <1>1 DEF TypeOK
  <2> QED BY <2>1, <2>2 DEF DeleteFails, UnlinkFails, TypeOK
<1>5. Kept' \subseteq Kept /\ Claims' \subseteq Claims
  BY <1>1, <1>3 DEF Kept, Claims
<1>6. \A u \in Uploaders : Pending(u)' = Pending(u)
  BY <1>1 DEF Pending
<1>7. IdsAreApart'
  BY <1>1, <1>2, <1>5, <1>6 DEF IdsAreApart
<1>8. ImagesAreKnown'
  BY <1>1, <1>2, <1>5 DEF ImagesAreKnown
<1>9. ClaimsAreExclusive'
  <2>1. \A e \in Deleters : dpc'[e] = "dropped" =>
          dpc[e] = "dropped" /\ victim'[e] = victim[e] /\ victim[e] \notin assets'
    BY <1>1, <1>2, <1>3 DEF ClaimsAreExclusive
  <2> QED BY <1>1, <1>2, <1>5, <2>1, FewerClaims
<1>10. OrphansComeFromFailures'
  <2>1. \A e \in Deleters : dpc[e] \in {"dropped", "late"} =>
          \/ content[victim[e]] \in spoiled'
          \/ dpc'[e] \in {"dropped", "late"} /\ victim'[e] = victim[e]
    BY <1>1, <1>3
  <2> QED BY <1>1, <1>2, <2>1, OrphansOpened DEF Stored
<1> QED BY <1>4, <1>7, <1>8, <1>9, <1>10 DEF FilesInv

\* The process ends: a crash, or an orderly exit, which finds no request.
LEMMA DieFiles ==
    ASSUME TypeOK, FilesInv, Die, UNCHANGED stops,
           \/ /\ crashes < MaxCrashes /\ crashes' = crashes + 1
              /\ spoiled' = spoiled \cup (InBetween \cap files)
           \/ /\ UNCHANGED <<crashes, spoiled>>
              /\ \A u \in Uploaders : upc[u] = "idle"
              /\ \A d \in Deleters : dpc[d] = "idle"
    PROVE  TypeOK' /\ FilesInv'
<1>1. /\ \A u \in Uploaders : upc'[u] = "idle"
      /\ \A d \in Deleters : dpc'[d] = "idle"
      /\ UNCHANGED <<files, assets, content, sent, robbed>>
  BY DEF Die
<1>2. IdsAreApart /\ ImagesAreKnown /\ ClaimsAreExclusive /\ OrphansComeFromFailures
  BY DEF FilesInv
<1>3. crashes \in Nat /\ MaxCrashes \in Nat /\ crashes' \in 0..MaxCrashes /\ spoiled' \subseteq Images
  BY VisionAssumption DEF TypeOK
<1>4. TypeOK'
  <2>1. /\ phase' = "down" /\ todo' = {} /\ mark' = 0
        /\ upc' \in [Uploaders -> {"idle", "next", "writing", "written"}]
        /\ cur' \in [Uploaders -> Assets \cup {0}] /\ last' \in [Uploaders -> Assets \cup {0}]
        /\ dpc' \in [Deleters -> {"idle", "found", "dropped", "late"}]
        /\ victim' \in [Deleters -> Assets \cup {0}]
        /\ spc' \in [Submitters -> {"idle", "checked", "inserted"}]
        /\ job' \in [Submitters -> Analyses \cup {0}]
    BY DEF Die
  <2>2. tpc' = [a \in Analyses |-> "none"] /\ line' = <<>> /\ UNCHANGED <<row, subject, submitted>>
    BY DEF Die
  <2> QED BY <1>1, <1>3, <2>1, <2>2 DEF TypeOK
<1>5. Kept' = assets /\ Claims' = assets /\ \A u \in Uploaders : Pending(u)' = {}
  BY <1>1 DEF Kept, Claims, Pending
<1>6. IdsAreApart'
  BY <1>1, <1>2, <1>5 DEF IdsAreApart, Kept
<1>7. ImagesAreKnown'
  BY <1>1, <1>2, <1>5 DEF ImagesAreKnown, Kept
<1>8. ClaimsAreExclusive'
  BY <1>1, <1>2, <1>5 DEF ClaimsAreExclusive, Claims
<1>9. OrphansComeFromFailures'
  <2>1. \A i \in files : i \in InBetween => i \in spoiled'
    BY DEF InBetween
  <2>2. spoiled \subseteq spoiled'
    OBVIOUS
  <2> QED BY <1>1, <1>2, <2>1, <2>2 DEF OrphansComeFromFailures, Stored
<1> QED BY <1>4, <1>6, <1>7, <1>8, <1>9 DEF FilesInv

-----------------------------------------------------------------------------
(* Analyses and their tasks.                                               *)

\* The tasks and the submitters in progress are finite sets, no larger than
\* what they number.
LEMMA Counted ==
    ASSUME NEW n \in Nat, NEW S, S \subseteq 1..n
    PROVE  IsFiniteSet(S) /\ Cardinality(S) \in Nat /\ Cardinality(S) <= n
<1>1. IsFiniteSet(1..n) /\ Cardinality(1..n) = n
  BY FS_Interval
<1>2. IsFiniteSet(S) /\ Cardinality(S) <= n
  BY <1>1, FS_Subset
<1> QED BY <1>2, FS_CardinalityType

\* The numbers that bound Tasks and Submitting.
LEMMA Bounds ==
    /\ MaxFiles \in Nat /\ MaxQueue \in Nat /\ MaxAnalyses \in Nat /\ NumSubmitters \in Nat
    /\ MaxQueue >= 1 /\ NumSubmitters >= 1
    /\ Tasks \subseteq 1..MaxAnalyses /\ Tasks' \subseteq 1..MaxAnalyses
    /\ Submitting \subseteq 1..NumSubmitters /\ Submitting' \subseteq 1..NumSubmitters
<1>1. /\ MaxQueue \in Nat \ {0} /\ MaxAnalyses \in Nat \ {0} /\ NumSubmitters \in Nat \ {0}
      /\ MaxFiles \in Nat \ {0}
  BY VisionAssumption
<1> QED BY <1>1 DEF Tasks, Submitting, Analyses, Submitters

\* No task and no submission begins.
LEMMA QueueShrinks ==
    ASSUME QueueIsBounded, Tasks' \subseteq Tasks, Submitting' \subseteq Submitting
    PROVE  QueueIsBounded'
<1>1. /\ Cardinality(Tasks') \in Nat /\ Cardinality(Tasks) \in Nat
      /\ IsFiniteSet(Tasks) /\ IsFiniteSet(Submitting)
      /\ Cardinality(Submitting') \in Nat /\ Cardinality(Submitting) \in Nat
  BY Bounds, Counted
<1>2. Cardinality(Tasks') <= Cardinality(Tasks) /\ Cardinality(Submitting') <= Cardinality(Submitting)
  BY <1>1, FS_Subset
<1> QED BY <1>1, <1>2, Bounds DEF QueueIsBounded

\* A step that leaves analyses, tasks and the lifespan alone.
LEMMA TasksFrame ==
    ASSUME TasksInv, UNCHANGED <<row, spc, job, submitted, tpc, line, phase, todo, mark>>,
           phase = "up" \/ UNCHANGED <<upc, dpc>>
    PROVE  TasksInv'
<1>1. TasksFollowRows' /\ SubmittersOwnJobs' /\ ActiveRowsHaveOwners' /\ ShutdownLeavesNoneActive'
  BY DEF TasksInv, TasksFollowRows, SubmittersOwnJobs, ActiveRowsHaveOwners,
         ShutdownLeavesNoneActive, Markable
<1>2. PhasesInOrder'
  BY DEF TasksInv, PhasesInOrder, Markable
<1>3. QueueIsBounded'
  BY QueueShrinks DEF TasksInv, Tasks, Submitting
<1> QED BY <1>1, <1>2, <1>3 DEF TasksInv

\* DeleteRow: the analyses of an asset go, wherever their tasks are.
LEMMA DeleteRowTasks ==
    ASSUME TypeOK, TasksInv, NEW d \in Deleters, DeleteRow(d)
    PROVE  TasksInv'
<1>1. /\ UNCHANGED <<spc, job, submitted, tpc, line, phase, todo, mark, upc>>
      /\ \A a \in Analyses : row'[a] = row[a] \/ (row[a] # "none" /\ row'[a] = "gone")
  BY DEF DeleteRow
<1>2. phase = "up" /\ mark = 0
  BY DEF DeleteRow, TasksInv, PhasesInOrder
<1>3. TasksFollowRows'
  BY <1>1 DEF TasksInv, TasksFollowRows
<1>4. SubmittersOwnJobs'
  <2>1. \A s \in Submitters : job[s] \in 1..submitted => job[s] \in Analyses
    BY Bounds DEF TypeOK, Analyses
  <2> QED BY <1>1, <2>1 DEF TasksInv, SubmittersOwnJobs
<1>5. PhasesInOrder'
  BY <1>1, <1>2 DEF TasksInv, PhasesInOrder
<1>6. ActiveRowsHaveOwners'
  BY <1>1, <1>2 DEF TasksInv, ActiveRowsHaveOwners
<1>7. ShutdownLeavesNoneActive'
  BY <1>1, <1>2 DEF ShutdownLeavesNoneActive
<1>8. QueueIsBounded'
  BY <1>1, QueueShrinks DEF TasksInv, Tasks, Submitting
<1> QED BY <1>3, <1>4, <1>5, <1>6, <1>7, <1>8 DEF TasksInv

\* CheckSubmission: room for one more task, and one more submitter.
LEMMA CheckSubmissionI ==
    ASSUME TypeOK, TasksInv, NEW s \in Submitters, CheckSubmission(s)
    PROVE  TypeOK' /\ TasksInv'
<1>1. /\ phase = "up" /\ spc[s] = "idle" /\ submitted < MaxAnalyses /\ HasRoom
      /\ submitted' = submitted + 1 /\ job' = [job EXCEPT ![s] = submitted + 1]
      /\ spc' = [spc EXCEPT ![s] = "checked"]
      /\ UNCHANGED <<row, tpc, line, phase, todo, mark, upc, dpc>>
  BY DEF CheckSubmission, FirstIdle
<1>2. /\ submitted \in Nat /\ submitted' \in 0..MaxAnalyses
      /\ submitted + 1 \in Analyses
  BY <1>1, Bounds DEF TypeOK, Analyses
<1>3. /\ spc'[s] = "checked" /\ job'[s] = submitted + 1
      /\ \A t \in Submitters : t # s => spc'[t] = spc[t] /\ job'[t] = job[t]
  BY <1>1 DEF TypeOK
<1>4. TypeOK'
  <2>1. PICK x \in assets : subject' = [subject EXCEPT ![submitted + 1] = x]
    BY DEF CheckSubmission
  <2>2. subject' \in [Analyses -> Assets \cup {0}]
    BY <2>1 DEF TypeOK
  <2>3. spc' \in [Submitters -> {"idle", "checked", "inserted"}] /\ job' \in [Submitters -> Analyses \cup {0}]
    BY <1>1, <1>2 DEF TypeOK
  <2> QED BY <1>1, <1>2, <2>2, <2>3 DEF CheckSubmission, TypeOK
<1>5. TasksFollowRows'
  BY <1>1 DEF TasksInv, TasksFollowRows
<1>6. SubmittersOwnJobs'
  <2>1. row[submitted + 1] = "none" /\ tpc[submitted + 1] = "none"
    BY <1>2 DEF TasksInv, SubmittersOwnJobs
  <2>2. \A t \in Submitters : t # s /\ spc[t] # "idle" => job[t] \in 1..submitted /\ job[t] # submitted + 1
    BY <1>2 DEF TasksInv, SubmittersOwnJobs
  <2>3. \A t \in Submitters :
          /\ spc'[t] # "idle" => job'[t] \in 1..submitted' /\ tpc'[job'[t]] = "none"
          /\ spc'[t] = "checked" => row'[job'[t]] = "none"
          /\ spc'[t] = "inserted" => row'[job'[t]] \in {"queued", "gone"}
    <3>1. submitted + 1 \in 1..submitted' /\ 1..submitted \subseteq 1..submitted'
      BY <1>1, <1>2
    <3> QED BY <1>1, <1>3, <2>1, <3>1 DEF TasksInv, SubmittersOwnJobs
  <2>4. \A t, v \in Submitters : spc'[t] # "idle" /\ spc'[v] # "idle" /\ job'[t] = job'[v] => t = v
    BY <1>3, <2>2 DEF TasksInv, SubmittersOwnJobs
  <2>5. \A a \in Analyses : a > submitted' => row'[a] = "none" /\ tpc'[a] = "none"
    <3>1. \A a \in Analyses : a > submitted' => a > submitted
      BY <1>1, <1>2 DEF Analyses
    <3> QED BY <1>1, <3>1 DEF TasksInv, SubmittersOwnJobs
  <2> QED BY <2>3, <2>4, <2>5 DEF SubmittersOwnJobs
<1>7. PhasesInOrder'
  BY <1>1 DEF TasksInv, PhasesInOrder, Markable
<1>8. ActiveRowsHaveOwners'
  <2>1. \A t \in Submitters : spc[t] = "inserted" => spc'[t] = "inserted" /\ job'[t] = job[t]
    BY <1>1, <1>3
  <2> QED BY <1>1, <2>1 DEF TasksInv, ActiveRowsHaveOwners
<1>9. ShutdownLeavesNoneActive'
  BY <1>1 DEF ShutdownLeavesNoneActive
<1>10. QueueIsBounded'
  <2>1. Tasks' = Tasks
    BY <1>1 DEF Tasks
  <2>2. /\ Cardinality(Submitting') \in Nat /\ Cardinality(Submitting') <= NumSubmitters
        /\ Cardinality(Tasks) \in Nat
    BY Bounds, Counted
  <2>3. Cardinality(Tasks) < MaxQueue
    BY <1>1 DEF HasRoom
  <2> QED BY <2>1, <2>2, <2>3, Bounds DEF QueueIsBounded
<1> QED BY <1>4, <1>5, <1>6, <1>7, <1>8, <1>9, <1>10 DEF TasksInv

\* What a submitter in progress knows.
LEMMA SubmitterKnows ==
    ASSUME TypeOK, TasksInv, NEW s \in Submitters, spc[s] # "idle"
    PROVE  /\ phase = "up" /\ job[s] \in Analyses /\ job[s] \in 1..submitted /\ tpc[job[s]] = "none"
           /\ \A t \in Submitters : t # s /\ spc[t] # "idle" => job[t] # job[s]
<1>1. phase = "up"
  BY DEF TasksInv, PhasesInOrder
<1>2. job[s] \in 1..submitted /\ tpc[job[s]] = "none"
  BY DEF TasksInv, SubmittersOwnJobs
<1>3. \A t \in Submitters : t # s /\ spc[t] # "idle" => job[t] # job[s]
  BY DEF TasksInv, SubmittersOwnJobs
<1>4. job[s] \in Analyses
  BY <1>2, Bounds DEF TypeOK, Analyses
<1> QED BY <1>1, <1>2, <1>3, <1>4

\* InsertAnalysis: a queued row has its submitter, a refused one is nobody's.
LEMMA InsertAnalysisI ==
    ASSUME TypeOK, TasksInv, NEW s \in Submitters, InsertAnalysis(s)
    PROVE  TypeOK' /\ TasksInv'
<1>1. /\ spc[s] = "checked"
      /\ UNCHANGED <<submitted, tpc, line, phase, todo, mark, upc, dpc>>
  BY DEF InsertAnalysis
<1>2. /\ phase = "up" /\ mark = 0 /\ job[s] \in Analyses /\ job[s] \in 1..submitted /\ tpc[job[s]] = "none"
      /\ row[job[s]] = "none"
      /\ \A t \in Submitters : t # s /\ spc[t] # "idle" => job[t] # job[s]
  <2>1. row[job[s]] = "none" /\ (phase # "marking" => mark = 0)
    BY <1>1 DEF TasksInv, SubmittersOwnJobs, PhasesInOrder
  <2> QED BY <1>1, <2>1, SubmitterKnows
<1>3. PICK st \in {"queued", "none"}, pc \in {"inserted", "idle"}, j \in {job[s], 0} :
        /\ row' = [row EXCEPT ![job[s]] = st] /\ spc' = [spc EXCEPT ![s] = pc] /\ job' = [job EXCEPT ![s] = j]
        /\ pc = "inserted" => j = job[s]
        /\ st = "queued" <=> pc = "inserted"
  <2>1. CASE subject[job[s]] \in assets
    <3>1. job' = [job EXCEPT ![s] = job[s]] /\ row' = [row EXCEPT ![job[s]] = "queued"]
          /\ spc' = [spc EXCEPT ![s] = "inserted"]
      BY <2>1 DEF InsertAnalysis, TypeOK
    <3> QED BY <3>1
  <2>2. CASE subject[job[s]] \notin assets
    <3>1. job' = [job EXCEPT ![s] = 0] /\ row' = [row EXCEPT ![job[s]] = "none"]
          /\ spc' = [spc EXCEPT ![s] = "idle"]
      BY <1>2, <2>2 DEF InsertAnalysis, TypeOK
    <3> QED BY <3>1
  <2> QED BY <2>1, <2>2
<1>4. /\ row'[job[s]] = st /\ spc'[s] = pc /\ job'[s] = j
      /\ \A t \in Submitters : t # s => spc'[t] = spc[t] /\ job'[t] = job[t]
      /\ \A a \in Analyses : a # job[s] => row'[a] = row[a]
  BY <1>2, <1>3 DEF TypeOK
<1>5. TypeOK'
  <2>1. /\ row' \in [Analyses -> {"none", "queued", "running", "completed", "failed", "gone"}]
        /\ spc' \in [Submitters -> {"idle", "checked", "inserted"}]
        /\ job' \in [Submitters -> Analyses \cup {0}]
    BY <1>2, <1>3 DEF TypeOK
  <2>2. subject' \in [Analyses -> Assets \cup {0}]
    BY DEF InsertAnalysis, TypeOK
  <2> QED BY <1>1, <2>1, <2>2 DEF InsertAnalysis, TypeOK
<1>6. TasksFollowRows'
  BY <1>1, <1>2, <1>4 DEF TasksInv, TasksFollowRows
<1>7. SubmittersOwnJobs'
  <2>1. \A t \in Submitters : t # s /\ spc[t] # "idle" => job[t] \in Analyses
    BY SubmitterKnows
  <2>2. \A t \in Submitters :
          /\ spc'[t] # "idle" => job'[t] \in 1..submitted' /\ tpc'[job'[t]] = "none"
          /\ spc'[t] = "checked" => row'[job'[t]] = "none"
          /\ spc'[t] = "inserted" => row'[job'[t]] \in {"queued", "gone"}
    <3>1. /\ spc'[s] # "idle" => job'[s] \in 1..submitted' /\ tpc'[job'[s]] = "none"
          /\ spc'[s] # "checked"
          /\ spc'[s] = "inserted" => row'[job'[s]] \in {"queued", "gone"}
      BY <1>1, <1>2, <1>3, <1>4
    <3>2. \A t \in Submitters : t # s /\ spc[t] # "idle" => row'[job[t]] = row[job[t]]
      BY <1>2, <1>4, <2>1
    <3> QED BY <1>1, <1>4, <3>1, <3>2 DEF TasksInv, SubmittersOwnJobs
  <2>3. \A t, v \in Submitters : spc'[t] # "idle" /\ spc'[v] # "idle" /\ job'[t] = job'[v] => t = v
    <3>1. \A t \in Submitters : spc'[t] # "idle" => spc[t] # "idle" /\ job'[t] = job[t]
      BY <1>1, <1>3, <1>4
    <3> QED BY <3>1 DEF TasksInv, SubmittersOwnJobs
  <2>4. \A a \in Analyses : a > submitted' => row'[a] = "none" /\ tpc'[a] = "none"
    <3>1. ~(job[s] > submitted)
      BY <1>2 DEF TypeOK
    <3> QED BY <1>1, <1>4, <3>1 DEF TasksInv, SubmittersOwnJobs
  <2> QED BY <2>2, <2>3, <2>4 DEF SubmittersOwnJobs
<1>8. PhasesInOrder'
  BY <1>1, <1>2 DEF TasksInv, PhasesInOrder
<1>9. ActiveRowsHaveOwners'
  <2> SUFFICES ASSUME NEW a \in Analyses
               PROVE  /\ row'[a] = "queued" =>
                            \/ \E t \in Submitters : spc'[t] = "inserted" /\ job'[t] = a
                            \/ tpc'[a] = "waiting" /\ \E k \in 1..Len(line') : line'[k] = a
                      /\ row'[a] = "running" => tpc'[a] \in {"started", "provider", "answered", "failing", "failed"}
    BY DEF ActiveRowsHaveOwners
  <2>1. CASE a = job[s]
    BY <1>3, <1>4, <2>1
  <2>2. CASE a # job[s]
    <3>1. \A t \in Submitters : spc[t] = "inserted" => spc'[t] = "inserted" /\ job'[t] = job[t]
      BY <1>1, <1>4
    <3> QED BY <1>1, <1>2, <1>4, <2>2, <3>1 DEF TasksInv, ActiveRowsHaveOwners
  <2> QED BY <2>1, <2>2
<1>10. ShutdownLeavesNoneActive'
  BY <1>1, <1>2 DEF ShutdownLeavesNoneActive
<1>11. QueueIsBounded'
  <2>1. Tasks' \subseteq Tasks /\ Submitting' \subseteq Submitting
    BY <1>1, <1>4 DEF Tasks, Submitting
  <2> QED BY <2>1, QueueShrinks DEF TasksInv
<1> QED BY <1>5, <1>6, <1>7, <1>8, <1>9, <1>10, <1>11 DEF TasksInv

\* CreateTask: the submitter becomes the task that waits.
LEMMA CreateTaskI ==
    ASSUME TypeOK, TasksInv, NEW s \in Submitters, CreateTask(s)
    PROVE  TypeOK' /\ TasksInv'
<1> PICK j : j = job[s]
  OBVIOUS
<1>1. /\ spc[s] = "inserted" /\ tpc' = [tpc EXCEPT ![j] = "waiting"] /\ line' = Append(line, j)
      /\ spc' = [spc EXCEPT ![s] = "idle"] /\ job' = [job EXCEPT ![s] = 0]
      /\ UNCHANGED <<row, submitted, phase, todo, mark, upc, dpc>>
  BY DEF CreateTask
<1>2. /\ phase = "up" /\ j \in Analyses /\ j \in 1..submitted /\ tpc[j] = "none"
      /\ row[j] \in {"queued", "gone"}
      /\ \A t \in Submitters : t # s /\ spc[t] # "idle" => job[t] # j
  <2>1. row[j] \in {"queued", "gone"}
    BY <1>1 DEF TasksInv, SubmittersOwnJobs
  <2> QED BY <1>1, <2>1, SubmitterKnows
<1>3. /\ tpc'[j] = "waiting" /\ spc'[s] = "idle"
      /\ \A t \in Submitters : t # s => spc'[t] = spc[t] /\ job'[t] = job[t]
      /\ \A a \in Analyses : a # j => tpc'[a] = tpc[a]
  BY <1>1, <1>2 DEF TypeOK
<1>4. /\ line' \in Seq(Analyses) /\ Len(line') = Len(line) + 1 /\ Len(line) \in Nat
      /\ line'[Len(line) + 1] = j /\ \A k \in 1..Len(line) : line'[k] = line[k]
  BY <1>1, <1>2, AppendProperties DEF TypeOK
<1>5. /\ \E k \in 1..Len(line') : line'[k] = j
      /\ \A a \in Analyses : (\E k \in 1..Len(line) : line[k] = a) => \E k \in 1..Len(line') : line'[k] = a
  <2>1. Len(line) + 1 \in 1..Len(line') /\ 1..Len(line) \subseteq 1..Len(line')
    BY <1>4
  <2> QED BY <1>4, <2>1
<1>6. TypeOK'
  <2>1. /\ tpc' \in [Analyses -> {"none", "waiting", "started", "provider", "answered", "written",
                                    "failing", "failed", "stopping", "unwinding", "unwound"}]
        /\ spc' \in [Submitters -> {"idle", "checked", "inserted"}]
        /\ job' \in [Submitters -> Analyses \cup {0}]
    BY <1>1, <1>2 DEF TypeOK
  <2> QED BY <1>1, <1>4, <2>1 DEF CreateTask, TypeOK
<1>7. TasksFollowRows'
  BY <1>1, <1>2, <1>3, <1>5 DEF TasksInv, TasksFollowRows
<1>8. SubmittersOwnJobs'
  <2>1. \A t \in Submitters : t # s /\ spc[t] # "idle" => job[t] \in Analyses /\ tpc'[job[t]] = tpc[job[t]]
    BY <1>2, <1>3, SubmitterKnows
  <2>2. \A t \in Submitters :
          /\ spc'[t] # "idle" => job'[t] \in 1..submitted' /\ tpc'[job'[t]] = "none"
          /\ spc'[t] = "checked" => row'[job'[t]] = "none"
          /\ spc'[t] = "inserted" => row'[job'[t]] \in {"queued", "gone"}
    BY <1>1, <1>3, <2>1 DEF TasksInv, SubmittersOwnJobs
  <2>3. \A t, v \in Submitters : spc'[t] # "idle" /\ spc'[v] # "idle" /\ job'[t] = job'[v] => t = v
    BY <1>3 DEF TasksInv, SubmittersOwnJobs
  <2>4. \A a \in Analyses : a > submitted' => row'[a] = "none" /\ tpc'[a] = "none"
    <3>1. ~(j > submitted)
      BY <1>2 DEF TypeOK
    <3> QED BY <1>1, <1>3, <3>1 DEF TasksInv, SubmittersOwnJobs
  <2> QED BY <2>2, <2>3, <2>4 DEF SubmittersOwnJobs
<1>9. PhasesInOrder'
  <2>1. \A a \in Analyses : phase' = "up" => tpc'[a] \notin {"stopping", "unwinding", "unwound"}
    BY <1>1, <1>2, <1>3 DEF TasksInv, PhasesInOrder
  <2> QED BY <1>1, <1>2, <2>1 DEF TasksInv, PhasesInOrder
<1>10. ActiveRowsHaveOwners'
  <2> SUFFICES ASSUME NEW a \in Analyses
               PROVE  /\ row'[a] = "queued" =>
                            \/ \E t \in Submitters : spc'[t] = "inserted" /\ job'[t] = a
                            \/ tpc'[a] = "waiting" /\ \E k \in 1..Len(line') : line'[k] = a
                      /\ row'[a] = "running" => tpc'[a] \in {"started", "provider", "answered", "failing", "failed"}
    BY DEF ActiveRowsHaveOwners
  <2>1. CASE a = j
    BY <1>1, <1>2, <1>3, <1>5, <2>1
  <2>2. CASE a # j
    <3>1. /\ row[a] = "queued" => \/ \E t \in Submitters : spc[t] = "inserted" /\ job[t] = a
                                  \/ tpc[a] = "waiting" /\ \E k \in 1..Len(line) : line[k] = a
          /\ row[a] = "running" => tpc[a] \in {"started", "provider", "answered", "failing", "failed"}
      BY <1>2 DEF TasksInv, ActiveRowsHaveOwners
    <3>2. \A t \in Submitters : spc[t] = "inserted" /\ job[t] = a => t # s
      BY <2>2
    <3> QED BY <1>1, <1>3, <1>5, <2>2, <3>1, <3>2
  <2> QED BY <2>1, <2>2
<1>11. ShutdownLeavesNoneActive'
  BY <1>1, <1>2 DEF ShutdownLeavesNoneActive
<1>12. QueueIsBounded'
  <2>1. /\ Tasks' = Tasks \cup {j} /\ Submitting' = Submitting \ {s}
        /\ s \in Submitting /\ j \notin Tasks
    BY <1>1, <1>2, <1>3 DEF Tasks, Submitting
  <2>2. /\ IsFiniteSet(Tasks) /\ Cardinality(Tasks) \in Nat
        /\ IsFiniteSet(Submitting) /\ Cardinality(Submitting) \in Nat
    BY Bounds, Counted
  <2>3. Cardinality(Tasks') = Cardinality(Tasks) + 1 /\ Cardinality(Submitting') = Cardinality(Submitting) - 1
    BY <2>1, <2>2, FS_AddElement, FS_RemoveElement
  <2> QED BY <2>2, <2>3, Bounds DEF TasksInv, QueueIsBounded
<1> QED BY <1>6, <1>7, <1>8, <1>9, <1>10, <1>11, <1>12 DEF TasksInv

\* A task goes from one control point to another one, or ends, and may write
\* its row: what must hold of the two for the invariant.
LEMMA TaskMoves ==
    ASSUME TypeOK, TasksInv, NEW a \in Analyses, tpc[a] # "none",
           NEW pc \in {"none", "started", "provider", "answered", "written", "failing", "failed",
                       "unwinding", "unwound"},
           NEW st \in {"running", "completed", "failed", "gone"},
           tpc' = [tpc EXCEPT ![a] = pc], row' = [row EXCEPT ![a] = st],
           UNCHANGED <<disk, subject, requests, lifespan, history>>,
           \/ UNCHANGED line
           \/ line # <<>> /\ Head(line) = a /\ line' = Tail(line),
           pc \in {"started", "provider", "answered", "failing", "failed"} => st \in {"running", "gone"},
           pc = "written" => st \in {"completed", "gone"},
           pc = "unwound" => st \in {"running", "failed", "gone"},
           phase = "up" => /\ pc \notin {"unwinding", "unwound"}
                           /\ st = "running" => pc \in {"started", "provider", "answered", "failing", "failed"},
           phase # "up" => /\ pc \in {"none", "unwinding", "unwound"}
                           /\ st \in {row[a], "failed", "gone"}
    PROVE  TypeOK' /\ TasksInv'
<1>1. /\ tpc'[a] = pc /\ row'[a] = st
      /\ \A b \in Analyses : b # a => tpc'[b] = tpc[b] /\ row'[b] = row[b]
  BY DEF TypeOK
<1>2. line' \in Seq(Analyses)
  <2>1. line \in Seq(Analyses)
    BY DEF TypeOK
  <2> QED BY <2>1, HeadTailProperties
<1>3. \A b \in Analyses : b # a /\ (\E k \in 1..Len(line) : line[k] = b) => \E k \in 1..Len(line') : line'[k] = b
  <2> SUFFICES ASSUME NEW b \in Analyses, b # a, NEW k \in 1..Len(line), line[k] = b
               PROVE  \E m \in 1..Len(line') : line'[m] = b
    OBVIOUS
  <2>1. CASE line # <<>> /\ Head(line) = a /\ line' = Tail(line)
    <3>1. Len(line') = Len(line) - 1 /\ \A m \in 1..Len(line') : line'[m] = line[m + 1]
      BY <2>1, HeadTailProperties DEF TypeOK
    <3>2. k # 1 /\ Len(line) \in Nat
      BY <2>1 DEF TypeOK
    <3>3. k - 1 \in 1..Len(line') /\ (k - 1) + 1 = k
      BY <3>1, <3>2
    <3> QED BY <3>1, <3>3
  <2>2. CASE UNCHANGED line
    BY <2>2
  <2> QED BY <2>1, <2>2
<1>4. TypeOK'
  <2>1. /\ tpc' \in [Analyses -> {"none", "waiting", "started", "provider", "answered", "written",
                                    "failing", "failed", "stopping", "unwinding", "unwound"}]
        /\ row' \in [Analyses -> {"none", "queued", "running", "completed", "failed", "gone"}]
    BY DEF TypeOK
  <2> QED BY <1>2, <2>1 DEF TypeOK
<1>5. TasksFollowRows'
  BY <1>1, <1>3 DEF TasksInv, TasksFollowRows
<1>6. ~(a > submitted) /\ \A s \in Submitters : spc[s] # "idle" => job[s] \in Analyses /\ job[s] # a
  BY SubmitterKnows DEF TasksInv, SubmittersOwnJobs
<1>7. SubmittersOwnJobs'
  <2>1. \A s \in Submitters :
          /\ spc'[s] # "idle" => job'[s] \in 1..submitted' /\ tpc'[job'[s]] = "none"
          /\ spc'[s] = "checked" => row'[job'[s]] = "none"
          /\ spc'[s] = "inserted" => row'[job'[s]] \in {"queued", "gone"}
    BY <1>1, <1>6 DEF TasksInv, SubmittersOwnJobs
  <2>2. \A b \in Analyses : b > submitted' => row'[b] = "none" /\ tpc'[b] = "none"
    BY <1>1, <1>6 DEF TasksInv, SubmittersOwnJobs
  <2> QED BY <2>1, <2>2 DEF TasksInv, SubmittersOwnJobs
<1>8. PhasesInOrder'
  <2>1. /\ phase # "up" =>
            /\ \A u \in Uploaders : upc[u] = "idle"
            /\ \A d \in Deleters : dpc[d] = "idle"
            /\ \A s \in Submitters : spc[s] = "idle"
        /\ phase # "marking" => mark = 0
    BY DEF TasksInv, PhasesInOrder
  <2>2. \A b \in Analyses :
         /\ phase = "up" => tpc'[b] \notin {"stopping", "unwinding", "unwound"}
         /\ phase # "up" => tpc'[b] \in {"none", "stopping", "unwinding", "unwound"}
         /\ phase = "down" => tpc'[b] = "none"
    BY <1>1 DEF TasksInv, PhasesInOrder
  <2>3. ASSUME NEW b \in Analyses, phase # "up", Markable(b)'
        PROVE  Markable(b)
    BY <1>1, <2>3 DEF Markable
  <2>4. mark # 0 => row'[mark] \notin {"none", "completed"}
    <3>1. mark # 0 => phase # "up" /\ mark \in Analyses /\ row[mark] \notin {"none", "completed"}
      BY DEF TasksInv, PhasesInOrder, TypeOK
    <3> QED BY <1>1, <3>1
  <2>5. \A b \in Analyses :
         /\ phase = "draining" /\ Markable(b)' => b \in todo
         /\ phase = "marking" /\ Markable(b)' => b \in todo \/ b = mark
    BY <2>3 DEF TasksInv, PhasesInOrder
  <2> QED BY <2>1, <2>2, <2>4, <2>5 DEF PhasesInOrder
<1>9. ActiveRowsHaveOwners'
  <2>1. ASSUME phase = "up", NEW b \in Analyses, b # a, row'[b] = "queued"
        PROVE  \/ \E s \in Submitters : spc'[s] = "inserted" /\ job'[s] = b
               \/ tpc'[b] = "waiting" /\ \E k \in 1..Len(line') : line'[k] = b
    BY <1>1, <1>3, <2>1 DEF TasksInv, ActiveRowsHaveOwners
  <2>2. ASSUME phase = "up", NEW b \in Analyses, row'[b] = "running"
        PROVE  tpc'[b] \in {"started", "provider", "answered", "failing", "failed"}
    BY <1>1, <2>2 DEF TasksInv, ActiveRowsHaveOwners
  <2> QED BY <1>1, <2>1, <2>2 DEF ActiveRowsHaveOwners
<1>10. ShutdownLeavesNoneActive'
  BY <1>1 DEF TasksInv, ShutdownLeavesNoneActive, Markable
<1>11. QueueIsBounded'
  <2>1. Tasks' \subseteq Tasks /\ Submitting' = Submitting
    BY <1>1 DEF Tasks, Submitting
  <2> QED BY <2>1, QueueShrinks DEF TasksInv
<1> QED BY <1>4, <1>5, <1>7, <1>8, <1>9, <1>10, <1>11 DEF TasksInv

\* Where a task is tells whether the service is up, and what its row reads.
LEMMA TaskKnows ==
    ASSUME TasksInv, NEW a \in Analyses
    PROVE  /\ tpc[a] \in {"waiting", "started", "provider", "answered", "written", "failing", "failed"} => phase = "up"
           /\ tpc[a] \in {"stopping", "unwinding", "unwound"} => phase # "up"
           /\ tpc[a] = "waiting" => row[a] \in {"queued", "gone"}
           /\ tpc[a] \in {"started", "provider", "answered", "failing", "failed"} => row[a] \in {"running", "gone"}
           /\ tpc[a] = "written" => row[a] \in {"completed", "gone"}
           /\ tpc[a] \in {"stopping", "unwound"} => row[a] \in {"running", "failed", "gone"}
           /\ tpc[a] = "unwinding" => row[a] \in {"running", "completed", "failed", "gone"}
BY DEF TasksInv, PhasesInOrder, TasksFollowRows

\* Every step of a task is such a move.
LEMMA TaskStepI ==
    ASSUME TypeOK, TasksInv, NEW a \in Analyses, TaskStep(a)
    PROVE  TypeOK' /\ TasksInv'
<1>1. UNCHANGED <<disk, subject, requests, lifespan, history>>
  BY DEF TaskStep, Begin, ReadFile, Answer, ProviderFails, Complete, Return, TaskReadsRow,
         TaskMarksFailed, ProviderStopped
<1>2. row \in [Analyses -> {"none", "queued", "running", "completed", "failed", "gone"}]
      /\ row = [row EXCEPT ![a] = row[a]]
  BY DEF TypeOK
<1>3. CASE Begin(a)
  <2>1. /\ tpc[a] = "waiting" /\ line # <<>> /\ Head(line) = a /\ line' = Tail(line)
        /\ phase = "up"
    BY <1>3, TaskKnows DEF Begin
  <2>2. CASE row[a] = "gone"
    <3>1. tpc' = [tpc EXCEPT ![a] = "none"] /\ row' = [row EXCEPT ![a] = "gone"]
      BY <1>2, <1>3, <2>2 DEF Begin, Goto
    <3> QED BY <1>1, <2>1, <3>1, TaskMoves
  <2>3. CASE row[a] # "gone"
    <3>1. tpc' = [tpc EXCEPT ![a] = "started"] /\ row' = [row EXCEPT ![a] = "running"]
      BY <1>3, <2>3 DEF Begin, Goto
    <3> QED BY <1>1, <2>1, <3>1, TaskMoves
  <2> QED BY <2>2, <2>3
<1>4. CASE ReadFile(a) \/ ProviderFails(a)
  <2>1. /\ tpc[a] \in {"started", "provider"} /\ row' = [row EXCEPT ![a] = row[a]] /\ line' = line
        /\ row[a] \in {"running", "gone"} /\ phase = "up"
    BY <1>2, <1>4, TaskKnows DEF ReadFile, ProviderFails
  <2>2. PICK pc \in {"provider", "failing"} : tpc' = [tpc EXCEPT ![a] = pc]
    BY <1>4 DEF ReadFile, ProviderFails, Goto
  <2> QED BY <1>1, <2>1, <2>2, TaskMoves
<1>5. CASE Answer(a)
  <2>1. /\ tpc[a] = "provider" /\ row' = [row EXCEPT ![a] = row[a]] /\ line' = line
        /\ row[a] \in {"running", "gone"} /\ phase = "up"
    BY <1>2, <1>5, TaskKnows DEF Answer
  <2>2. PICK pc \in {"answered", "none"} :
           tpc' = [tpc EXCEPT ![a] = pc] /\ (pc = "answered" <=> row[a] = "running")
    BY <1>5 DEF Answer, Goto
  <2> QED BY <1>1, <2>1, <2>2, TaskMoves
<1>6. CASE Complete(a)
  <2>1. tpc[a] = "answered" /\ line' = line /\ phase = "up"
    BY <1>6, TaskKnows DEF Complete
  <2>2. CASE row[a] = "gone"
    <3>1. tpc' = [tpc EXCEPT ![a] = "failing"] /\ row' = [row EXCEPT ![a] = "gone"]
      BY <1>2, <1>6, <2>2 DEF Complete, Goto
    <3> QED BY <1>1, <2>1, <3>1, TaskMoves
  <2>3. CASE row[a] # "gone"
    <3>1. tpc' = [tpc EXCEPT ![a] = "written"] /\ row' = [row EXCEPT ![a] = "completed"]
      BY <1>6, <2>3 DEF Complete, Goto
    <3> QED BY <1>1, <2>1, <3>1, TaskMoves
  <2> QED BY <2>2, <2>3
<1>7. CASE Return(a)
  <2>1. /\ tpc[a] = "written" /\ row' = [row EXCEPT ![a] = row[a]] /\ line' = line
        /\ row[a] \in {"completed", "gone"} /\ phase = "up" /\ tpc' = [tpc EXCEPT ![a] = "none"]
    BY <1>2, <1>7, TaskKnows DEF Return, Goto
  <2> QED BY <1>1, <2>1, TaskMoves
<1>8. CASE TaskReadsRow(a)
  <2>1. tpc[a] \in {"failing", "unwinding"} /\ row' = [row EXCEPT ![a] = row[a]] /\ line' = line
    BY <1>2, <1>8 DEF TaskReadsRow
  <2>2. CASE tpc[a] = "failing"
    <3>1. row[a] \in {"running", "gone"} /\ phase = "up"
      BY <2>2, TaskKnows
    <3>2. PICK pc \in {"failed", "none"} :
             tpc' = [tpc EXCEPT ![a] = pc] /\ (row[a] = "running" => pc = "failed")
      BY <1>8, <2>2 DEF TaskReadsRow, Goto, Markable
    <3> QED BY <1>1, <2>1, <3>1, <3>2, TaskMoves
  <2>3. CASE tpc[a] = "unwinding"
    <3>1. row[a] \in {"running", "completed", "failed", "gone"} /\ phase # "up"
      BY <2>3, TaskKnows
    <3>2. PICK pc \in {"unwound", "none"} :
             tpc' = [tpc EXCEPT ![a] = pc] /\ (pc = "unwound" => row[a] \in {"queued", "running"})
      BY <1>8, <2>3 DEF TaskReadsRow, Goto, Markable
    <3> QED BY <1>1, <2>1, <3>1, <3>2, TaskMoves
  <2> QED BY <2>1, <2>2, <2>3
<1>9. CASE TaskMarksFailed(a)
  <2>1. tpc[a] \in {"failed", "unwound"} /\ line' = line /\ tpc' = [tpc EXCEPT ![a] = "none"]
    BY <1>9 DEF TaskMarksFailed, Goto
  <2>2. PICK st \in {"gone", "failed"} : row' = [row EXCEPT ![a] = st]
    BY <1>9 DEF TaskMarksFailed, WriteFailed
  <2> QED BY <1>1, <2>1, <2>2, TaskMoves
<1>10. CASE ProviderStopped(a)
  <2>1. /\ tpc[a] = "stopping" /\ row' = [row EXCEPT ![a] = row[a]] /\ line' = line
        /\ row[a] \in {"running", "failed", "gone"} /\ phase # "up" /\ tpc' = [tpc EXCEPT ![a] = "unwinding"]
    BY <1>2, <1>10, TaskKnows DEF ProviderStopped, Goto
  <2> QED BY <1>1, <2>1, TaskMoves
<1> QED BY <1>3, <1>4, <1>5, <1>6, <1>7, <1>8, <1>9, <1>10 DEF TaskStep

\* ShutdownBegin: every active analysis has a task, and so it is among those
\* shutdown will mark.
LEMMA ShutdownBeginI ==
    ASSUME TypeOK, TasksInv, ShutdownBegin
    PROVE  TypeOK' /\ TasksInv'
<1>1. /\ phase = "up" /\ phase' = "draining" /\ todo' = Tasks
      /\ tpc' = [a \in Analyses |-> Cancelled(tpc[a])] /\ line' = <<>>
      /\ UNCHANGED <<row, spc, job, submitted, mark, upc, dpc>>
  BY DEF ShutdownBegin
<1>2. /\ \A u \in Uploaders : upc[u] = "idle"
      /\ \A d \in Deleters : dpc[d] = "idle"
      /\ \A s \in Submitters : spc[s] = "idle"
  BY DEF ShutdownBegin
<1>3. mark = 0
  BY <1>1 DEF TasksInv, PhasesInOrder
<1>4. \A a \in Analyses :
        /\ tpc'[a] \in {"none", "stopping", "unwinding"}
        /\ tpc'[a] = "stopping" => tpc[a] = "provider"
        /\ tpc'[a] = "unwinding" => tpc[a] \in {"answered", "written"}
        /\ tpc[a] = "none" => tpc'[a] = "none"
  BY <1>1 DEF Cancelled
<1>5. TypeOK'
  <2>1. stops' \in 0..MaxStops
    <3>1. MaxStops \in Nat /\ stops \in 0..MaxStops
      BY VisionAssumption DEF TypeOK
    <3> QED BY <3>1 DEF ShutdownBegin
  <2>2. todo' \subseteq Analyses
    BY <1>1 DEF Tasks
  <2>3. tpc' \in [Analyses -> {"none", "waiting", "started", "provider", "answered", "written",
                               "failing", "failed", "stopping", "unwinding", "unwound"}]
    BY <1>1, <1>4
  <2> QED BY <1>1, <2>1, <2>2, <2>3 DEF ShutdownBegin, TypeOK
<1>6. TasksFollowRows'
  BY <1>1, <1>4 DEF TasksInv, TasksFollowRows
<1>7. SubmittersOwnJobs'
  BY <1>1, <1>2, <1>4 DEF TasksInv, SubmittersOwnJobs
<1>8. PhasesInOrder'
  <2>1. ASSUME NEW a \in Analyses, Markable(a)
        PROVE  a \in Tasks
    BY <1>1, <1>2, <2>1 DEF TasksInv, ActiveRowsHaveOwners, Markable, Tasks
  <2> QED BY <1>1, <1>2, <1>3, <1>4, <2>1 DEF PhasesInOrder, Markable
<1>9. ActiveRowsHaveOwners' /\ ShutdownLeavesNoneActive'
  BY <1>1 DEF ActiveRowsHaveOwners, ShutdownLeavesNoneActive
<1>10. QueueIsBounded'
  <2>1. Tasks' \subseteq Tasks /\ Submitting' = Submitting
    BY <1>1, <1>4 DEF Tasks, Submitting
  <2> QED BY <2>1, QueueShrinks DEF TasksInv
<1> QED BY <1>5, <1>6, <1>7, <1>8, <1>9, <1>10 DEF TasksInv

\* Shutdown waits, reads a row or returns: no row, task or request changes.
LEMMA ShutdownMoves ==
    ASSUME TypeOK, TasksInv,
           \/ ShutdownWaited
           \/ \E a \in Analyses : ShutdownReadsRow(a)
           \/ ShutdownReturns
    PROVE  TypeOK' /\ TasksInv'
<1>1. /\ phase \in {"draining", "marking"} /\ phase' \in {"marking", "closing"}
      /\ UNCHANGED <<disk, analyses, requests, tasks, stops, crashes, history>>
  BY DEF ShutdownWaited, ShutdownReadsRow, ShutdownReturns
<1>2. /\ todo' \subseteq Analyses /\ mark' \in Analyses \cup {0}
      /\ phase' = "marking" => \A a \in Analyses : Markable(a) => a \in todo' \/ a = mark'
      /\ phase' = "closing" => mark' = 0 /\ \A a \in Analyses : ~Markable(a)
      /\ mark' # 0 => row[mark'] \notin {"none", "completed"}
  <2>0. 0 \notin Analyses
    BY DEF Analyses
  <2>1. CASE ShutdownWaited
    BY <2>1 DEF ShutdownWaited, TasksInv, PhasesInOrder, TypeOK
  <2>2. CASE \E a \in Analyses : ShutdownReadsRow(a)
    <3>1. PICK a \in Analyses : ShutdownReadsRow(a)
      BY <2>2
    <3> QED BY <3>1, <2>0 DEF ShutdownReadsRow, TasksInv, PhasesInOrder, TypeOK, Markable
  <2>3. CASE ShutdownReturns
    BY <2>0, <2>3 DEF ShutdownReturns, TasksInv, PhasesInOrder, TypeOK
  <2> QED BY <2>1, <2>2, <2>3
<1>3. TypeOK'
  BY <1>1, <1>2 DEF TypeOK
<1>4. TasksFollowRows' /\ SubmittersOwnJobs'
  BY <1>1 DEF TasksInv, TasksFollowRows, SubmittersOwnJobs
<1>5. PhasesInOrder'
  BY <1>1, <1>2 DEF TasksInv, PhasesInOrder, Markable
<1>6. ActiveRowsHaveOwners' /\ ShutdownLeavesNoneActive'
  BY <1>1, <1>2 DEF ActiveRowsHaveOwners, ShutdownLeavesNoneActive, Markable
<1>7. QueueIsBounded'
  <2>1. Tasks' = Tasks /\ Submitting' = Submitting
    BY <1>1 DEF Tasks, Submitting
  <2> QED BY <2>1, QueueShrinks DEF TasksInv
<1> QED BY <1>3, <1>4, <1>5, <1>6, <1>7 DEF TasksInv

\* ShutdownMarksFailed: the row it read as active has stayed active, was failed
\* by its own task, or is gone.
LEMMA ShutdownMarksFailedI ==
    ASSUME TypeOK, TasksInv, ShutdownMarksFailed
    PROVE  TypeOK' /\ TasksInv'
<1> PICK m : m = mark
  OBVIOUS
<1>1. /\ phase = "marking" /\ m # 0 /\ m \in Analyses /\ mark' = 0
      /\ row[m] \notin {"none", "completed"}
      /\ UNCHANGED <<disk, subject, requests, tasks, phase, todo, stops, crashes, history>>
  BY DEF ShutdownMarksFailed, TasksInv, PhasesInOrder, TypeOK
<1>2. PICK st \in {"gone", "failed"} : row' = [row EXCEPT ![m] = st] /\ (row[m] = "gone" => st = "gone")
  BY DEF ShutdownMarksFailed, WriteFailed
<1>3. row'[m] = st /\ \A a \in Analyses : a # m => row'[a] = row[a]
  BY <1>1, <1>2 DEF TypeOK
<1>4. TypeOK'
  <2>1. row' \in [Analyses -> {"none", "queued", "running", "completed", "failed", "gone"}]
    BY <1>2 DEF TypeOK
  <2> QED BY <1>1, <2>1 DEF TypeOK
<1>5. /\ \A s \in Submitters : spc[s] = "idle"
      /\ \A a \in Analyses : tpc[a] \in {"none", "stopping", "unwinding", "unwound"}
  BY <1>1 DEF TasksInv, PhasesInOrder
<1>6. TasksFollowRows'
  BY <1>1, <1>3, <1>5 DEF TasksInv, TasksFollowRows
<1>7. SubmittersOwnJobs'
  BY <1>1, <1>3, <1>5 DEF TasksInv, SubmittersOwnJobs
<1>8. PhasesInOrder'
  BY <1>1, <1>3 DEF TasksInv, PhasesInOrder, Markable
<1>9. ActiveRowsHaveOwners' /\ ShutdownLeavesNoneActive'
  BY <1>1 DEF ActiveRowsHaveOwners, ShutdownLeavesNoneActive
<1>10. QueueIsBounded'
  <2>1. Tasks' = Tasks /\ Submitting' = Submitting
    BY <1>1 DEF Tasks, Submitting
  <2> QED BY <2>1, QueueShrinks DEF TasksInv
<1> QED BY <1>4, <1>6, <1>7, <1>8, <1>9, <1>10 DEF TasksInv

\* The process ends with its tasks and its requests.
LEMMA DieTasks ==
    ASSUME TypeOK, TasksInv, Die
    PROVE  TasksInv'
<1>1. /\ phase' = "down" /\ mark' = 0 /\ UNCHANGED <<row, submitted>>
      /\ \A u \in Uploaders : upc'[u] = "idle"
      /\ \A d \in Deleters : dpc'[d] = "idle"
      /\ \A s \in Submitters : spc'[s] = "idle"
      /\ \A a \in Analyses : tpc'[a] = "none"
  BY DEF Die
<1>2. TasksFollowRows' /\ SubmittersOwnJobs'
  BY <1>1 DEF TasksInv, TasksFollowRows, SubmittersOwnJobs
<1>3. PhasesInOrder'
  BY <1>1 DEF PhasesInOrder
<1>4. ActiveRowsHaveOwners' /\ ShutdownLeavesNoneActive'
  BY <1>1 DEF ActiveRowsHaveOwners, ShutdownLeavesNoneActive
<1>5. QueueIsBounded'
  <2>1. Tasks' \subseteq Tasks /\ Submitting' \subseteq Submitting
    BY <1>1 DEF Tasks, Submitting
  <2> QED BY <2>1, QueueShrinks DEF TasksInv
<1> QED BY <1>2, <1>3, <1>4, <1>5 DEF TasksInv

\* Recover: nothing runs yet, and nothing is left active.
LEMMA RecoverI ==
    ASSUME TypeOK, TasksInv, Recover
    PROVE  TypeOK' /\ TasksInv'
<1>1. /\ phase = "down" /\ phase' = "up"
      /\ UNCHANGED <<disk, subject, requests, tasks, todo, mark, stops, crashes, history>>
      /\ \A a \in Analyses : /\ row'[a] \in {row[a], "failed"} /\ row'[a] \notin {"queued", "running"}
                             /\ row[a] = "none" => row'[a] = "none"
  BY DEF Recover
<1>2. /\ \A s \in Submitters : spc[s] = "idle"
      /\ \A a \in Analyses : tpc[a] = "none"
      /\ mark = 0
  BY <1>1 DEF TasksInv, PhasesInOrder
<1>3. TypeOK'
  <2>1. row' \in [Analyses -> {"none", "queued", "running", "completed", "failed", "gone"}]
    BY DEF Recover, TypeOK
  <2> QED BY <1>1, <2>1 DEF TypeOK
<1>4. TasksFollowRows' /\ SubmittersOwnJobs'
  BY <1>1, <1>2 DEF TasksInv, TasksFollowRows, SubmittersOwnJobs
<1>5. PhasesInOrder'
  BY <1>1, <1>2 DEF TasksInv, PhasesInOrder
<1>6. ActiveRowsHaveOwners' /\ ShutdownLeavesNoneActive'
  BY <1>1 DEF ActiveRowsHaveOwners, ShutdownLeavesNoneActive
<1>7. QueueIsBounded'
  <2>1. Tasks' = Tasks /\ Submitting' = Submitting
    BY <1>1 DEF Tasks, Submitting
  <2> QED BY <2>1, QueueShrinks DEF TasksInv
<1> QED BY <1>3, <1>4, <1>5, <1>6, <1>7 DEF TasksInv

-----------------------------------------------------------------------------
(* The invariant and the properties.                                       *)

\* The service starts with nothing.
LEMMA InitI == Init => IInv
<1> SUFFICES ASSUME Init PROVE IInv
  OBVIOUS
<1>1. TypeOK
  <2>1. 0 \in 0..MaxFiles /\ 0 \in 0..MaxAnalyses /\ 0 \in 0..MaxStops /\ 0 \in 0..MaxCrashes
    BY VisionAssumption
  <2>2. <<>> \in Seq(Analyses)
    OBVIOUS
  <2> QED BY <2>1, <2>2 DEF Init, TypeOK
<1>2. /\ \A u \in Uploaders : upc[u] = "idle"
      /\ \A d \in Deleters : dpc[d] = "idle"
      /\ \A s \in Submitters : spc[s] = "idle"
      /\ \A a \in Analyses : row[a] = "none" /\ tpc[a] = "none"
      /\ files = {} /\ assets = {} /\ phase = "up" /\ mark = 0
  BY DEF Init
<1>3. Kept = {} /\ Claims = {} /\ \A u \in Uploaders : Pending(u) = {}
  BY <1>2 DEF Kept, Claims, Pending
<1>4. FilesInv
  BY <1>2, <1>3 DEF FilesInv, IdsAreApart, ImagesAreKnown, ClaimsAreExclusive, OrphansComeFromFailures
<1>5. TasksFollowRows /\ SubmittersOwnJobs /\ PhasesInOrder /\ ActiveRowsHaveOwners /\ ShutdownLeavesNoneActive
  BY <1>2 DEF TasksFollowRows, SubmittersOwnJobs, PhasesInOrder, ActiveRowsHaveOwners,
              ShutdownLeavesNoneActive, Markable
<1>6. QueueIsBounded
  <2>1. Tasks = {} /\ Submitting = {}
    BY <1>2 DEF Tasks, Submitting
  <2>2. Cardinality({}) = 0
    BY FS_EmptySet
  <2> QED BY <2>1, <2>2, Bounds DEF QueueIsBounded
<1>7. AnalysesHaveAssets
  BY <1>2 DEF AnalysesHaveAssets
<1> QED BY <1>1, <1>4, <1>5, <1>6, <1>7 DEF IInv, TasksInv

\* What files and rows, and analyses and tasks, owe each other.
Halves == TypeOK /\ FilesInv /\ TasksInv

\* Every action preserves both halves.
LEMMA HalvesI ==
    ASSUME TypeOK, FilesInv, TasksInv, [Next]_vars
    PROVE  Halves'
<1>1. ASSUME NEW u \in Uploaders, Upload(u) \/ Scan(u) \/ UploaderStep(u)
      PROVE  Halves'
  <2>1. TypeOK' /\ FilesInv'
    BY <1>1, UploadI, LookUpI, WritePrivateI, WriteFailsI, InsertAssetI DEF UploaderStep
  <2>2. UNCHANGED <<row, spc, job, submitted, tpc, line, phase, todo, mark>>
    BY <1>1 DEF Upload, Scan, UploaderStep, RefuseFile, LookUpDigest, WritePrivate, WriteFails, InsertAsset,
              InsertFails
  <2>3. phase = "up"
    <3>1. CASE Upload(u) \/ Scan(u)
      BY <3>1 DEF Upload, Scan
    <3>2. CASE UploaderStep(u)
      BY <3>2 DEF UploaderStep, RefuseFile, LookUpDigest, WritePrivate, WriteFails, InsertAsset, InsertFails,
             TasksInv, PhasesInOrder
    <3> QED BY <1>1, <3>1, <3>2
  <2> QED BY <2>1, <2>2, <2>3, TasksFrame DEF Halves
<1>2. ASSUME NEW d \in Deleters, FindAsset(d) \/ Unlink(d) \/ DeleteFails(d) \/ UnlinkFails(d)
      PROVE  Halves'
  <2>1. TypeOK' /\ FilesInv'
    BY <1>2, FindAssetI, UnlinkI, DeletionFailsI
  <2>2. UNCHANGED <<row, spc, job, submitted, tpc, line, phase, todo, mark>>
    BY <1>2 DEF FindAsset, Unlink, DeleteFails, UnlinkFails
  <2>3. phase = "up"
    BY <1>2 DEF FindAsset, Unlink, DeleteFails, UnlinkFails, TasksInv, PhasesInOrder
  <2> QED BY <2>1, <2>2, <2>3, TasksFrame DEF Halves
<1>3. ASSUME NEW d \in Deleters, DeleteRow(d)
      PROVE  Halves'
  BY <1>3, DeleteRowFiles, DeleteRowTasks DEF Halves
<1>4. ASSUME NEW s \in Submitters, CheckSubmission(s) \/ SubmitterStep(s)
      PROVE  Halves'
  <2>1. TypeOK' /\ TasksInv'
    BY <1>4, CheckSubmissionI, InsertAnalysisI, CreateTaskI DEF SubmitterStep
  <2>2. UNCHANGED <<files, assets, content, upc, cur, last, sent, dpc, victim, robbed, spoiled>>
    BY <1>4 DEF CheckSubmission, SubmitterStep, InsertAnalysis, CreateTask
  <2> QED BY <2>1, <2>2, FilesFrame DEF Halves
<1>5. ASSUME NEW a \in Analyses, TaskStep(a)
      PROVE  Halves'
  <2>1. TypeOK' /\ TasksInv'
    BY <1>5, TaskStepI
  <2>2. UNCHANGED <<files, assets, content, upc, cur, last, sent, dpc, victim, robbed, spoiled>>
    BY <1>5 DEF TaskStep, Begin, ReadFile, Answer, ProviderFails, Complete, Return, TaskReadsRow,
                TaskMarksFailed, ProviderStopped
  <2> QED BY <2>1, <2>2, FilesFrame DEF Halves
<1>6. CASE ShutdownBegin \/ ShutdownWaited \/ ShutdownMarksFailed \/ ShutdownReturns
           \/ (\E a \in Analyses : ShutdownReadsRow(a)) \/ Recover
  <2>1. TypeOK' /\ TasksInv'
    BY <1>6, ShutdownBeginI, ShutdownMoves, ShutdownMarksFailedI, RecoverI
  <2>2. UNCHANGED <<files, assets, content, upc, cur, last, sent, dpc, victim, robbed, spoiled>>
    BY <1>6 DEF ShutdownBegin, ShutdownWaited, ShutdownMarksFailed, ShutdownReturns, ShutdownReadsRow, Recover
  <2> QED BY <2>1, <2>2, FilesFrame DEF Halves
<1>7. CASE Exit \/ Crash
  <2>1. Die /\ UNCHANGED stops
    BY <1>7 DEF Exit, Crash
  <2>2. \/ /\ crashes < MaxCrashes /\ crashes' = crashes + 1
           /\ spoiled' = spoiled \cup (InBetween \cap files)
        \/ /\ UNCHANGED <<crashes, spoiled>>
           /\ \A u \in Uploaders : upc[u] = "idle"
           /\ \A d \in Deleters : dpc[d] = "idle"
    BY <1>7 DEF Exit, Crash, TasksInv, PhasesInOrder
  <2> QED BY <2>1, <2>2, DieFiles, DieTasks DEF Halves
<1>8. CASE UNCHANGED vars
  <2>1. TypeOK'
    BY <1>8 DEF vars, TypeOK
  <2>2. FilesInv' /\ TasksInv'
    BY <1>8, FilesFrame, TasksFrame DEF vars
  <2> QED BY <2>1, <2>2 DEF Halves
<1> QED BY <1>1, <1>2, <1>3, <1>4, <1>5, <1>6, <1>7, <1>8 DEF Next, DeleterStep, ShutdownStep

-----------------------------------------------------------------------------
(* What steps do to the two tables.                                        *)

\* The statuses change by deletions, or one at a time: a row is queued on an
\* asset that is there, begins alone, and is completed or failed while active.
LEMMA RowsMove ==
    ASSUME TypeOK, TasksInv, [Next]_vars
    PROVE  \/ UNCHANGED row
           \/ \E d \in Deleters : DeleteRow(d)
           \/ /\ UNCHANGED <<assets, content, subject>>
              /\ \E a \in Analyses :
                   \/ row[a] = "none" /\ subject[a] \in assets /\ row' = [row EXCEPT ![a] = "queued"]
                   \/ /\ row[a] = "queued" /\ \A b \in Analyses : row[b] # "running"
                      /\ row' = [row EXCEPT ![a] = "running"]
                   \/ row[a] = "running" /\ row' = [row EXCEPT ![a] = "completed"]
                   \/ Markable(a) /\ row' = [row EXCEPT ![a] = "failed"]
           \/ UNCHANGED <<assets, content, subject>> /\ row' = [a \in Analyses |-> IF Markable(a) THEN "failed" ELSE row[a]]
<1> DEFINE Rest == UNCHANGED <<assets, content, subject>>
           Alone(a) == row[a] = "queued" /\ \A b \in Analyses : row[b] # "running"
<1>1. ASSUME NEW s \in Submitters, InsertAnalysis(s), ~UNCHANGED row
      PROVE  Rest /\ \E a \in Analyses : row[a] = "none" /\ subject[a] \in assets /\ row' = [row EXCEPT ![a] = "queued"]
  <2>1. spc[s] = "checked" /\ job[s] \in Analyses /\ row[job[s]] = "none"
    BY <1>1, SubmitterKnows DEF InsertAnalysis, TasksInv, SubmittersOwnJobs
  <2> QED BY <1>1, <2>1 DEF InsertAnalysis
<1>2. ASSUME NEW b \in Analyses, Begin(b), ~UNCHANGED row
      PROVE  Rest /\ Alone(b) /\ row' = [row EXCEPT ![b] = "running"]
  <2>1. /\ tpc[b] = "waiting" /\ row' = [row EXCEPT ![b] = "running"] /\ row[b] # "gone" /\ Rest
        /\ \A c \in Analyses : tpc[c] \in {"none", "waiting"}
    BY <1>2 DEF Begin
  <2>2. phase = "up" /\ row[b] = "queued"
    BY <2>1, TaskKnows
  <2>3. \A c \in Analyses : row[c] # "running"
    BY <2>1, <2>2 DEF TasksInv, ActiveRowsHaveOwners
  <2> QED BY <2>1, <2>2, <2>3
<1>3. ASSUME NEW b \in Analyses, Complete(b), ~UNCHANGED row
      PROVE  Rest /\ row[b] = "running" /\ row' = [row EXCEPT ![b] = "completed"]
  <2>1. tpc[b] = "answered" /\ row[b] # "gone" /\ row' = [row EXCEPT ![b] = "completed"] /\ Rest
    BY <1>3 DEF Complete
  <2> QED BY <2>1, TaskKnows
<1>4. ASSUME NEW b \in Analyses, row[b] \notin {"none", "completed"}, WriteFailed(b), ~UNCHANGED row
      PROVE  Markable(b) /\ row' = [row EXCEPT ![b] = "failed"]
  <2>1. row[b] \in {"none", "queued", "running", "completed", "failed", "gone"}
    BY DEF TypeOK
  <2>2. row' = [row EXCEPT ![b] = IF row[b] = "gone" THEN "gone" ELSE "failed"]
    BY <1>4 DEF WriteFailed
  <2>3. row[b] \in {"failed", "gone"} => row' = [row EXCEPT ![b] = row[b]]
    BY <2>2
  <2>4. [row EXCEPT ![b] = row[b]] = row
    BY DEF TypeOK
  <2> QED BY <1>4, <2>1, <2>2, <2>3, <2>4 DEF Markable
<1>5. ASSUME NEW b \in Analyses, TaskMarksFailed(b), ~UNCHANGED row
      PROVE  Rest /\ Markable(b) /\ row' = [row EXCEPT ![b] = "failed"]
  <2>1. tpc[b] \in {"failed", "unwound"} /\ WriteFailed(b) /\ Rest
    BY <1>5 DEF TaskMarksFailed
  <2>2. row[b] \notin {"none", "completed"}
    BY <2>1, TaskKnows
  <2> QED BY <1>4, <1>5, <2>1, <2>2
<1>6. ASSUME ShutdownMarksFailed, ~UNCHANGED row
      PROVE  Rest /\ mark \in Analyses /\ Markable(mark) /\ row' = [row EXCEPT ![mark] = "failed"]
  <2>1. /\ mark \in Analyses /\ row[mark] \notin {"none", "completed"} /\ WriteFailed(mark) /\ Rest
    BY <1>6 DEF ShutdownMarksFailed, TasksInv, PhasesInOrder, TypeOK
  <2> QED BY <1>4, <1>6, <2>1
<1>7. CASE Recover
  BY <1>7 DEF Recover, Markable
<1>8. ASSUME NEW u \in Uploaders, Upload(u) \/ Scan(u) \/ UploaderStep(u)
      PROVE  UNCHANGED row
  BY <1>8 DEF Upload, Scan, UploaderStep, RefuseFile, LookUpDigest, WritePrivate, WriteFails, InsertAsset,
              InsertFails
<1>9. ASSUME NEW d \in Deleters, FindAsset(d) \/ Unlink(d) \/ DeleteFails(d) \/ UnlinkFails(d)
      PROVE  UNCHANGED row
  BY <1>9 DEF FindAsset, Unlink, DeleteFails, UnlinkFails
<1>10. ASSUME NEW s \in Submitters, CheckSubmission(s) \/ CreateTask(s)
       PROVE  UNCHANGED row
  BY <1>10 DEF CheckSubmission, CreateTask
<1>11. ASSUME NEW b \in Analyses, \/ ReadFile(b) \/ Answer(b) \/ ProviderFails(b) \/ Return(b)
                                  \/ TaskReadsRow(b) \/ ProviderStopped(b)
       PROVE  UNCHANGED row
  BY <1>11 DEF ReadFile, Answer, ProviderFails, Return, TaskReadsRow, ProviderStopped
<1>12. ASSUME \/ ShutdownBegin \/ ShutdownWaited \/ ShutdownReturns \/ Exit \/ Crash
              \/ (\E b \in Analyses : ShutdownReadsRow(b)) \/ UNCHANGED vars
       PROVE  UNCHANGED row
  BY <1>12 DEF ShutdownBegin, ShutdownWaited, ShutdownReturns, Exit, Crash, Die, ShutdownReadsRow, vars
<1> HIDE DEF Rest, Alone
<1>13. \/ UNCHANGED row
       \/ \E d \in Deleters : DeleteRow(d)
       \/ Rest /\ \E a \in Analyses :
            \/ row[a] = "none" /\ subject[a] \in assets /\ row' = [row EXCEPT ![a] = "queued"]
            \/ Alone(a) /\ row' = [row EXCEPT ![a] = "running"]
            \/ row[a] = "running" /\ row' = [row EXCEPT ![a] = "completed"]
            \/ Markable(a) /\ row' = [row EXCEPT ![a] = "failed"]
       \/ Recover
  BY <1>1, <1>2, <1>3, <1>5, <1>6, <1>8, <1>9, <1>10, <1>11, <1>12
     DEF Next, UploaderStep, DeleterStep, SubmitterStep, TaskStep, ShutdownStep
<1> QED BY <1>7, <1>13 DEF Rest, Alone, Recover, Markable

\* The asset of an analysis is settled before its row is there.
LEMMA SubjectsStay ==
    ASSUME TypeOK, TasksInv, [Next]_vars, NEW a \in Analyses, row[a] # "none"
    PROVE  subject'[a] = subject[a]
<1>1. ASSUME NEW s \in Submitters, CheckSubmission(s)
      PROVE  subject'[a] = subject[a]
  <2>1. a <= submitted
    BY VisionAssumption DEF TasksInv, SubmittersOwnJobs, TypeOK, Analyses
  <2>2. PICK x \in assets : subject' = [subject EXCEPT ![submitted + 1] = x]
    BY <1>1 DEF CheckSubmission
  <2>3. a # submitted + 1
    BY <2>1, VisionAssumption DEF TypeOK, Analyses
  <2> QED BY <2>2, <2>3 DEF TypeOK
<1>2. ASSUME NEW s \in Submitters, InsertAnalysis(s)
      PROVE  subject'[a] = subject[a]
  <2>1. row[job[s]] = "none"
    BY <1>2 DEF InsertAnalysis, TasksInv, SubmittersOwnJobs
  <2> QED BY <1>2, <2>1 DEF InsertAnalysis, TypeOK
<1>3. ASSUME NEW u \in Uploaders, Upload(u) \/ Scan(u) \/ UploaderStep(u)
      PROVE  UNCHANGED subject
  BY <1>3 DEF Upload, Scan, UploaderStep, RefuseFile, LookUpDigest, WritePrivate, WriteFails, InsertAsset,
              InsertFails
<1>4. ASSUME NEW d \in Deleters, FindAsset(d) \/ DeleterStep(d)
      PROVE  UNCHANGED subject
  BY <1>4 DEF FindAsset, DeleterStep, DeleteRow, Unlink, DeleteFails, UnlinkFails
<1>5. ASSUME NEW s \in Submitters, CreateTask(s)
      PROVE  UNCHANGED subject
  BY <1>5 DEF CreateTask
<1>6. ASSUME NEW b \in Analyses, TaskStep(b)
      PROVE  UNCHANGED subject
  BY <1>6 DEF TaskStep, Begin, ReadFile, Answer, ProviderFails, Complete, Return, TaskReadsRow,
              TaskMarksFailed, ProviderStopped
<1>7. ASSUME ShutdownBegin \/ ShutdownStep \/ Crash \/ Recover \/ UNCHANGED vars
      PROVE  UNCHANGED subject
  BY <1>7 DEF ShutdownBegin, ShutdownStep, ShutdownWaited, ShutdownMarksFailed, ShutdownReturns,
              ShutdownReadsRow, Exit, Crash, Die, Recover, vars
<1> QED BY <1>1, <1>2, <1>3, <1>4, <1>5, <1>6, <1>7 DEF Next, SubmitterStep

\* The images of rows change by deletions and by insertions of an image that is
\* not stored under an id that is not in use.
LEMMA ImagesMove ==
    ASSUME TypeOK, FilesInv, [Next]_vars
    PROVE  \/ UNCHANGED assets /\ \A x \in assets : content'[x] = content[x]
           \/ \E d \in Deleters : DeleteRow(d)
           \/ /\ UNCHANGED <<content, row, subject>>
              /\ \E x \in Assets \ assets :
                   content[x] \in Images /\ ~Stored(content[x]) /\ assets' = assets \cup {x}
<1> DEFINE Same == UNCHANGED assets /\ \A x \in assets : content'[x] = content[x]
           Added == /\ UNCHANGED <<content, row, subject>>
                    /\ \E x \in Assets \ assets :
                         content[x] \in Images /\ ~Stored(content[x]) /\ assets' = assets \cup {x}
<1>1. \A u \in Uploaders : upc[u] # "idle" => cur[u] \in Assets \ assets
  <2>1. \A u \in Uploaders : upc[u] # "idle" => cur[u] \in 1..sent /\ cur[u] \notin Kept
    BY DEF FilesInv, IdsAreApart
  <2> QED BY <2>1, VisionAssumption DEF TypeOK, Kept, Assets
<1>2. ASSUME NEW u \in Uploaders, LookUpDigest(u) \/ WritePrivate(u) \/ WriteFails(u)
      PROVE  Same
  <2>1. upc[u] \in {"next", "writing"} /\ UNCHANGED assets
    BY <1>2 DEF LookUpDigest, WritePrivate, WriteFails
  <2>2. content' = content \/ \E i : content' = [content EXCEPT ![cur[u]] = i]
    BY <1>2 DEF LookUpDigest, WritePrivate, WriteFails
  <2>3. \A x \in assets : x # cur[u]
    BY <1>1, <2>1
  <2> QED BY <2>1, <2>2, <2>3 DEF TypeOK
<1>3. ASSUME NEW u \in Uploaders, InsertAsset(u)
      PROVE  Same \/ Added
  <2>1. upc[u] = "written" /\ UNCHANGED <<content, row, subject>>
    BY <1>3 DEF InsertAsset
  <2>2. content[cur[u]] \in Images
    BY <2>1 DEF FilesInv, ImagesAreKnown
  <2>3. UNCHANGED assets \/ (~Stored(content[cur[u]]) /\ assets' = assets \cup {cur[u]})
    BY <1>3 DEF InsertAsset
  <2> QED BY <1>1, <2>1, <2>2, <2>3
<1>4. ASSUME NEW u \in Uploaders, Upload(u) \/ Scan(u) \/ RefuseFile(u) \/ InsertFails(u)
      PROVE  Same
  BY <1>4 DEF Upload, Scan, RefuseFile, InsertFails
<1>5. ASSUME NEW d \in Deleters, FindAsset(d) \/ Unlink(d) \/ DeleteFails(d) \/ UnlinkFails(d)
      PROVE  Same
  BY <1>5 DEF FindAsset, Unlink, DeleteFails, UnlinkFails
<1>6. ASSUME NEW s \in Submitters, CheckSubmission(s) \/ SubmitterStep(s)
      PROVE  Same
  BY <1>6 DEF CheckSubmission, SubmitterStep, InsertAnalysis, CreateTask
<1>7. ASSUME NEW b \in Analyses, TaskStep(b)
      PROVE  Same
  BY <1>7 DEF TaskStep, Begin, ReadFile, Answer, ProviderFails, Complete, Return, TaskReadsRow,
              TaskMarksFailed, ProviderStopped
<1>8. ASSUME ShutdownBegin \/ ShutdownStep \/ Crash \/ Recover \/ UNCHANGED vars
      PROVE  Same
  BY <1>8 DEF ShutdownBegin, ShutdownStep, ShutdownWaited, ShutdownMarksFailed, ShutdownReturns,
              ShutdownReadsRow, Exit, Crash, Die, Recover, vars
<1> HIDE DEF Same, Added
<1>9. Same \/ Added \/ \E d \in Deleters : DeleteRow(d)
  BY <1>2, <1>3, <1>4, <1>5, <1>6, <1>7, <1>8 DEF Next, UploaderStep, DeleterStep
<1> QED BY <1>9 DEF Same, Added

\* The foreign key: an analysis is inserted while its asset is there, and goes
\* with it.
LEMMA AnalysesHaveAssetsI ==
    ASSUME TypeOK, FilesInv, TasksInv, AnalysesHaveAssets, [Next]_vars
    PROVE  AnalysesHaveAssets'
<1> SUFFICES ASSUME NEW a \in Analyses, row'[a] \notin {"none", "gone"}
             PROVE  subject'[a] \in assets'
  BY DEF AnalysesHaveAssets
<1>1. CASE row[a] = "none"
  <2>1. UNCHANGED <<assets, content, subject>> /\ subject[a] \in assets
    <3>1. row'[a] # row[a] /\ \A d \in Deleters : ~DeleteRow(d)
      BY <1>1 DEF DeleteRow
    <3> QED BY <1>1, <3>1, RowsMove DEF TypeOK, Markable
  <2> QED BY <2>1
<1>2. CASE row[a] # "none"
  <2>1. subject'[a] = subject[a]
    BY <1>2, SubjectsStay
  <2>2. row[a] # "gone"
    <3>1. ASSUME NEW d \in Deleters, DeleteRow(d), row[a] = "gone"
          PROVE  row'[a] = "gone"
      BY <3>1 DEF DeleteRow
    <3> QED BY <3>1, RowsMove DEF TypeOK, Markable
  <2>3. subject[a] \in assets
    BY <1>2, <2>2 DEF AnalysesHaveAssets
  <2>4. ASSUME NEW d \in Deleters, DeleteRow(d)
        PROVE  subject[a] \in assets'
    <3>1. subject[a] # victim[d]
      BY <1>2, <2>4 DEF DeleteRow
    <3> QED BY <2>3, <2>4, <3>1 DEF DeleteRow
  <2> QED BY <2>1, <2>3, <2>4, ImagesMove
<1> QED BY <1>1, <1>2

\* Every action preserves the invariant.
LEMMA NextI == IInv /\ [Next]_vars => IInv'
BY HalvesI, AnalysesHaveAssetsI DEF IInv, Halves

\* Files, rows, queue, tasks and phases agree in every state.
THEOREM Invariance == Spec => []IInv
<1> QED BY InitI, NextI, PTL DEF Spec

\* The types of the variables.
THEOREM TypeCorrect == Spec => []TypeOK
<1>1. IInv => TypeOK
  BY DEF IInv
<1> QED BY <1>1, Invariance, PTL

\* create_asset and delete_asset: a row has its file, unless another deletion
\* came late.
THEOREM RowsKeepTheirFiles == Spec => []RowHasFile
<1>1. IInv => RowHasFile
  BY DEF IInv, FilesInv, ClaimsAreExclusive, Claims, RowHasFile
<1> QED BY <1>1, Invariance, PTL

\* create_asset and delete_asset: a file without a row belongs to a request in
\* progress, or to one that a failure or a crash ended between its two halves.
THEOREM OrphansHaveCauses == Spec => []OrphansComeFromFailures
<1>1. IInv => OrphansComeFromFailures
  BY DEF IInv, FilesInv
<1> QED BY <1>1, Invariance, PTL

\* While the service is up, every active analysis has somebody to end it.
THEOREM ActiveRowsAreOwned == Spec => []ActiveRowsHaveOwners
<1>1. IInv => ActiveRowsHaveOwners
  BY DEF IInv, TasksInv
<1> QED BY <1>1, Invariance, PTL

\* submit_analysis: vision_max_queue is exceeded by overlapping submissions at
\* most.
THEOREM QueueOvershoot == Spec => []OvershootIsBounded
<1>1. IInv => OvershootIsBounded
  <2> SUFFICES ASSUME QueueIsBounded PROVE OvershootIsBounded
    BY DEF IInv, TasksInv
  <2>1. Cardinality(Tasks) \in Nat /\ Cardinality(Submitting) \in Nat
    BY Bounds, Counted
  <2> QED BY <2>1, Bounds DEF QueueIsBounded, OvershootIsBounded
<1> QED BY <1>1, Invariance, PTL

\* shutdown: nothing is left queued or running.
THEOREM ShutdownSettles == Spec => []ShutdownLeavesNoneActive
<1>1. IInv => ShutdownLeavesNoneActive
  BY DEF IInv, TasksInv
<1> QED BY <1>1, Invariance, PTL

\* The status of a row that has ended stays: whoever writes an outcome has seen
\* the row active, and only the same outcome can have been written since.
LEMMA OutcomeStays ==
    ASSUME IInv, [Next]_vars, NEW a \in Analyses, row[a] \in {"completed", "failed"}
    PROVE  row'[a] \in {row[a], "gone"}
<1>1. TypeOK /\ TasksInv
  BY DEF IInv
<1>2. ASSUME NEW d \in Deleters, DeleteRow(d)
      PROVE  row'[a] \in {row[a], "gone"}
  BY <1>2 DEF DeleteRow
<1> QED BY <1>1, <1>2, RowsMove DEF TypeOK, Markable

\* The outcome of an analysis is written once.
THEOREM OutcomesStand == Spec => OutcomeIsFinal
<1>1. IInv /\ [Next]_vars =>
        [\A a \in Analyses : row[a] \in {"completed", "failed"} => row'[a] \in {row[a], "gone"}]_vars
  BY OutcomeStays
<1> QED BY <1>1, Invariance, PTL DEF Spec, OutcomeIsFinal

-----------------------------------------------------------------------------
(* The two tables keep what VisionContract says.                           *)

\* A service without assets and analyses.
LEMMA InitIsContract == Init => Contract!CInit
<1> SUFFICES ASSUME Init PROVE Contract!CInit
  OBVIOUS
<1>1. assets = {} /\ row = [a \in Analyses |-> "none"]
  BY DEF Init
<1> QED BY <1>1 DEF Contract!CInit

\* InsertAsset, delete_asset and the steps of an analysis show as what they
\* are; all others do not show.
LEMMA NextIsContract ==
    ASSUME IInv, [Next]_vars
    PROVE  Contract!CNext \/ UNCHANGED Contract!cvars
<1> DEFINE im == [x \in Assets |-> IF x \in assets THEN content[x] ELSE None]
           ab == [a \in Analyses |-> IF row[a] = "none" THEN None ELSE subject[a]]
<1>1. TypeOK /\ FilesInv /\ TasksInv /\ AnalysesHaveAssets
  BY DEF IInv
<1>2. /\ row \in [Analyses -> {"none", "queued", "running", "completed", "failed", "gone"}]
      /\ subject \in [Analyses -> Assets \cup {0}] /\ assets \subseteq Assets
  BY <1>1 DEF TypeOK
<1>3. \A x \in assets : content[x] \in Images /\ content[x] # None
  BY <1>1, VisionAssumption DEF FilesInv, ImagesAreKnown, Kept
<1>4. ASSUME UNCHANGED <<assets, subject>>, \A x \in assets : content'[x] = content[x],
             \A a \in Analyses : row'[a] = "none" <=> row[a] = "none"
      PROVE  im' = im /\ ab' = ab
  BY <1>4
<1>5. ASSUME NEW x \in Assets \ assets, UNCHANGED <<content, row, subject>>,
             NEW i \in Images, i = content[x], ~Stored(i), assets' = assets \cup {x}
      PROVE  Contract!Store(x, i)
  <2>1. im[x] = None /\ \A y \in Assets : im[y] # i
    BY <1>5, VisionAssumption DEF Stored
  <2>2. im' = [im EXCEPT ![x] = i]
    BY <1>5
  <2>3. ab' = ab
    BY <1>5
  <2> QED BY <1>5, <2>1, <2>2, <2>3 DEF Contract!Store
<1>6. ASSUME NEW d \in Deleters, DeleteRow(d), NEW x \in Assets, x = victim[d], x \in assets
      PROVE  Contract!Delete(x)
  <2>1. /\ assets' = assets \ {x} /\ UNCHANGED <<content, subject>>
        /\ row' = [a \in Analyses |-> IF subject[a] = x /\ row[a] # "none" THEN "gone" ELSE row[a]]
    BY <1>2, <1>6 DEF DeleteRow
  <2>2. im[x] # None
    BY <1>2, <1>3, <1>6
  <2>3. im' = [im EXCEPT ![x] = None]
    BY <2>1
  <2>4. row' = [a \in Analyses |-> IF ab[a] = x /\ row[a] # "none" THEN "gone" ELSE row[a]]
    BY <2>1
  <2>5. ab' = ab
    BY <2>1
  <2> QED BY <2>2, <2>3, <2>4, <2>5 DEF Contract!Delete
<1>7. ASSUME NEW d \in Deleters, DeleteRow(d), victim[d] \notin assets
      PROVE  UNCHANGED Contract!cvars
  <2>1. assets' = assets /\ UNCHANGED <<content, subject>>
    BY <1>7 DEF DeleteRow
  <2>2. ASSUME NEW a \in Analyses PROVE row'[a] = row[a]
    BY <1>1, <1>7 DEF DeleteRow, AnalysesHaveAssets
  <2>3. row' = row
    BY <1>2, <1>7, <2>2 DEF DeleteRow
  <2> QED BY <1>4, <2>1, <2>3 DEF Contract!cvars
<1>8. ASSUME NEW a \in Analyses, NEW x \in Assets, UNCHANGED <<assets, content, subject>>,
             row[a] = "none", x = subject[a], x \in assets, row' = [row EXCEPT ![a] = "queued"]
      PROVE  Contract!Queue(a, x)
  <2>1. im' = im /\ im[x] # None
    BY <1>2, <1>3, <1>8
  <2>2. ab' = [ab EXCEPT ![a] = x]
    BY <1>2, <1>8
  <2> QED BY <1>8, <2>1, <2>2 DEF Contract!Queue
<1>9. ASSUME NEW a \in Analyses, NEW st \in {"running", "completed", "failed"},
             UNCHANGED <<assets, content, subject>>, row[a] # "none", row' = [row EXCEPT ![a] = st]
      PROVE  im' = im /\ ab' = ab
  BY <1>2, <1>4, <1>9
<1>10. ASSUME NEW a \in Analyses, UNCHANGED <<assets, content, subject>>,
              \/ /\ row[a] = "queued" /\ \A b \in Analyses : row[b] # "running"
                 /\ row' = [row EXCEPT ![a] = "running"]
              \/ row[a] = "running" /\ row' = [row EXCEPT ![a] = "completed"]
              \/ Markable(a) /\ row' = [row EXCEPT ![a] = "failed"]
       PROVE  Contract!Start(a) \/ Contract!Complete(a) \/ Contract!Fail(a)
  BY <1>9, <1>10 DEF Contract!Start, Contract!Complete, Contract!Fail, Contract!Active, Markable
<1>11. ASSUME UNCHANGED <<assets, content, subject>>,
              row' = [a \in Analyses |-> IF Markable(a) THEN "failed" ELSE row[a]]
       PROVE  Contract!Interrupt
  <2>1. im' = im /\ ab' = ab
    BY <1>4, <1>11 DEF Markable
  <2> QED BY <1>11, <2>1 DEF Contract!Interrupt, Contract!Active, Markable
<1>12. ASSUME UNCHANGED <<assets, row>>, \A x \in assets : content'[x] = content[x]
       PROVE  UNCHANGED Contract!cvars
  <2>1. \A a \in Analyses : row[a] # "none" => subject'[a] = subject[a]
    BY <1>1, SubjectsStay
  <2>2. im' = im /\ ab' = ab
    BY <1>12, <2>1
  <2> QED BY <1>12, <2>2 DEF Contract!cvars
<1> HIDE DEF im, ab
<1>13. CASE \E d \in Deleters : DeleteRow(d)
  <2>1. PICK d \in Deleters : DeleteRow(d)
    BY <1>13
  <2>2. CASE victim[d] \in assets
    <3>1. PICK x \in Assets : x = victim[d] /\ x \in assets
      BY <1>2, <2>2
    <3>2. Contract!Delete(x)
      BY <1>6, <2>1, <3>1
    <3> QED BY <3>2 DEF Contract!CNext
  <2> QED BY <1>7, <2>1, <2>2
<1>14. ASSUME NEW x \in Assets \ assets, UNCHANGED <<content, row, subject>>,
              content[x] \in Images, ~Stored(content[x]), assets' = assets \cup {x}
       PROVE  Contract!CNext
  <2>1. PICK i \in Images : i = content[x]
    BY <1>14
  <2>2. Contract!Store(x, i)
    BY <1>5, <1>14, <2>1
  <2> QED BY <2>2 DEF Contract!CNext
<1>15. CASE UNCHANGED assets /\ \A x \in assets : content'[x] = content[x]
  <2>1. CASE UNCHANGED row
    BY <1>12, <1>15, <2>1
  <2>2. ASSUME NEW a \in Analyses, UNCHANGED <<assets, content, subject>>,
               row[a] = "none", subject[a] \in assets, row' = [row EXCEPT ![a] = "queued"]
        PROVE  Contract!CNext
    <3>1. PICK x \in Assets : x = subject[a] /\ x \in assets
      BY <1>2, <2>2
    <3>2. Contract!Queue(a, x)
      BY <1>8, <2>2, <3>1
    <3> QED BY <3>2 DEF Contract!CNext
  <2>3. ASSUME NEW a \in Analyses, UNCHANGED <<assets, content, subject>>,
               \/ /\ row[a] = "queued" /\ \A b \in Analyses : row[b] # "running"
                  /\ row' = [row EXCEPT ![a] = "running"]
               \/ row[a] = "running" /\ row' = [row EXCEPT ![a] = "completed"]
               \/ Markable(a) /\ row' = [row EXCEPT ![a] = "failed"]
        PROVE  Contract!CNext
    BY <1>10, <2>3 DEF Contract!CNext
  <2>4. ASSUME UNCHANGED <<assets, content, subject>>,
               row' = [a \in Analyses |-> IF Markable(a) THEN "failed" ELSE row[a]]
        PROVE  Contract!CNext
    BY <1>11, <2>4 DEF Contract!CNext
  <2> QED BY <1>1, <1>13, <2>1, <2>2, <2>3, <2>4, RowsMove
<1> QED BY <1>1, <1>13, <1>14, <1>15, ImagesMove

\* The tables of VisionService, with files, tasks, shutdown and crashes behind
\* them, implement the contract.
THEOREM Refinement == Spec => ImplementsVisionContract
<1>1. IInv /\ [Next]_vars => [Contract!CNext]_(Contract!cvars)
  BY NextIsContract
<1> QED BY <1>1, InitIsContract, Invariance, PTL DEF Spec, ImplementsVisionContract, Contract!CSpec

=============================================================================
