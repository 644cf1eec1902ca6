------------------------ MODULE DocumentFiles_proofs ------------------------
(***************************************************************************)
(* For any number of documents, files and requests: a stored row has its   *)
(* file and its preview on disk, and so has a restored archive.            *)
(*                                                                         *)
(* A file belongs to one document, though several rows and requests may    *)
(* know its name; what an upload has just saved nobody else knows.  So a   *)
(* handler that removes what it read can only take the files of its own    *)
(* document, and then it is a replacement on its way to the row, or the    *)
(* row is gone.                                                            *)
(***************************************************************************)
EXTENDS DocumentFiles, TLAPS

\* Request r knows f as a file of its document: it read it in the row, or is about
\* to write a preview of it there.
Knows(r, f) == Names(req[r].old, f) \/ (req[r].file = None /\ Names(req[r], f))

\* f is, or was, a file of document d.
Of(d, f) == Names(rows[d], f) \/ \E r \in Requests : req[r].doc = d /\ Knows(r, f)

NewIsOwn(r) ==
    req[r].file # None =>
        /\ \A d \in Docs : ~Of(d, req[r].file) /\ ~Names(backup.rows[d], req[r].file)
        /\ \A q \in Requests : req[q].file = req[r].file => q = r

Naming ==
    /\ \A f \in Files, d, e \in Docs : Of(d, f) /\ Of(e, f) => d = e
    /\ \A f \in Files, r \in Requests : Knows(r, f) => req[r].doc \in Docs
    /\ \A r \in Requests : NewIsOwn(r)

NewOnDisk(r) ==
    req[r].file # None =>
        /\ req[r].file \in files
        /\ req[r].preview = None \/ (req[r].preview[1] = req[r].file /\ req[r].preview \in previews)

\* What a handler carries at each of its steps.
Carries(r) ==
    LET q == req[r] IN
    /\ q.pc \in {"idle", "insert"} => q.doc = None
    /\ q.pc \notin {"preview", "insert", "remove", "update"} => q.file = None
    /\ q.pc \in {"preview", "insert", "remove"} => q.file # None
    /\ q.pc \notin {"idle", "preview", "insert"} => q.doc # None
    /\ q.pc \notin {"idle", "repoint"} => q.user # None
    /\ q.doc # None => rows[q.doc].state # "none"
    /\ q.pc = "preview" => q.preview = None
    /\ q.pc \in {"remove", "update"} \/ (q.pc = "preview" /\ q.doc # None) => q.old.state = "stored"
    /\ q.pc = "removeDeleted" => q.doc \notin Stored
    /\ q.pc = "update" /\ q.file = None /\ ~q.stale /\ q.doc \in Stored => rows[q.doc] = q.old

\* A replacement of d has removed the old file and not yet written the row.
Replaced(d) == \E r \in Requests : Replacing(r) /\ req[r].doc = d

DocSound(d) ==
    /\ d \in Stored \ damaged =>
          \/ Replaced(d)
          \/ rows[d].file \in files /\ rows[d].preview \in previews \union {None}
    /\ \A r \in Requests :
          req[r].doc = d /\ req[r].pc = "repoint" /\ ~req[r].stale /\ d \in Stored \ damaged =>
              Replaced(d) \/ req[r].preview \in previews
    /\ backup.rows[d].state = "stored" => rows[d].state # "none"
    /\ backup.pc = "archived" /\ d \in Stored \ damaged
           /\ backup.rows[d].state = "stored" /\ rows[d].file = backup.rows[d].file =>
         Replaced(d) \/ backup.rows[d].file \in backup.files

Inv ==
    /\ TypeOK /\ Naming
    /\ \A r \in Requests : NewOnDisk(r) /\ Carries(r)
    /\ \A d \in Docs : DocSound(d)

---------------------------------------------------------------------------
\* The values the records hold.
LEMMA Typed ==
    ASSUME TypeOK
    PROVE  /\ None \notin Docs /\ None \notin Files /\ None \notin Users
           /\ None \notin PreviewNames
           /\ \A d \in Docs : /\ rows[d] \in RowType /\ rows[d].file \in Files \union {None}
                              /\ rows[d].preview \in PreviewNames \union {None}
                              /\ backup.rows[d] \in RowType
           /\ \A r \in Requests : /\ req[r] \in ReqType /\ req[r].old \in RowType
                                  /\ req[r].doc \in Docs \union {None}
                                  /\ req[r].file \in Files \union {None}
                                  /\ req[r].preview \in PreviewNames \union {None}
                                  /\ req[r].user \in Users \union {None} /\ req[r].stale \in BOOLEAN
                                  /\ req[r].old.file \in Files \union {None}
                                  /\ req[r].old.preview \in PreviewNames \union {None}
           /\ files \subseteq Files /\ previews \subseteq PreviewNames
BY NoneAssumption, BoundAssumption DEF TypeOK, RowType, ReqType, PreviewNames

LEMMA PreviewParts ==
    /\ \A p \in PreviewNames : p[1] \in Files
    /\ \A f \in Files, n \in 0 .. MaxRegenerated : <<f, n>> \in PreviewNames /\ <<f, n>>[1] = f
BY DEF PreviewNames

LEMMA EmptyRecords ==
    /\ NoRow \in RowType /\ Idle \in ReqType
    /\ Idle.pc = "idle" /\ Idle.user = None /\ Idle.doc = None /\ Idle.old = NoRow
    /\ Idle.file = None /\ Idle.preview = None /\ Idle.stale = FALSE
    /\ NoRow.state = "none" /\ NoRow.file = None /\ NoRow.preview = None /\ NoRow.owner = None
    /\ \A f \in Files : ~Names(NoRow, f) /\ ~Names(Idle, f)
<1>1. NoRow \in RowType
  BY SMT DEF NoRow, RowType
<1>2. Idle \in ReqType
  BY <1>1, SMT DEF Idle, ReqType, PCs
<1>3. /\ Idle.pc = "idle" /\ Idle.user = None /\ Idle.doc = None /\ Idle.old = NoRow
      /\ Idle.file = None /\ Idle.preview = None /\ Idle.stale = FALSE
      /\ NoRow.state = "none" /\ NoRow.file = None /\ NoRow.preview = None /\ NoRow.owner = None
  BY Zenon DEF Idle, NoRow
<1> QED
  BY <1>1, <1>2, <1>3, NoneAssumption DEF Names

\* A record of a request with one field replaced.
LEMMA PcFields ==
    ASSUME NEW q \in ReqType, NEW pc \in PCs
    PROVE  LET n == [q EXCEPT !.pc = pc] IN
           /\ n \in ReqType /\ n.pc = pc /\ n.user = q.user /\ n.doc = q.doc /\ n.old = q.old
           /\ n.file = q.file /\ n.preview = q.preview /\ n.stale = q.stale
BY Zenon DEF ReqType

LEMMA StaleFields ==
    ASSUME NEW q \in ReqType, NEW b \in BOOLEAN
    PROVE  LET n == [q EXCEPT !.stale = b] IN
           /\ n \in ReqType /\ n.pc = q.pc /\ n.user = q.user /\ n.doc = q.doc /\ n.old = q.old
           /\ n.file = q.file /\ n.preview = q.preview /\ n.stale = b
BY Zenon DEF ReqType

\* What a handler's step does to the other requests: at most, they become stale.
Rest(r) ==
    \A x \in Requests : x # r =>
        /\ req'[x].pc = req[x].pc /\ req'[x].user = req[x].user /\ req'[x].doc = req[x].doc
        /\ req'[x].old = req[x].old /\ req'[x].file = req[x].file
        /\ req'[x].preview = req[x].preview
        /\ req[x].stale => req'[x].stale

LEMMA OneRequest ==
    ASSUME TypeOK, NEW r \in Requests, NEW q \in ReqType, req' = [req EXCEPT ![r] = q]
    PROVE  Rest(r) /\ req'[r] = q /\ req' \in [Requests -> ReqType]
BY DEF TypeOK, Rest

LEMMA GotoFields ==
    ASSUME TypeOK, NEW r \in Requests, NEW pc \in PCs, Goto(r, pc)
    PROVE  /\ Rest(r) /\ req' \in [Requests -> ReqType]
           /\ req'[r].pc = pc /\ req'[r].user = req[r].user /\ req'[r].doc = req[r].doc
           /\ req'[r].old = req[r].old /\ req'[r].file = req[r].file
           /\ req'[r].preview = req[r].preview /\ req'[r].stale = req[r].stale
<1>1. req[r] \in ReqType
  BY Typed
<1>2. req' = [req EXCEPT ![r] = [req[r] EXCEPT !.pc = pc]]
  BY DEF Goto
<1> DEFINE n == [req[r] EXCEPT !.pc = pc]
<1>3. n \in ReqType
  BY <1>1, PcFields
<1>4. Rest(r) /\ req'[r] = n /\ req' \in [Requests -> ReqType]
  BY <1>2, <1>3, OneRequest
<1> QED
  BY <1>1, <1>4, PcFields

LEMMA ChangedFields ==
    ASSUME TypeOK, NEW r \in Requests, NEW d, NEW q \in ReqType, Changed(r, d, q)
    PROVE  /\ Rest(r) /\ req'[r] = q /\ req' \in [Requests -> ReqType]
           /\ \A x \in Requests : x # r /\ req[x].doc = d => req'[x].stale
<1>1. ASSUME NEW x \in Requests
      PROVE  /\ req'[x] \in ReqType
             /\ x = r => req'[x] = q
             /\ x # r => /\ req'[x].pc = req[x].pc /\ req'[x].user = req[x].user
                         /\ req'[x].doc = req[x].doc /\ req'[x].old = req[x].old /\ req'[x].file = req[x].file
                         /\ req'[x].preview = req[x].preview
                         /\ req[x].stale => req'[x].stale
                         /\ req[x].doc = d => req'[x].stale
  <2>1. req[x] \in ReqType /\ TRUE \in BOOLEAN
    BY Typed
  <2> DEFINE n == [req[x] EXCEPT !.stale = TRUE]
  <2>2. /\ n \in ReqType /\ n.pc = req[x].pc /\ n.user = req[x].user
        /\ n.doc = req[x].doc /\ n.old = req[x].old /\ n.file = req[x].file /\ n.preview = req[x].preview /\ n.stale = TRUE
    BY <2>1, StaleFields, Zenon
  <2>3. req'[x] = IF x = r THEN q ELSE IF req[x].doc = d THEN n ELSE req[x]
    BY Zenon DEF Changed
  <2> HIDE DEF n
  <2> QED
    BY <2>1, <2>2, <2>3
<1>2. req' = [x \in Requests |-> req'[x]]
  BY DEF Changed
<1> QED
  BY <1>1, <1>2, Zenon DEF Rest

---------------------------------------------------------------------------
\* Names.  A step keeps every file with its document when the row it writes and the
\* request it leaves behind know only files of that document, or the new one.
LEMMA NamingKept ==
    ASSUME TypeOK, Naming, NEW r \in Requests, Rest(r), UNCHANGED backup,
           NEW d0 \in Docs \union {None},
           req'[r].file \in Files \union {None},
           \A f \in Files : Knows(r, f)' => req'[r].doc \in Docs /\ Of(req'[r].doc, f),
           \A f \in Files, d \in Docs : Names(rows'[d], f) => Of(d, f) \/ (d = d0 /\ req[r].file = f),
           \/ req'[r].file = None
           \/ d0 = None /\ (req'[r].file = req[r].file \/ Fresh(req'[r].file))
    PROVE  Naming'
<1>0. None \notin Docs /\ None \notin Files
  BY Typed
<1>1. ASSUME NEW x \in Requests, x # r, NEW f \in Files
      PROVE  (Knows(x, f)' <=> Knows(x, f)) /\ req'[x].doc = req[x].doc
  BY <1>1 DEF Knows, Names, Rest
<1>2. ASSUME NEW f \in Files, NEW d \in Docs, Of(d, f)'
      PROVE  Of(d, f) \/ (d = d0 /\ req[r].file = f)
  <2>1. CASE Names(rows'[d], f)
    BY <2>1
  <2>2. ASSUME NEW x \in Requests, req'[x].doc = d, Knows(x, f)'
        PROVE  Of(d, f)
    BY <1>1, <2>2 DEF Of
  <2> QED
    BY <1>2, <2>1, <2>2 DEF Of
<1>3. \A f \in Files, d, e \in Docs : Of(d, f)' /\ Of(e, f)' => d = e
  <2> SUFFICES ASSUME NEW f \in Files, NEW d \in Docs, NEW e \in Docs, Of(d, f)', Of(e, f)'
               PROVE  d = e
    BY Zenon
  <2>1. CASE Of(d, f) /\ Of(e, f)
    BY <2>1 DEF Naming
  <2>2. CASE req[r].file = f
    <3>1. ~Of(d, f) /\ ~Of(e, f)
      BY <1>0, <2>2 DEF Naming, NewIsOwn
    <3> QED
      BY <1>2, <3>1
  <2> QED
    BY <1>2, <2>1, <2>2
<1>4. \A f \in Files, x \in Requests : Knows(x, f)' => req'[x].doc \in Docs
  BY <1>1 DEF Naming
<1>5. ASSUME NEW f \in Files, Fresh(f)
      PROVE  /\ \A d \in Docs : ~Of(d, f) /\ ~Names(backup.rows[d], f)
             /\ \A x \in Requests : req[x].file # f
  BY <1>5 DEF Fresh, Of, Knows, Names
<1>6. ASSUME NEW x \in Requests, req'[x].file # None
      PROVE  /\ \A d \in Docs : ~Of(d, req[x].file)' /\ ~Names(backup'.rows[d], req'[x].file)
             /\ \A q \in Requests : req'[q].file = req'[x].file => q = x
  <2>1. CASE x # r
    <3>1. req'[x].file = req[x].file /\ req[x].file \in Files
      BY <1>6, <2>1, Typed DEF Rest
    <3>2. /\ \A d \in Docs : ~Of(d, req[x].file) /\ ~Names(backup.rows[d], req[x].file)
          /\ \A q \in Requests : req[q].file = req[x].file => q = x
      BY <1>6, <3>1 DEF Naming, NewIsOwn
    <3>3. \A q \in Requests : req'[q].file = req[x].file => q = x
      <4>1. req'[r].file # req[x].file
        BY <1>0, <1>5, <2>1, <3>1, <3>2
      <4> QED
        BY <3>2, <4>1 DEF Rest
    <3>4. ASSUME NEW d \in Docs, NEW f \in Files, f = req[x].file PROVE ~Of(d, f)'
      BY <1>2, <2>1, <3>2, <3>4
    <3> QED
      BY <3>1, <3>2, <3>3, <3>4
  <2>2. CASE x = r
    <3>1. PICK f \in Files : f = req'[r].file
      BY <1>6, <2>2
    <3>2. d0 = None /\ (f = req[r].file \/ Fresh(f))
      BY <1>6, <2>2, <3>1
    <3>3. /\ \A d \in Docs : ~Of(d, f) /\ ~Names(backup.rows[d], f)
          /\ \A q \in Requests : q # r => req[q].file # f
      BY <1>0, <1>5, <3>2 DEF Naming, NewIsOwn
    <3>4. \A d \in Docs : ~Of(d, f)'
      BY <1>0, <1>2, <3>2, <3>3
    <3> QED
      BY <2>2, <3>1, <3>3, <3>4 DEF Rest
  <2> QED
    BY <2>1, <2>2
<1>7. \A x \in Requests : NewIsOwn(x)'
  BY <1>6 DEF NewIsOwn
<1> QED
  BY <1>3, <1>4, <1>7 DEF Naming

---------------------------------------------------------------------------
\* The other requests.  What a step removes from the disk its request knows, so it
\* is no other request's new file.
RemovesKnown(r) ==
    /\ \A f \in files : f \in files' \/ Knows(r, f)
    /\ \A p \in previews : p \in previews' \/ Knows(r, p[1])

LEMMA DiskKept ==
    ASSUME TypeOK, Naming, NEW r \in Requests, Rest(r), RemovesKnown(r),
           NEW x \in Requests, x # r, NewOnDisk(x)
    PROVE  NewOnDisk(x)'
<1> SUFFICES ASSUME req[x].file # None
             PROVE  /\ req[x].file \in files'
                    /\ req[x].preview = None \/ (req[x].preview[1] = req[x].file /\ req[x].preview \in previews')
  BY DEF NewOnDisk, Rest
<1>1. req[x].file \in Files /\ req[x].file \in files
  BY Typed DEF NewOnDisk
<1>2. ~Knows(r, req[x].file)
  BY <1>1 DEF Naming, NewIsOwn, Of
<1> QED
  BY <1>1, <1>2 DEF NewOnDisk, RemovesKnown

\* Rows are inserted, stay, and are deleted for good.
RowsGoOn ==
    \A d \in Docs : rows[d].state # "none" =>
        rows'[d].state # "none" /\ (d \notin Stored => d \notin Stored')

LEMMA CarriesKept ==
    ASSUME TypeOK, NEW r \in Requests, Rest(r), RowsGoOn,
           NEW x \in Requests, x # r, Carries(x),
           \A d \in Docs : rows'[d] = rows[d] \/ (req[x].doc = d => req'[x].stale)
    PROVE  Carries(x)'
<1>1. req[x].doc \in Docs \union {None}
  BY Typed
<1>2. /\ req'[x].pc = req[x].pc /\ req'[x].user = req[x].user
      /\ req'[x].doc = req[x].doc /\ req'[x].old = req[x].old /\ req'[x].file = req[x].file /\ req'[x].preview = req[x].preview
      /\ req[x].stale => req'[x].stale
  BY DEF Rest
<1>3. req[x].doc # None => rows'[req[x].doc].state # "none"
  BY <1>1 DEF Carries, RowsGoOn
<1>4. req[x].pc = "removeDeleted" => req[x].doc \notin Stored'
  BY <1>1 DEF Carries, RowsGoOn
<1>5. ASSUME req[x].pc = "update", req[x].file = None, ~req'[x].stale, req[x].doc \in Stored'
      PROVE  rows'[req[x].doc] = req[x].old
  BY <1>1, <1>2, <1>5 DEF Carries, Stored
<1> QED
  BY <1>2, <1>3, <1>4, <1>5 DEF Carries

---------------------------------------------------------------------------
\* The documents.  A step leaves document d in order when it leaves its row alone and
\* its files on disk, or a replacement is on its way to the row.
DocKept(d) ==
    /\ rows'[d] = rows[d]
    /\ d \in Stored \ damaged' =>
          /\ d \notin damaged
          /\ \/ Replaced(d)'
             \/ /\ ~Replaced(d)
                /\ \A f \in files : Of(d, f) => f \in files'
                /\ \A p \in previews : Of(d, p[1]) => p \in previews'

LEMMA DocKeptSound ==
    ASSUME TypeOK, NEW r \in Requests, Rest(r), UNCHANGED backup,
           \A x \in Requests : Carries(x),
           NEW d \in Docs, DocSound(d), DocKept(d),
           req'[r].doc = d /\ req'[r].pc = "repoint" => req'[r].preview \in previews'
    PROVE  DocSound(d)'
<1>1. d \in Stored' <=> d \in Stored
  BY DEF DocKept, Stored
<1>2. ASSUME d \in Stored \ damaged', ~Replaced(d)'
      PROVE  /\ d \notin damaged /\ ~Replaced(d)
             /\ \A f \in files : Of(d, f) => f \in files'
             /\ \A p \in previews : Of(d, p[1]) => p \in previews'
  BY <1>2 DEF DocKept
<1>3. ASSUME d \in Stored \ damaged', ~Replaced(d)'
      PROVE  rows[d].file \in files' /\ rows[d].preview \in previews' \union {None}
  <2>1. rows[d].file \in files /\ rows[d].preview \in previews \union {None}
    BY <1>2, <1>3 DEF DocSound
  <2>2. Of(d, rows[d].file)
    BY DEF Of, Names
  <2>3. rows[d].preview # None => Of(d, rows[d].preview[1])
    BY DEF Of, Names
  <2> QED
    BY <1>2, <1>3, <2>1, <2>2, <2>3
<1>4. ASSUME NEW x \in Requests, req'[x].doc = d, req'[x].pc = "repoint", ~req'[x].stale,
             d \in Stored \ damaged', ~Replaced(d)'
      PROVE  req'[x].preview \in previews'
  <2>1. CASE x = r
    BY <1>4, <2>1
  <2>2. CASE x # r
    <3>1. /\ req[x].doc = d /\ req[x].pc = "repoint" /\ ~req[x].stale
          /\ req'[x].preview = req[x].preview /\ req[x].file = None
      BY <1>4, <2>2 DEF Rest, Carries
    <3>2. req[x].preview \in previews
      BY <1>2, <1>4, <3>1 DEF DocSound
    <3>3. Of(d, req[x].preview[1])
      BY <3>1, <3>2, Typed DEF Of, Knows, Names
    <3> QED
      BY <1>2, <1>4, <3>1, <3>2, <3>3
  <2> QED
    BY <2>1, <2>2
<1>5. ASSUME backup.pc = "archived", d \in Stored \ damaged', ~Replaced(d)',
             backup.rows[d].state = "stored", rows[d].file = backup.rows[d].file
      PROVE  backup.rows[d].file \in backup.files
  BY <1>2, <1>5 DEF DocSound
<1>6. rows'[d] = rows[d]
  BY DEF DocKept
<1> QED
  BY <1>1, <1>3, <1>4, <1>5, <1>6 DEF DocSound

---------------------------------------------------------------------------
\* What a step of request r owes the invariant.
LEMMA StepInv ==
    ASSUME Inv, NEW r \in Requests, Rest(r), TypeOK', Naming', RemovesKnown(r), RowsGoOn,
           NewOnDisk(r)', Carries(r)', \A d \in Docs : DocSound(d)',
           \A x \in Requests, d \in Docs :
               x # r => rows'[d] = rows[d] \/ (req[x].doc = d => req'[x].stale)
    PROVE  Inv'
<1>1. ASSUME NEW x \in Requests, x # r PROVE NewOnDisk(x)' /\ Carries(x)'
  BY <1>1, DiskKept, CarriesKept DEF Inv
<1> QED
  BY <1>1 DEF Inv

\* The steps that leave the rows alone: what is removed belongs to a document that is
\* being replaced or is gone.
LEMMA QuietStep ==
    ASSUME Inv, NEW r \in Requests, Rest(r), UNCHANGED <<rows, backup>>, TypeOK',
           \A f \in Files : Knows(r, f)' => req'[r].doc \in Docs /\ Of(req'[r].doc, f),
           \/ req'[r].file = None
           \/ req'[r].file = req[r].file
           \/ Fresh(req'[r].file),
           RemovesKnown(r), NewOnDisk(r)', Carries(r)',
           damaged \subseteq damaged',
           req'[r].pc = "repoint" => req'[r].preview \in previews',
           Replacing(r) => \/ Replacing(r)' /\ req'[r].doc = req[r].doc
                           \/ req[r].doc \in damaged' \/ req[r].doc \notin Stored,
           \/ files \subseteq files' /\ previews \subseteq previews'
           \/ Replacing(r)' /\ req'[r].doc = req[r].doc
           \/ req[r].doc \notin Stored
    PROVE  Inv'
<1>0. TypeOK /\ Naming /\ req[r].doc \in Docs \union {None} /\ None \notin Docs
  BY Typed DEF Inv
<1>1. Naming'
  <2>1. req'[r].file \in Files \union {None}
    BY Typed, <1>0 DEF TypeOK, ReqType
  <2>2. \A f \in Files, d \in Docs : Names(rows'[d], f) => Of(d, f) \/ (d = None /\ req[r].file = f)
    BY DEF Of
  <2> QED
    BY <1>0, <2>1, <2>2, NamingKept
<1>2. RowsGoOn
  BY DEF RowsGoOn, Stored
<1>3. ASSUME NEW d \in Docs PROVE DocKept(d)
  <2> SUFFICES ASSUME d \in Stored, d \notin damaged', ~Replaced(d)'
               PROVE  /\ ~Replaced(d)
                      /\ \A f \in files : Of(d, f) => f \in files'
                      /\ \A p \in previews : Of(d, p[1]) => p \in previews'
    BY DEF DocKept
  <2>1. ~Replaced(d)
    <3> SUFFICES ASSUME NEW x \in Requests, Replacing(x), req[x].doc = d PROVE FALSE
      BY DEF Replaced
    <3>1. CASE x = r
      BY <3>1 DEF Replaced
    <3>2. CASE x # r
      BY <3>2 DEF Replaced, Replacing, At, Rest
    <3> QED
      BY <3>1, <3>2
  <2>2. ASSUME NEW f \in Files, Of(d, f), Knows(r, f) PROVE req[r].doc = d
    <3>1. req[r].doc \in Docs /\ Of(req[r].doc, f)
      BY <1>0, <2>2 DEF Naming, Of
    <3> QED
      BY <1>0, <2>2, <3>1 DEF Naming
  <2>3. req[r].doc = d => files \subseteq files' /\ previews \subseteq previews'
    BY DEF Replaced
  <2>4. \A p \in previews : p[1] \in Files
    BY <1>0, Typed, PreviewParts
  <2> QED
    BY <1>0, <2>1, <2>2, <2>3, <2>4, Typed DEF RemovesKnown
<1>4. \A d \in Docs : DocSound(d)'
  BY <1>0, <1>3, DocKeptSound DEF Inv
<1> QED
  BY <1>0, <1>1, <1>2, <1>4, StepInv

\* The request ends, or goes on to the links: it has forgotten every file.
Forgets(r) ==
    /\ req'[r] \in ReqType /\ req'[r].pc \in {"idle", "unlink", "link"}
    /\ req'[r].old = NoRow /\ req'[r].file = None /\ req'[r].preview = None
    /\ req'[r].pc = "idle" => req'[r].doc = None
    /\ req'[r].pc # "idle" => /\ req'[r].doc \in Docs /\ req'[r].user \in Users
                              /\ rows'[req'[r].doc].state # "none"

LEMMA Forgotten ==
    ASSUME NEW r \in Requests, Forgets(r)
    PROVE  /\ \A f \in Files : ~Knows(r, f)'
           /\ NewOnDisk(r)' /\ Carries(r)' /\ req'[r].pc # "repoint"
<1>1. \A f \in Files : ~Knows(r, f)'
  BY EmptyRecords, NoneAssumption DEF Forgets, Knows, Names
<1>2. NewOnDisk(r)' /\ req'[r].pc # "repoint"
  BY DEF Forgets, NewOnDisk
<1>3. Carries(r)'
  BY NoneAssumption DEF Forgets, Carries
<1> QED
  BY <1>1, <1>2, <1>3

LEMMA LinkingRecord ==
    ASSUME NEW u \in Users \union {None}, NEW d \in Docs, NEW pc \in PCs,
           NEW n, n = [Idle EXCEPT !.pc = pc, !.user = u, !.doc = d]
    PROVE  /\ n \in ReqType /\ n.pc = pc /\ n.user = u /\ n.doc = d /\ n.old = NoRow
           /\ n.file = None /\ n.preview = None /\ n.stale = FALSE
<1>1. Idle \in ReqType /\ d \in Docs \union {None}
  BY EmptyRecords
<1>2. /\ n \in ReqType /\ n.pc = pc /\ n.user = u /\ n.doc = d /\ n.old = Idle.old
      /\ n.file = Idle.file /\ n.preview = Idle.preview /\ n.stale = Idle.stale
  BY <1>1, Zenon DEF ReqType
<1> QED
  BY <1>2, EmptyRecords

LEMMA FinishFields ==
    ASSUME TypeOK, NEW r \in Requests, Finish(r)
    PROVE  Rest(r) /\ Forgets(r) /\ req' \in [Requests -> ReqType]
BY OneRequest, EmptyRecords DEF Finish, Forgets

LEMMA SavingRecord ==
    ASSUME NEW q \in ReqType, NEW f \in Files
    PROVE  LET n == [q EXCEPT !.pc = "preview", !.file = f] IN
           /\ n \in ReqType /\ n.pc = "preview" /\ n.user = q.user /\ n.doc = q.doc
           /\ n.old = q.old /\ n.file = f /\ n.preview = q.preview /\ n.stale = q.stale
<1>1. "preview" \in PCs /\ f \in Files \union {None}
  BY DEF PCs
<1> QED
  BY <1>1, Zenon DEF ReqType

\* A request that begins was idle: it knew nothing.
LEMMA IdleBegins ==
    ASSUME Inv, NEW r \in Requests, NEW q \in ReqType, Start(r, q)
    PROVE  /\ Rest(r) /\ req'[r] = q /\ req' \in [Requests -> ReqType]
           /\ ~Replacing(r)
BY OneRequest DEF Inv, Start, Replacing, At

\* A request reads the row of a document, or only its name.
LEMMA ReadStep ==
    ASSUME Inv, NEW r \in Requests, NEW q \in ReqType, NEW d \in Stored,
           Start(r, q), UNCHANGED <<rows, links, files, previews, backup, damaged, aborts>>,
           q.user \in Users, q.file = None, q.preview = None, q.doc = d,
           \/ q.pc \in {"update", "delete"} /\ q.old = rows[d]
           \/ q.pc = "unlink" /\ q.old = NoRow
    PROVE  Inv'
<1>0. TypeOK /\ d \in Docs /\ rows[d] \in RowType /\ rows[d].state = "stored"
  BY Typed DEF Inv, Stored
<1>3. Rest(r) /\ req'[r] = q /\ req' \in [Requests -> ReqType] /\ ~Replacing(r)
  BY IdleBegins
<1>4. TypeOK'
  BY <1>0, <1>3 DEF TypeOK, Stored
<1>5. \A f \in Files : Knows(r, f)' => req'[r].doc \in Docs /\ Of(req'[r].doc, f)
  BY <1>0, <1>3, EmptyRecords, NoneAssumption DEF Knows, Of, Names
<1>6. NewOnDisk(r)'
  BY <1>3 DEF NewOnDisk
<1>7. Carries(r)'
  BY <1>0, <1>3, NoneAssumption DEF Carries, Stored
<1>8. RemovesKnown(r)
  BY DEF RemovesKnown
<1> QED
  BY <1>3, <1>4, <1>5, <1>6, <1>7, <1>8, QuietStep

LEMMA BeginReadStep ==
    ASSUME Inv, NEW r \in Requests, NEW u \in Users, NEW d \in Docs,
           BeginEdit(r, u, d) \/ BeginDelete(r, u, d)
    PROVE  Inv'
<1>0. /\ d \in Stored /\ rows[d] \in RowType
      /\ Idle \in ReqType /\ u \in Users \union {None} /\ d \in Docs \union {None}
  BY Typed, EmptyRecords DEF Inv, BeginEdit, BeginDelete
<1>1. UNCHANGED <<rows, links, files, previews, backup, damaged, aborts>>
  BY DEF BeginEdit, BeginDelete
<1>2. ASSUME NEW pc \in {"update", "delete"},
             Start(r, [Idle EXCEPT !.pc = pc, !.user = u, !.doc = d, !.old = rows[d]])
      PROVE  Inv'
  <2> DEFINE q == [Idle EXCEPT !.pc = pc, !.user = u, !.doc = d, !.old = rows[d]]
  <2>1. pc \in PCs
    BY <1>2 DEF PCs
  <2>2. /\ q \in ReqType /\ q.pc = pc /\ q.user = u /\ q.doc = d /\ q.old = rows[d]
        /\ q.file = Idle.file /\ q.preview = Idle.preview
    BY <1>0, <2>1, Zenon DEF ReqType
  <2>3. Start(r, q)
    BY <1>2
  <2> HIDE DEF q
  <2>4. q.file = None /\ q.preview = None
    BY <2>2, EmptyRecords
  <2> QED
    BY <1>0, <1>1, <2>2, <2>3, <2>4, ReadStep
<1>3. ASSUME Start(r, [Idle EXCEPT !.pc = "unlink", !.user = u, !.doc = d])
      PROVE  Inv'
  <2> DEFINE q == [Idle EXCEPT !.pc = "unlink", !.user = u, !.doc = d]
  <2>1. "unlink" \in PCs
    BY DEF PCs
  <2>2. /\ q \in ReqType /\ q.pc = "unlink" /\ q.user = u /\ q.doc = d /\ q.old = Idle.old
        /\ q.file = Idle.file /\ q.preview = Idle.preview
    BY <1>0, <2>1, Zenon DEF ReqType
  <2>3. Start(r, q)
    BY <1>3
  <2> HIDE DEF q
  <2>4. q.file = None /\ q.preview = None /\ q.old = NoRow
    BY <2>2, EmptyRecords
  <2> QED
    BY <1>0, <1>1, <2>2, <2>3, <2>4, ReadStep
<1>4. CASE BeginDelete(r, u, d)
  BY <1>2, <1>4, Zenon DEF BeginDelete
<1>5. CASE BeginEdit(r, u, d)
  <2>1. Start(r, IF rows[d].owner = u
                 THEN [Idle EXCEPT !.pc = "update", !.user = u, !.doc = d, !.old = rows[d]]
                 ELSE [Idle EXCEPT !.pc = "unlink", !.user = u, !.doc = d])
    BY <1>5, Zenon DEF BeginEdit
  <2>2. CASE rows[d].owner = u
    BY <1>2, <2>1, <2>2, Zenon
  <2>3. CASE rows[d].owner # u
    BY <1>3, <2>1, <2>3, Zenon
  <2> QED
    BY <2>2, <2>3
<1> QED
  BY <1>4, <1>5

\* An upload saves its file under a new name, for a new document or for one it read.
LEMMA SaveStep ==
    ASSUME Inv, NEW r \in Requests, NEW q \in ReqType, Save(r, q),
           q.user \in Users, q.preview = None,
           \/ q.doc = None /\ q.old = NoRow
           \/ q.doc \in Stored /\ q.old = rows[q.doc]
    PROVE  Inv'
<1>0. TypeOK
  BY DEF Inv
<1>1. PICK f \in Files :
        /\ Fresh(f)
        /\ files' = files \union {f}
        /\ Start(r, [q EXCEPT !.pc = "preview", !.file = f])
        /\ UNCHANGED <<rows, links, previews, backup, damaged, aborts>>
  BY Zenon DEF Save
<1> DEFINE n == [q EXCEPT !.pc = "preview", !.file = f]
<1>2. /\ n \in ReqType /\ n.pc = "preview" /\ n.user = q.user /\ n.doc = q.doc
      /\ n.old = q.old /\ n.file = f /\ n.preview = q.preview
  BY SavingRecord, Zenon
<1>2a. Start(r, n)
  BY <1>1
<1> HIDE DEF n
<1>3. Rest(r) /\ req'[r] = n /\ req' \in [Requests -> ReqType] /\ ~Replacing(r)
  BY <1>2, <1>2a, IdleBegins
<1>4. TypeOK'
  BY <1>0, <1>1, <1>3 DEF TypeOK, Stored
<1>5. f # None
  BY NoneAssumption
<1>6. ASSUME NEW g \in Files, Knows(r, g)' PROVE req'[r].doc \in Docs /\ Of(req'[r].doc, g)
  BY <1>2, <1>3, <1>5, <1>6, EmptyRecords DEF Knows, Of, Stored
<1>7. NewOnDisk(r)'
  BY <1>1, <1>2, <1>3 DEF NewOnDisk
<1>8. Carries(r)'
  BY <1>1, <1>2, <1>3, <1>5, NoneAssumption DEF Carries, Stored
<1>9. RemovesKnown(r)
  BY <1>1 DEF RemovesKnown
<1> QED
  BY <1>1, <1>2, <1>3, <1>4, <1>6, <1>7, <1>8, <1>9, QuietStep

LEMMA BeginSaveStep ==
    ASSUME Inv, NEW r \in Requests, NEW u \in Users,
           BeginCreate(r, u) \/ \E d \in Docs : BeginReplace(r, u, d)
    PROVE  Inv'
<1>0. Idle \in ReqType /\ u \in Users \union {None}
  BY EmptyRecords
<1>1. CASE BeginCreate(r, u)
  <2> DEFINE q == [Idle EXCEPT !.user = u]
  <2>1. /\ q \in ReqType /\ q.user = u /\ q.doc = Idle.doc /\ q.old = Idle.old
        /\ q.preview = Idle.preview
    BY <1>0, Zenon DEF ReqType
  <2>2. q.preview = None /\ q.doc = None /\ q.old = NoRow
    BY <2>1, EmptyRecords
  <2>3. Save(r, q)
    BY <1>1, Zenon DEF BeginCreate
  <2> HIDE DEF q
  <2> QED
    BY <2>1, <2>2, <2>3, SaveStep
<1>2. ASSUME NEW d \in Docs, BeginReplace(r, u, d) PROVE Inv'
  <2> DEFINE q == [Idle EXCEPT !.user = u, !.doc = d, !.old = rows[d]]
  <2>1. d \in Stored /\ Save(r, q)
    BY <1>2, Zenon DEF BeginReplace
  <2>2. rows[d] \in RowType /\ d \in Docs \union {None}
    BY Typed DEF Inv
  <2>3. /\ q \in ReqType /\ q.user = u /\ q.doc = d /\ q.old = rows[d]
        /\ q.preview = Idle.preview
    BY <1>0, <2>2, Zenon DEF ReqType
  <2>4. q.preview = None
    BY <2>3, EmptyRecords
  <2> HIDE DEF q
  <2> QED
    BY <2>1, <2>3, <2>4, SaveStep
<1> QED
  BY <1>1, <1>2

\* The blocking task has made a preview, or none.
LEMMA PreviewStep ==
    ASSUME Inv, NEW r \in Requests, Preview(r)
    PROVE  Inv'
<1>0. TypeOK /\ req[r].pc = "preview" /\ req[r].file \in Files /\ req[r] \in ReqType
  BY Typed DEF Inv, Preview, At, Carries
<1>1. PICK p \in {None, <<req[r].file, 0>>} :
        /\ previews' = previews \union ({p} \ {None})
        /\ req' = [req EXCEPT ![r].preview = p,
                              ![r].pc = IF req[r].doc = None THEN "insert" ELSE "remove"]
        /\ UNCHANGED <<rows, links, files, backup, damaged, aborts>>
  BY DEF Preview
<1>2. p \in PreviewNames \union {None} /\ (p # None => p[1] = req[r].file)
  BY <1>0, <1>1, PreviewParts, BoundAssumption
<1>3. PICK pc \in PCs : pc = IF req[r].doc = None THEN "insert" ELSE "remove"
  BY DEF PCs
<1> DEFINE n == [req[r] EXCEPT !.preview = p, !.pc = pc]
<1>4. /\ n \in ReqType /\ n.pc = pc /\ n.user = req[r].user
      /\ n.doc = req[r].doc /\ n.old = req[r].old
      /\ n.file = req[r].file /\ n.preview = p /\ n.stale = req[r].stale
  BY <1>0, <1>2, Zenon DEF ReqType
<1>5. req' = [req EXCEPT ![r] = n]
  BY <1>1, <1>3
<1> HIDE DEF n
<1>6. Rest(r) /\ req'[r] = n /\ req' \in [Requests -> ReqType]
  BY <1>0, <1>4, <1>5, OneRequest
<1>7. TypeOK'
  BY <1>0, <1>1, <1>2, <1>6 DEF TypeOK, Stored
<1>8. ASSUME NEW f \in Files, Knows(r, f)' PROVE req'[r].doc \in Docs /\ Of(req'[r].doc, f)
  <2>1. Knows(r, f)
    BY <1>0, <1>4, <1>6, <1>8, NoneAssumption DEF Knows
  <2> QED
    BY <1>4, <1>6, <2>1 DEF Inv, Naming, Of
<1>9. NewOnDisk(r)'
  BY <1>0, <1>1, <1>2, <1>4, <1>6 DEF Inv, NewOnDisk
<1>10. Carries(r)'
  BY <1>0, <1>1, <1>3, <1>4, <1>6, NoneAssumption DEF Inv, Carries
<1>11. RemovesKnown(r) /\ ~Replacing(r) /\ req'[r].pc # "repoint"
  BY <1>0, <1>1, <1>3, <1>4, <1>6 DEF RemovesKnown, Replacing, At
<1> QED
  BY <1>1, <1>4, <1>6, <1>7, <1>8, <1>9, <1>10, <1>11, QuietStep

---------------------------------------------------------------------------
\* Removing and linking.
LEMMA KnownIsOf ==
    ASSUME Inv, NEW r \in Requests, NEW f \in Files, Knows(r, f)
    PROVE  req[r].doc \in Docs /\ Of(req[r].doc, f)
BY DEF Inv, Naming, Of

\* What a handler removes, it read in the row.
LEMMA RemovedIsKnown ==
    ASSUME Inv, NEW r \in Requests,
           files' = files \ {req[r].old.file},
           previews' = previews \ {req[r].old.preview}
    PROVE  RemovesKnown(r)
<1>1. None \notin previews
  BY Typed DEF Inv
<1> QED
  BY <1>1 DEF RemovesKnown, Knows, Names

LEMMA RemoveOldStep ==
    ASSUME Inv, NEW r \in Requests, RemoveOld(r)
    PROVE  Inv'
<1>0. /\ TypeOK /\ req[r].pc = "remove" /\ req[r].file # None /\ req[r].file \in Files
      /\ "update" \in PCs
  BY Typed DEF Inv, RemoveOld, At, Carries, PCs
<1>1. /\ files' = files \ {req[r].old.file} /\ previews' = previews \ {req[r].old.preview}
      /\ Goto(r, "update") /\ UNCHANGED <<rows, links, backup, damaged, aborts>>
  BY DEF RemoveOld
<1>2. /\ Rest(r) /\ req' \in [Requests -> ReqType]
      /\ req'[r].pc = "update" /\ req'[r].user = req[r].user /\ req'[r].doc = req[r].doc
      /\ req'[r].old = req[r].old /\ req'[r].file = req[r].file
      /\ req'[r].preview = req[r].preview
  BY <1>0, <1>1, GotoFields
<1>3. RemovesKnown(r)
  BY <1>1, RemovedIsKnown
<1>4. TypeOK'
  BY <1>0, <1>1, <1>2 DEF TypeOK, Stored
<1>5. ~Knows(r, req[r].file)
  BY <1>0, KnownIsOf DEF Inv, Naming, NewIsOwn
<1>6. NewOnDisk(r)'
  BY <1>0, <1>2, <1>3, <1>5 DEF Inv, NewOnDisk, RemovesKnown
<1>7. Carries(r)'
  BY <1>0, <1>1, <1>2 DEF Inv, Carries
<1>8. ASSUME NEW f \in Files, Knows(r, f)' PROVE req'[r].doc \in Docs /\ Of(req'[r].doc, f)
  <2>1. Knows(r, f)
    BY <1>2, <1>8 DEF Knows, Names
  <2> QED
    BY <1>2, <2>1, KnownIsOf
<1>9. Replacing(r)' /\ req'[r].doc = req[r].doc /\ req'[r].pc # "repoint"
  BY <1>0, <1>2 DEF Replacing, At
<1> QED
  BY <1>1, <1>2, <1>3, <1>4, <1>6, <1>7, <1>8, <1>9, QuietStep

\* A request that ends where the rows stay: it leaves a replacement only when its
\* document is gone or counts as damaged.
LEMMA FinishStep ==
    ASSUME Inv, NEW r \in Requests, Finish(r), UNCHANGED <<rows, backup>>, TypeOK',
           RemovesKnown(r), damaged \subseteq damaged',
           Replacing(r) => req[r].doc \in damaged' \/ req[r].doc \notin Stored,
           \/ files \subseteq files' /\ previews \subseteq previews'
           \/ req[r].doc \notin Stored
    PROVE  Inv'
<1>1. Rest(r) /\ Forgets(r)
  BY FinishFields DEF Inv
<1>2. /\ \A f \in Files : ~Knows(r, f)'
      /\ NewOnDisk(r)' /\ Carries(r)' /\ req'[r].pc # "repoint"
  BY <1>1, Forgotten
<1>3. req'[r].file = None
  BY <1>1 DEF Forgets
<1> QED
  BY <1>1, <1>2, <1>3, QuietStep

LEMMA RemoveDeletedStep ==
    ASSUME Inv, NEW r \in Requests, RemoveDeleted(r)
    PROVE  Inv'
<1>1. /\ Finish(r) /\ UNCHANGED <<rows, links, backup, damaged, aborts>>
      /\ files' = files \ {req[r].old.file} /\ previews' = previews \ {req[r].old.preview}
  BY DEF RemoveDeleted
<1>2. req[r].doc \notin Stored /\ ~Replacing(r)
  BY DEF RemoveDeleted, Inv, Carries, At, Replacing
<1>3. req' \in [Requests -> ReqType]
  BY <1>1, FinishFields DEF Inv
<1>4. TypeOK'
  BY <1>1, <1>3 DEF Inv, TypeOK, Stored
<1> QED
  BY <1>1, <1>2, <1>4, RemovedIsKnown, FinishStep

LEMMA UnlinkStep ==
    ASSUME Inv, NEW r \in Requests, Unlink(r)
    PROVE  Inv'
<1>0. /\ TypeOK /\ req[r].pc = "unlink" /\ req[r].file = None /\ "link" \in PCs
      /\ ~Replacing(r)
  BY DEF Inv, Unlink, At, Carries, PCs, Replacing
<1>1. /\ links' \subseteq links /\ UNCHANGED <<rows, files, previews, backup, damaged, aborts>>
      /\ Goto(r, "link") \/ Finish(r)
  BY DEF Unlink
<1>2. req' \in [Requests -> ReqType]
  BY <1>0, <1>1, GotoFields, FinishFields
<1>3. TypeOK'
  BY <1>0, <1>1, <1>2 DEF TypeOK, Stored
<1>4. RemovesKnown(r)
  BY <1>1 DEF RemovesKnown
<1>5. CASE Finish(r)
  BY <1>0, <1>1, <1>3, <1>4, <1>5, FinishStep
<1>6. CASE Goto(r, "link")
  <2>1. /\ Rest(r) /\ req'[r].pc = "link" /\ req'[r].user = req[r].user
        /\ req'[r].doc = req[r].doc /\ req'[r].old = req[r].old
        /\ req'[r].file = req[r].file /\ req'[r].preview = req[r].preview
    BY <1>0, <1>6, GotoFields
  <2>2. NewOnDisk(r)'
    BY <1>0, <2>1 DEF NewOnDisk
  <2>3. Carries(r)'
    BY <1>0, <1>1, <2>1 DEF Inv, Carries
  <2>4. ASSUME NEW f \in Files, Knows(r, f)' PROVE req'[r].doc \in Docs /\ Of(req'[r].doc, f)
    <3>1. Knows(r, f)
      BY <2>1, <2>4 DEF Knows, Names
    <3> QED
      BY <2>1, <3>1, KnownIsOf
  <2> QED
    BY <1>0, <1>1, <1>3, <1>4, <2>1, <2>2, <2>3, <2>4, QuietStep
<1> QED
  BY <1>1, <1>5, <1>6

LEMMA LinkStep ==
    ASSUME Inv, NEW r \in Requests, Link(r)
    PROVE  Inv'
<1>0. TypeOK /\ req[r].pc = "link" /\ req[r].user \in Users /\ ~Replacing(r)
  BY Typed DEF Inv, Link, At, Carries, Replacing
<1>1. /\ Finish(r) /\ UNCHANGED <<rows, files, previews, backup, damaged, aborts>>
      /\ links' = IF req[r].doc \in Stored THEN links \union {<<req[r].doc, req[r].user>>} ELSE links
  BY DEF Link
<1>2. req' \in [Requests -> ReqType]
  BY <1>0, <1>1, FinishFields
<1>3. TypeOK'
  BY <1>0, <1>1, <1>2 DEF TypeOK, Stored
<1>4. RemovesKnown(r)
  BY <1>1 DEF RemovesKnown
<1> QED
  BY <1>0, <1>1, <1>3, <1>4, FinishStep

LEMMA AbortStep ==
    ASSUME Inv, NEW r \in Requests, Abort(r)
    PROVE  Inv'
<1>0. TypeOK /\ (At(r, "preview") => req[r].file \in Files)
  BY Typed DEF Inv, Abort, At, Carries
<1>1. /\ Finish(r) /\ UNCHANGED <<rows, links, files, backup>>
      /\ aborts < MaxAborts /\ aborts' = aborts + 1
      /\ \/ previews' = previews
         \/ At(r, "preview") /\ previews' = previews \union {<<req[r].file, 0>>}
      /\ damaged' = IF Replacing(r) THEN damaged \union {req[r].doc} ELSE damaged
  BY DEF Abort
<1>2. req' \in [Requests -> ReqType]
  BY <1>0, <1>1, FinishFields
<1>3. previews \subseteq previews' /\ previews' \subseteq PreviewNames
  BY <1>0, <1>1, PreviewParts, BoundAssumption DEF TypeOK
<1>4. Replacing(r) => req[r].doc \in Docs
  BY Typed DEF Inv, Carries, Replacing, At
<1>5. damaged \subseteq damaged' /\ damaged' \subseteq Docs
  BY <1>0, <1>1, <1>4 DEF TypeOK
<1>6. aborts' \in 0 .. MaxAborts
  BY <1>0, <1>1, BoundAssumption DEF TypeOK
<1>7. TypeOK'
  BY <1>0, <1>1, <1>2, <1>3, <1>5, <1>6 DEF TypeOK, Stored
<1>8. RemovesKnown(r)
  BY <1>1, <1>3 DEF RemovesKnown
<1> QED
  BY <1>1, <1>3, <1>5, <1>7, <1>8, FinishStep

LEMMA RegenerateStep ==
    ASSUME Inv, NEW r \in Requests, NEW d \in Docs, Regenerate(r, d)
    PROVE  Inv'
<1>0. /\ TypeOK /\ d \in Stored /\ rows[d].file \in files /\ rows[d].file \in Files
      /\ rows[d].state # "none"
      /\ Idle \in ReqType /\ d \in Docs \union {None} /\ "repoint" \in PCs
  BY Typed, EmptyRecords DEF Inv, Regenerate, PCs, Stored
<1>1. PICK n \in 1 .. MaxRegenerated :
        /\ previews' = previews \union {<<rows[d].file, n>>}
        /\ Start(r, [Idle EXCEPT !.pc = "repoint", !.doc = d, !.preview = <<rows[d].file, n>>])
        /\ UNCHANGED <<rows, links, files, backup, damaged, aborts>>
  BY Zenon DEF Regenerate
<1> DEFINE p == <<rows[d].file, n>>
<1> DEFINE q == [Idle EXCEPT !.pc = "repoint", !.doc = d, !.preview = p]
<1>2. p \in PreviewNames /\ p[1] = rows[d].file
  BY <1>0, PreviewParts
<1>3. p \in PreviewNames \union {None}
  BY <1>2
<1>4. /\ q \in ReqType /\ q.pc = "repoint" /\ q.doc = d /\ q.old = Idle.old
      /\ q.file = Idle.file /\ q.preview = p
  BY <1>0, <1>3, Zenon DEF ReqType
<1>5. Start(r, q) /\ previews' = previews \union {p}
  BY <1>1
<1> HIDE DEF q, p
<1>6. q.old = NoRow /\ q.file = None
  BY <1>4, EmptyRecords
<1>7. Rest(r) /\ req'[r] = q /\ req' \in [Requests -> ReqType] /\ ~Replacing(r)
  BY <1>4, <1>5, IdleBegins
<1>8. TypeOK'
  BY <1>0, <1>1, <1>2, <1>5, <1>7 DEF TypeOK, Stored
<1>9. ASSUME NEW f \in Files, Knows(r, f)' PROVE req'[r].doc \in Docs /\ Of(req'[r].doc, f)
  <2>1. f = rows[d].file
    BY <1>2, <1>4, <1>6, <1>7, <1>9, EmptyRecords, NoneAssumption DEF Knows, Names
  <2> QED
    BY <1>4, <1>7, <2>1 DEF Of, Names
<1>10. NewOnDisk(r)'
  BY <1>6, <1>7 DEF NewOnDisk
<1>11. Carries(r)'
  BY <1>0, <1>1, <1>4, <1>6, <1>7, NoneAssumption DEF Carries
<1>12. RemovesKnown(r) /\ req'[r].preview \in previews'
  BY <1>1, <1>4, <1>5, <1>7 DEF RemovesKnown
<1> QED
  BY <1>1, <1>5, <1>6, <1>7, <1>8, <1>9, <1>10, <1>11, <1>12, QuietStep

---------------------------------------------------------------------------
\* The steps that write a row: the one of document d, which the handler had read.
LEMMA RowStep ==
    ASSUME Inv, NEW r \in Requests, NEW d \in Docs, Rest(r), TypeOK',
           UNCHANGED <<files, previews, backup>>,
           \A e \in Docs : e # d => rows'[e] = rows[e] /\ (e \in damaged' <=> e \in damaged),
           \A x \in Requests : x # r /\ req[x].doc = d => req'[x].stale,
           rows[d].state # "none" => rows'[d].state # "none" /\ (d \notin Stored => d \notin Stored'),
           Replacing(r) => req[r].doc = d,
           req'[r].pc \notin {"update", "repoint"}, req'[r].file = None, Carries(r)',
           \A f \in Files : Knows(r, f)' => req'[r].doc \in Docs /\ Of(req'[r].doc, f),
           \A f \in Files : Names(rows'[d], f) => Of(d, f) \/ req[r].file = f,
           DocSound(d)'
    PROVE  Inv'
<1>0. TypeOK /\ Naming /\ d \in Docs \union {None}
  BY DEF Inv
<1>1. \A f \in Files, e \in Docs : Names(rows'[e], f) => Of(e, f) \/ (e = d /\ req[r].file = f)
  <2> SUFFICES ASSUME NEW f \in Files, NEW e \in Docs, Names(rows'[e], f), e # d
               PROVE  Of(e, f)
    BY Zenon
  <2>1. rows'[e] = rows[e]
    OBVIOUS
  <2> QED
    BY <2>1 DEF Of
<1>2. Naming'
  BY <1>0, <1>1, NamingKept
<1>3. RemovesKnown(r) /\ NewOnDisk(r)'
  BY DEF RemovesKnown, NewOnDisk
<1>4. RowsGoOn
  BY DEF RowsGoOn, Stored
<1>5. ASSUME NEW e \in Docs PROVE DocSound(e)'
  <2>1. CASE e # d
    <3>1. Replaced(e) => Replaced(e)'
      BY <2>1 DEF Replaced, Replacing, At, Rest
    <3>2. DocKept(e)
      <4>1. rows'[e] = rows[e] /\ (e \in damaged' <=> e \in damaged)
        BY <2>1
      <4> QED
        BY <3>1, <4>1 DEF DocKept
    <3> QED
      BY <1>0, <3>2, DocKeptSound DEF Inv
  <2> QED
    BY <2>1
<1>6. \A x \in Requests, e \in Docs :
          x # r => rows'[e] = rows[e] \/ (req[x].doc = e => req'[x].stale)
  OBVIOUS
<1> QED
  BY <1>0, <1>2, <1>3, <1>4, <1>5, <1>6, StepInv

\* After writing the row of d the request ends, or goes on with the links of d.
LEMMA ThenLinksRecord ==
    ASSUME TypeOK, NEW r \in Requests, NEW d \in Docs, NEW pc \in {"unlink", "link"},
           NEW q \in ThenLinks(r, d, pc), req[r].user \in Users
    PROVE  /\ q \in ReqType /\ q.pc \in {"idle", pc} /\ q.old = NoRow
           /\ q.file = None /\ q.preview = None
           /\ q.pc = "idle" => q.doc = None
           /\ q.pc # "idle" => q.doc = d /\ q.user \in Users
<1>1. CASE q = Idle
  BY <1>1, EmptyRecords
<1>2. CASE q = [Idle EXCEPT !.pc = pc, !.user = req[r].user, !.doc = d]
  <2>1. /\ Idle \in ReqType /\ pc \in PCs /\ d \in Docs \union {None}
        /\ req[r].user \in Users \union {None}
    BY EmptyRecords DEF PCs
  <2> DEFINE n == [Idle EXCEPT !.pc = pc, !.user = req[r].user, !.doc = d]
  <2>2. /\ n \in ReqType /\ n.pc = pc /\ n.user = req[r].user /\ n.doc = d
        /\ n.old = Idle.old /\ n.file = Idle.file /\ n.preview = Idle.preview
    BY <2>1, Zenon DEF ReqType
  <2>3. q = n
    BY <1>2
  <2> HIDE DEF n
  <2> QED
    BY <2>2, <2>3, EmptyRecords
<1> QED
  BY <1>1, <1>2, Zenon DEF ThenLinks

\* What the request leaves behind then.
LEMMA RowWritten ==
    ASSUME TypeOK, NEW r \in Requests, NEW d \in Docs, NEW pc \in {"unlink", "link"},
           NEW q \in ThenLinks(r, d, pc), req[r].user \in Users, Changed(r, d, q),
           rows'[d].state # "none"
    PROVE  /\ Rest(r) /\ req' \in [Requests -> ReqType]
           /\ \A x \in Requests : x # r /\ req[x].doc = d => req'[x].stale
           /\ \A f \in Files : ~Knows(r, f)'
           /\ Carries(r)' /\ req'[r].file = None /\ req'[r].pc \notin {"update", "repoint"}
<1>1. /\ q \in ReqType /\ q.pc \in {"idle", pc} /\ q.old = NoRow
      /\ q.file = None /\ q.preview = None
      /\ q.pc = "idle" => q.doc = None
      /\ q.pc # "idle" => q.doc = d /\ q.user \in Users
  BY ThenLinksRecord
<1>2. /\ Rest(r) /\ req'[r] = q /\ req' \in [Requests -> ReqType]
      /\ \A x \in Requests : x # r /\ req[x].doc = d => req'[x].stale
  BY <1>1, ChangedFields
<1>3. Forgets(r)
  BY <1>1, <1>2 DEF Forgets
<1> QED
  BY <1>1, <1>2, <1>3, Forgotten

LEMMA InsertStep ==
    ASSUME Inv, NEW r \in Requests, Insert(r)
    PROVE  Inv'
<1>0. /\ TypeOK /\ req[r].pc = "insert" /\ req[r].user \in Users /\ req[r].file \in Files
      /\ req[r].preview \in PreviewNames \union {None} /\ None \notin Files
      /\ ~Replacing(r)
  BY Typed DEF Inv, Insert, At, Carries, Replacing
<1>1. PICK d \in Docs :
        /\ rows[d].state = "none"
        /\ rows' = [rows EXCEPT ![d] = [state |-> "stored", owner |-> req[r].user,
                        file |-> req[r].file, preview |-> req[r].preview]]
        /\ \E q \in ThenLinks(r, d, "link") : Changed(r, d, q)
        /\ UNCHANGED <<links, files, previews, backup, damaged, aborts>>
  BY Zenon DEF Insert
<1> DEFINE row == [state |-> "stored", owner |-> req[r].user,
                   file |-> req[r].file, preview |-> req[r].preview]
<1>2. row.state = "stored" /\ row.file = req[r].file /\ row.preview = req[r].preview
  OBVIOUS
<1>2a. row \in RowType
  BY <1>0 DEF RowType
<1>2b. rows' = [rows EXCEPT ![d] = row]
  BY <1>1
<1> HIDE DEF row
<1>3. rows'[d] = row /\ rows' \in [Docs -> RowType] /\ \A e \in Docs : e # d => rows'[e] = rows[e]
  BY <1>0, <1>2a, <1>2b DEF TypeOK
<1>4. /\ Rest(r) /\ req' \in [Requests -> ReqType]
      /\ \A x \in Requests : x # r /\ req[x].doc = d => req'[x].stale
      /\ \A f \in Files : ~Knows(r, f)'
      /\ Carries(r)' /\ req'[r].file = None /\ req'[r].pc \notin {"update", "repoint"}
  <2>1. PICK q \in ThenLinks(r, d, "link") : Changed(r, d, q)
    BY <1>1
  <2> QED
    BY <1>0, <1>2, <1>3, <2>1, RowWritten
<1>5. TypeOK'
  <2>1. Stored \subseteq Stored'
    BY <1>1, <1>2, <1>3 DEF Stored
  <2> QED
    BY <1>0, <1>1, <1>3, <1>4, <2>1 DEF TypeOK
<1>6. ASSUME NEW f \in Files, Names(rows'[d], f) PROVE req[r].file = f
  BY <1>0, <1>2, <1>3, <1>6 DEF Names, Inv, NewOnDisk
<1>7. DocSound(d)'
  <2>1. rows'[d].file \in files' /\ rows'[d].preview \in previews' \union {None}
    BY <1>0, <1>1, <1>2, <1>3 DEF Inv, NewOnDisk
  <2>2. \A x \in Requests : req'[x].doc = d /\ req'[x].pc = "repoint" => req'[x].stale
    BY <1>4 DEF Rest
  <2>3. backup'.rows[d].state # "stored"
    BY <1>1 DEF Inv, DocSound
  <2> QED
    BY <2>1, <2>2, <2>3 DEF DocSound
<1> QED
  BY <1>0, <1>1, <1>3, <1>4, <1>5, <1>6, <1>7, RowStep

\* The row an update writes: what was read, or the new file and preview in it.
LEMMA NewRowFields ==
    ASSUME NEW q \in ReqType
    PROVE  /\ NewRow(q) \in RowType /\ NewRow(q).state = q.old.state
           /\ q.file = None => NewRow(q) = q.old
           /\ q.file # None => NewRow(q).file = q.file /\ NewRow(q).preview = q.preview
<1>1. q.old \in RowType /\ q.file \in Files \union {None} /\ q.preview \in PreviewNames \union {None}
  BY DEF ReqType
<1> DEFINE row == [q.old EXCEPT !.file = q.file, !.preview = q.preview]
<1>2. row \in RowType /\ row.state = q.old.state /\ row.file = q.file /\ row.preview = q.preview
  BY <1>1, Zenon DEF RowType
<1>3. NewRow(q) = IF q.file = None THEN q.old ELSE row
  BY Zenon DEF NewRow
<1> HIDE DEF row
<1> QED
  BY <1>1, <1>2, <1>3

LEMMA UpdateStep ==
    ASSUME Inv, NEW r \in Requests, Update(r)
    PROVE  Inv'
<1>0. /\ TypeOK /\ req[r].pc = "update" /\ req[r] \in ReqType /\ req[r].doc \in Docs
      /\ req[r].user \in Users /\ req[r].old.state = "stored" /\ None \notin Files
      /\ req[r].file \in Files \union {None}
      /\ req[r].preview \in PreviewNames \union {None}
  BY Typed DEF Inv, Update, At, Carries
<1>1. UNCHANGED <<links, files, previews, backup, aborts>>
  BY DEF Update
<1>2. CASE req[r].doc \notin Stored
  <2>1. Finish(r) /\ UNCHANGED <<rows, damaged>>
    BY <1>2 DEF Update
  <2>2. req' \in [Requests -> ReqType]
    BY <1>0, <2>1, FinishFields
  <2>3. TypeOK'
    BY <1>0, <1>1, <2>1, <2>2 DEF TypeOK, Stored
  <2> QED
    BY <1>1, <1>2, <2>1, <2>3, FinishStep DEF RemovesKnown
<1>3. CASE req[r].doc \in Stored
  <2>1. PICK d \in Docs : d = req[r].doc
    BY <1>0
  <2>2. /\ rows' = [rows EXCEPT ![d] = NewRow(req[r])]
        /\ damaged' = IF req[r].file # None THEN damaged \ {d}
                      ELSE IF req[r].stale THEN damaged \union {d} ELSE damaged
        /\ \E next \in ThenLinks(r, d, "unlink") : Changed(r, d, next)
    BY <1>3, <2>1, Zenon DEF Update
  <2> DEFINE row == NewRow(req[r])
  <2>3. /\ row \in RowType /\ row.state = "stored"
        /\ req[r].file = None => row = req[r].old
        /\ req[r].file # None => row.file = req[r].file /\ row.preview = req[r].preview
    BY <1>0, NewRowFields
  <2>4. rows' = [rows EXCEPT ![d] = row]
    BY <2>2
  <2> HIDE DEF row
  <2>5. rows'[d] = row /\ rows' \in [Docs -> RowType] /\ \A e \in Docs : e # d => rows'[e] = rows[e]
    BY <1>0, <2>3, <2>4 DEF TypeOK
  <2>6. d \in Stored' /\ Stored' = Stored
    BY <1>3, <2>1, <2>3, <2>5 DEF Stored
  <2>7. /\ Rest(r) /\ req' \in [Requests -> ReqType]
        /\ \A x \in Requests : x # r /\ req[x].doc = d => req'[x].stale
        /\ \A f \in Files : ~Knows(r, f)'
        /\ Carries(r)' /\ req'[r].file = None /\ req'[r].pc \notin {"update", "repoint"}
    <3>1. PICK q \in ThenLinks(r, d, "unlink") : Changed(r, d, q)
      BY <2>2
    <3> QED
      BY <1>0, <2>3, <2>5, <3>1, RowWritten
  <2>8. TypeOK'
    BY <1>0, <1>1, <2>2, <2>5, <2>6, <2>7 DEF TypeOK
  <2>9. ASSUME NEW f \in Files, Names(rows'[d], f) PROVE Of(d, f) \/ req[r].file = f
    <3>1. CASE req[r].file = None
      <4>1. Knows(r, f)
        BY <2>3, <2>5, <2>9, <3>1 DEF Knows
      <4> QED
        BY <2>1, <4>1 DEF Of
    <3>2. CASE req[r].file # None
      BY <2>3, <2>5, <2>9, <3>2 DEF Names, Inv, NewOnDisk
    <3> QED
      BY <3>1, <3>2
  <2>10. DocSound(d)'
    <3>1. CASE req[r].file # None
      <4>1. rows'[d].file \in files' /\ rows'[d].preview \in previews' \union {None}
        BY <1>0, <1>1, <2>3, <2>5, <3>1 DEF Inv, NewOnDisk
      <4>2. \A x \in Requests : req'[x].doc = d /\ req'[x].pc = "repoint" => req'[x].stale
        BY <2>7 DEF Rest
      <4>3. rows'[d].file # backup'.rows[d].file
        BY <1>0, <1>1, <2>3, <2>5, <3>1 DEF Inv, Naming, NewIsOwn, Names
      <4> QED
        BY <2>3, <2>5, <4>1, <4>2, <4>3 DEF DocSound
    <3>2. CASE req[r].file = None /\ req[r].stale
      BY <2>2, <2>3, <2>5, <3>2 DEF DocSound
    <3>3. CASE req[r].file = None /\ ~req[r].stale
      <4>1. rows'[d] = rows[d] /\ damaged' = damaged
        BY <1>0, <1>3, <2>1, <2>2, <2>3, <2>5, <3>3 DEF Inv, Carries
      <4>2. Replaced(d) => Replaced(d)'
        BY <3>3, <2>7 DEF Replaced, Replacing, At, Rest
      <4>3. DocKept(d)
        BY <1>1, <4>1, <4>2 DEF DocKept
      <4> QED
        BY <1>0, <1>1, <2>7, <4>3, DocKeptSound DEF Inv
    <3> QED
      BY <3>1, <3>2, <3>3
  <2>11. \A e \in Docs : e # d => (e \in damaged' <=> e \in damaged)
    BY <2>2
  <2> QED
    BY <1>1, <2>1, <2>3, <2>5, <2>6, <2>7, <2>8, <2>9, <2>10, <2>11, RowStep
<1> QED
  BY <1>2, <1>3

LEMMA DeleteRowStep ==
    ASSUME Inv, NEW r \in Requests, DeleteRow(r)
    PROVE  Inv'
<1>0. /\ TypeOK /\ req[r].pc = "delete" /\ req[r] \in ReqType /\ req[r].doc \in Docs
      /\ req[r].user # None /\ req[r].file = None /\ rows[req[r].doc].state # "none"
      /\ ~Replacing(r) /\ "removeDeleted" \in PCs
  BY Typed DEF Inv, DeleteRow, At, Carries, Replacing, PCs
<1>1. PICK d \in Docs : d = req[r].doc
  BY <1>0
<1>2. /\ rows' = IF d \in Stored THEN [rows EXCEPT ![d].state = "deleted"] ELSE rows
      /\ links' = links \ ({d} \X Users)
      /\ Changed(r, d, [req[r] EXCEPT !.pc = "removeDeleted"])
      /\ UNCHANGED <<files, previews, backup, damaged, aborts>>
  BY <1>1, Zenon DEF DeleteRow
<1>3. /\ rows'[d] \in RowType /\ rows'[d].state # "none" /\ rows'[d].state # "stored"
      /\ rows'[d].file = rows[d].file /\ rows'[d].preview = rows[d].preview
      /\ rows' \in [Docs -> RowType] /\ \A e \in Docs : e # d => rows'[e] = rows[e]
  <2>1. rows[d] \in RowType /\ "deleted" \in {"none", "stored", "deleted"}
    BY <1>0, Typed
  <2> DEFINE row == [rows[d] EXCEPT !.state = "deleted"]
  <2>2. row \in RowType /\ row.state = "deleted" /\ row.file = rows[d].file /\ row.preview = rows[d].preview
    BY <2>1, Zenon DEF RowType
  <2>3. rows' = IF d \in Stored THEN [rows EXCEPT ![d] = row] ELSE rows
    BY <1>2
  <2> HIDE DEF row
  <2> QED
    BY <1>0, <1>1, <2>1, <2>2, <2>3 DEF TypeOK, Stored
<1> DEFINE n == [req[r] EXCEPT !.pc = "removeDeleted"]
<1>4. /\ n \in ReqType /\ n.pc = "removeDeleted" /\ n.user = req[r].user /\ n.doc = req[r].doc
      /\ n.old = req[r].old /\ n.file = req[r].file /\ n.preview = req[r].preview
  BY <1>0, PcFields, Zenon
<1>5. Changed(r, d, n)
  BY <1>2
<1> HIDE DEF n
<1>6. /\ Rest(r) /\ req'[r] = n /\ req' \in [Requests -> ReqType]
      /\ \A x \in Requests : x # r /\ req[x].doc = d => req'[x].stale
  BY <1>0, <1>4, <1>5, ChangedFields
<1>7. d \notin Stored' /\ \A e \in Docs : e # d => (e \in Stored <=> e \in Stored')
  BY <1>3 DEF Stored
<1>8. TypeOK'
  <2>1. links' \subseteq Stored' \X Users
    BY <1>0, <1>2, <1>7 DEF TypeOK, Stored
  <2> QED
    BY <1>0, <1>2, <1>3, <1>6, <2>1 DEF TypeOK
<1>9. Carries(r)'
  BY <1>0, <1>1, <1>3, <1>4, <1>6, <1>7, NoneAssumption DEF Carries
<1>10. ASSUME NEW f \in Files, Knows(r, f)' PROVE req'[r].doc \in Docs /\ Of(req'[r].doc, f)
  <2>1. Knows(r, f)
    BY <1>4, <1>6, <1>10 DEF Knows, Names
  <2> QED
    BY <1>4, <1>6, <2>1, KnownIsOf
<1>11. \A f \in Files : Names(rows'[d], f) => Of(d, f)
  BY <1>3 DEF Names, Of
<1>12. DocSound(d)'
  BY <1>3, <1>7 DEF DocSound
<1> QED
  BY <1>0, <1>2, <1>3, <1>4, <1>6, <1>7, <1>8, <1>9, <1>10, <1>11, <1>12, RowStep

LEMMA RepointStep ==
    ASSUME Inv, NEW r \in Requests, Repoint(r)
    PROVE  Inv'
<1>0. /\ TypeOK /\ req[r].pc = "repoint" /\ req[r].doc \in Docs
      /\ req[r].file = None /\ req[r].preview \in PreviewNames \union {None}
      /\ ~Replacing(r)
  BY Typed DEF Inv, Repoint, At, Carries, Replacing
<1>1. UNCHANGED <<links, files, previews, backup, aborts>>
  BY DEF Repoint
<1>2. CASE req[r].doc \notin Stored
  <2>1. Finish(r) /\ UNCHANGED <<rows, damaged>>
    BY <1>2 DEF Repoint
  <2>2. req' \in [Requests -> ReqType]
    BY <1>0, <2>1, FinishFields
  <2>3. TypeOK'
    BY <1>0, <1>1, <2>1, <2>2 DEF TypeOK, Stored
  <2> QED
    BY <1>1, <1>2, <2>1, <2>3, FinishStep DEF RemovesKnown
<1>3. CASE req[r].doc \in Stored
  <2>1. PICK d \in Docs : d = req[r].doc
    BY <1>0
  <2>2. /\ rows' = [rows EXCEPT ![d].preview = req[r].preview]
        /\ damaged' = IF req[r].stale THEN damaged \union {d} ELSE damaged
        /\ Changed(r, d, Idle)
    BY <1>3, <2>1, Zenon DEF Repoint
  <2>3. /\ rows'[d] \in RowType /\ rows'[d].state = "stored"
        /\ rows'[d].file = rows[d].file /\ rows'[d].preview = req[r].preview
        /\ rows' \in [Docs -> RowType] /\ \A e \in Docs : e # d => rows'[e] = rows[e]
    <3>1. rows[d] \in RowType /\ rows[d].state = "stored"
      BY <1>0, <1>3, <2>1, Typed DEF Stored
    <3> DEFINE row == [rows[d] EXCEPT !.preview = req[r].preview]
    <3>2. row \in RowType /\ row.state = rows[d].state /\ row.file = rows[d].file /\ row.preview = req[r].preview
      BY <1>0, <3>1, Zenon DEF RowType
    <3>3. rows' = [rows EXCEPT ![d] = row]
      BY <2>2
    <3> HIDE DEF row
    <3> QED
      BY <1>0, <3>1, <3>2, <3>3 DEF TypeOK
  <2>4. /\ Rest(r) /\ req'[r] = Idle /\ req' \in [Requests -> ReqType]
        /\ \A x \in Requests : x # r /\ req[x].doc = d => req'[x].stale
    BY <1>0, <2>2, EmptyRecords, ChangedFields
  <2>5. Forgets(r)
    BY <2>4, EmptyRecords DEF Forgets
  <2>6. /\ \A f \in Files : ~Knows(r, f)'
        /\ Carries(r)' /\ req'[r].file = None /\ req'[r].pc \notin {"update", "repoint"}
    BY <2>4, <2>5, Forgotten, EmptyRecords
  <2>7. Stored' = Stored
    BY <1>3, <2>1, <2>3 DEF Stored
  <2>8. TypeOK'
    BY <1>0, <1>1, <2>2, <2>3, <2>4, <2>7 DEF TypeOK
  <2>9. ASSUME NEW f \in Files, Names(rows'[d], f) PROVE Of(d, f)
    BY <1>0, <2>1, <2>3, <2>9 DEF Names, Of, Knows
  <2>10. DocSound(d)'
    <3>1. Replaced(d) => Replaced(d)'
      BY <1>0, <2>4 DEF Replaced, Replacing, At, Rest
    <3>2. \A x \in Requests : req'[x].doc = d /\ req'[x].pc = "repoint" => req'[x].stale
      BY <2>4, <2>6 DEF Rest
    <3>3. ASSUME d \notin damaged', ~Replaced(d)'
          PROVE  /\ d \in Stored \ damaged /\ ~Replaced(d) /\ ~req[r].stale
                 /\ rows[d].file \in files /\ req[r].preview \in previews
      BY <1>0, <1>3, <2>1, <2>2, <3>1, <3>3 DEF Inv, DocSound
    <3>4. (rows'[d].file \in files' /\ rows'[d].preview \in previews') \/ d \in damaged' \/ Replaced(d)'
      BY <1>1, <2>3, <3>3
    <3>5. ASSUME backup'.pc = "archived", d \notin damaged', ~Replaced(d)',
                 backup'.rows[d].state = "stored", rows'[d].file = backup'.rows[d].file
          PROVE  backup'.rows[d].file \in backup'.files
      BY <1>1, <2>3, <3>3, <3>5 DEF Inv, DocSound
    <3> QED
      BY <2>3, <3>2, <3>4, <3>5 DEF DocSound
  <2>11. \A e \in Docs : e # d => (e \in damaged' <=> e \in damaged)
    BY <2>2
  <2>12. d \in Stored
    BY <1>3, <2>1
  <2> QED
    BY <1>0, <1>1, <2>1, <2>3, <2>4, <2>6, <2>8, <2>9, <2>10, <2>11, <2>12, RowStep
<1> QED
  BY <1>2, <1>3

---------------------------------------------------------------------------
\* The snapshot has the rows as they are; the archive has the files of every row
\* that is still the snapshot's.
LEMMA BackupStep ==
    ASSUME Inv, Backup
    PROVE  Inv'
<1>0. TypeOK /\ UNCHANGED <<rows, links, files, previews, req, damaged, aborts>>
  BY DEF Inv, Backup
<1>1. \A d \in Docs, f \in Files : Of(d, f)' <=> Of(d, f)
  BY <1>0 DEF Of, Knows
<1>2. \A d \in Docs : Replaced(d)' <=> Replaced(d)
  BY <1>0 DEF Replaced, Replacing, At
<1>3. \A r \in Requests : NewOnDisk(r)' /\ Carries(r)'
  BY <1>0 DEF Inv, NewOnDisk, Carries, Stored
<1>4. Stored' = Stored
  BY <1>0 DEF Stored
<1>5. CASE backup.pc = "none" /\ backup' = [backup EXCEPT !.pc = "snapshot", !.rows = rows]
  <2>1. backup'.pc = "snapshot" /\ backup'.rows = rows /\ backup'.files = backup.files
    BY <1>0, <1>5 DEF TypeOK
  <2>2. TypeOK'
    BY <1>0, <1>4, <1>5 DEF TypeOK
  <2>3. Naming'
    BY <1>0, <1>1, <2>1, Typed DEF Inv, Naming, NewIsOwn, Of, Knows
  <2>4. \A d \in Docs : DocSound(d)'
    BY <1>0, <1>2, <1>4, <2>1 DEF Inv, DocSound
  <2> QED
    BY <1>3, <2>2, <2>3, <2>4 DEF Inv
<1>6. CASE backup.pc = "snapshot" /\ backup' = [backup EXCEPT !.pc = "archived", !.files = files]
  <2>1. backup'.pc = "archived" /\ backup'.rows = backup.rows /\ backup'.files = files
    BY <1>0, <1>6 DEF TypeOK
  <2>2. TypeOK'
    BY <1>0, <1>4, <1>6 DEF TypeOK
  <2>3. Naming'
    BY <1>0, <1>1, <2>1, Typed DEF Inv, Naming, NewIsOwn, Of, Knows
  <2>4. \A d \in Docs : DocSound(d)'
    BY <1>0, <1>2, <1>4, <2>1 DEF Inv, DocSound
  <2> QED
    BY <1>3, <2>2, <2>3, <2>4 DEF Inv
<1> QED
  BY <1>5, <1>6, Zenon DEF Backup

---------------------------------------------------------------------------
LEMMA InitInv == Init => Inv
<1> SUFFICES ASSUME Init PROVE Inv
  OBVIOUS
<1>1. /\ \A d \in Docs : rows[d] = NoRow /\ backup.rows[d] = NoRow
      /\ \A r \in Requests : req[r] = Idle
      /\ backup.pc = "none" /\ backup.files = {} /\ damaged = {}
  BY Zenon DEF Init, NoBackup
<1>2. Stored = {}
  BY <1>1, EmptyRecords DEF Stored
<1>3. backup \in [pc : {"none", "snapshot", "archived"}, rows : [Docs -> RowType], files : SUBSET Files]
  BY EmptyRecords DEF Init, NoBackup
<1>4. TypeOK
  BY <1>2, <1>3, EmptyRecords, BoundAssumption DEF Init, TypeOK
<1>5. \A f \in Files, r \in Requests : ~Knows(r, f)
  BY <1>1, EmptyRecords DEF Knows
<1>6. \A f \in Files, d \in Docs : ~Of(d, f)
  BY <1>1, <1>5, EmptyRecords DEF Of
<1>7. Naming /\ \A r \in Requests : NewOnDisk(r)
  BY <1>1, <1>5, <1>6, EmptyRecords DEF Naming, NewIsOwn, NewOnDisk
<1>8. \A r \in Requests : Carries(r)
  BY <1>1, EmptyRecords DEF Carries
<1>9. \A d \in Docs : DocSound(d)
  BY <1>1, <1>2, EmptyRecords DEF DocSound
<1> QED
  BY <1>4, <1>7, <1>8, <1>9 DEF Inv

LEMMA HandlingInv ==
    ASSUME Inv, NEW r \in Requests, Handling(r)
    PROVE  Inv'
<1>1. ASSUME NEW u \in Users, BeginCreate(r, u) PROVE Inv'
  BY <1>1, BeginSaveStep
<1>2. ASSUME NEW u \in Users, NEW d \in Docs, BeginReplace(r, u, d) PROVE Inv'
  BY <1>2, BeginSaveStep
<1>3. ASSUME NEW u \in Users, NEW d \in Docs, BeginEdit(r, u, d) \/ BeginDelete(r, u, d) PROVE Inv'
  BY <1>3, BeginReadStep
<1>4. ASSUME NEW d \in Docs, Regenerate(r, d) PROVE Inv'
  BY <1>4, RegenerateStep
<1>5. CASE \/ Preview(r) \/ Insert(r) \/ RemoveOld(r) \/ Update(r) \/ Unlink(r) \/ Link(r)
           \/ DeleteRow(r) \/ RemoveDeleted(r) \/ Repoint(r) \/ Abort(r)
  BY <1>5, PreviewStep, InsertStep, RemoveOldStep, UpdateStep, UnlinkStep, LinkStep,
     DeleteRowStep, RemoveDeletedStep, RepointStep, AbortStep
<1> QED
  BY <1>1, <1>2, <1>3, <1>4, <1>5, Zenon DEF Handling

LEMMA NextInv == Inv /\ [Next]_vars => Inv'
<1> SUFFICES ASSUME Inv, [Next]_vars PROVE Inv'
  OBVIOUS
<1>1. CASE \E r \in Requests : Handling(r)
  BY <1>1, HandlingInv
<1>2. CASE Backup
  BY <1>2, BackupStep
<1>3. CASE UNCHANGED vars
  <2>1. UNCHANGED <<rows, links, files, previews, req, backup, damaged, aborts>>
    BY <1>3 DEF vars
  <2>2. Stored' = Stored /\ \A d \in Docs : Replaced(d)' <=> Replaced(d)
    BY <2>1 DEF Stored, Replaced, Replacing, At
  <2>3. \A d \in Docs, f \in Files : Of(d, f)' <=> Of(d, f)
    BY <2>1 DEF Of, Knows
  <2>4. TypeOK'
    BY <2>1, <2>2 DEF Inv, TypeOK
  <2>5. Naming'
    BY <2>1, <2>3, <2>4, Typed DEF Inv, Naming, NewIsOwn, Of, Knows
  <2>6. \A r \in Requests : NewOnDisk(r)' /\ Carries(r)'
    BY <2>1, <2>2 DEF Inv, NewOnDisk, Carries
  <2>7. \A d \in Docs : DocSound(d)'
    BY <2>1, <2>2 DEF Inv, DocSound
  <2> QED
    BY <2>4, <2>5, <2>6, <2>7 DEF Inv
<1> QED
  BY <1>1, <1>2, <1>3 DEF Next, Stop

LEMMA SpecInv == Spec => []Inv
BY InitInv, NextInv, PTL DEF Spec

\* Rows, directories and handlers keep their types, and links are of stored rows.
THEOREM TypeCorrect == Spec => []TypeOK
<1>1. Inv => TypeOK
  BY DEF Inv
<1> QED
  BY <1>1, SpecInv, PTL

\* A stored row has its file and its preview on disk, whatever uploads,
\* replacements, deletes and regenerations do at once: but on the way of a
\* replacement, and where a stale row was written back.
THEOREM StoredRowsHaveFiles == Spec => []RowsHaveTheirFiles
<1>1. Inv => RowsHaveTheirFiles
  BY DEF Inv, DocSound, Replaced, RowsHaveTheirFiles, Stored
<1> QED
  BY <1>1, SpecInv, PTL

\* The archive of a backup has the file of every document of its snapshot, though the
\* files were copied after the rows and requests went on: but where the row named a
\* lost file anyway, and where it was deleted or given another file meanwhile.
THEOREM ArchivesAreComplete == Spec => []ArchiveHasItsFiles
<1>1. Inv => ArchiveHasItsFiles
  <2> SUFFICES ASSUME Inv, backup.pc = "archived", NEW d \in Stored \ damaged,
                      backup.rows[d].state = "stored", rows[d].file = backup.rows[d].file,
                      ~Replaced(d)
               PROVE  backup.rows[d].file \in backup.files
    BY DEF ArchiveHasItsFiles, Replaced
  <2> QED
    BY DEF Inv, DocSound, Stored
<1> QED
  BY <1>1, SpecInv, PTL

\* A file belongs to one document: no two rows name the same file, nor does a row
\* name a file another handler has just uploaded.
THEOREM FilesHaveOneDocument ==
    Spec => [](/\ \A d, e \in Docs, f \in Files : Names(rows[d], f) /\ Names(rows[e], f) => d = e
               /\ \A r \in Requests, d \in Docs :
                      req[r].file # None => ~Names(rows[d], req[r].file))
<1> DEFINE OneDocument ==
      /\ \A d, e \in Docs, f \in Files : Names(rows[d], f) /\ Names(rows[e], f) => d = e
      /\ \A r \in Requests, d \in Docs : req[r].file # None => ~Names(rows[d], req[r].file)
<1>1. Inv => OneDocument
  BY DEF Inv, Naming, NewIsOwn, Of
<1> QED
  BY <1>1, SpecInv, PTL

=============================================================================
