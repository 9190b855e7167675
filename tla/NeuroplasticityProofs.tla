------------------------ MODULE NeuroplasticityProofs ------------------------
(***************************************************************************)
(* For every collection of genomes, archives and rows, every sequence of   *)
(* requests, edits, crashes and boots.                                     *)
(***************************************************************************)
EXTENDS Neuroplasticity, FiniteSetTheorems, FunctionTheorems, TLAPS

-----------------------------------------------------------------------------
(* The shapes of an operation. *)

WithArchive == {"unpack", "copy", "load", "swap", "commit"}

LEMMA OperationFacts ==
  ASSUME NEW o \in Operation
  PROVE  /\ o.kind = "idle" <=> o = Idle
         /\ o # Idle => o.slug \in Slugs
         /\ o.kind \in WithArchive => o.slug \in Slugs /\ o.archive \in Archive
         /\ o.kind \in {"copy", "load"} => o.existed \in BOOLEAN
         /\ o.kind = "pack" => o.manifest \in Manifest /\ o.rows \in Bundle
         /\ o.kind \in WithArchive \cup {"idle", "save", "register", "regraft", "pack"}
BY DEF Operation, Idle, WithArchive

LEMMA OperationShapes ==
  /\ Idle \in Operation /\ Idle.kind = "idle"
  /\ \A k \in {"unpack", "swap", "commit"}, s \in Slugs, a \in Archive :
       /\ [kind |-> k, slug |-> s, archive |-> a] \in Operation
       /\ [kind |-> k, slug |-> s, archive |-> a] # Idle
  /\ \A k \in {"save", "register", "regraft"}, s \in Slugs :
       /\ [kind |-> k, slug |-> s] \in Operation
       /\ [kind |-> k, slug |-> s] # Idle
  /\ \A k \in {"copy", "load"}, s \in Slugs, a \in Archive, e \in BOOLEAN :
       /\ [kind |-> k, slug |-> s, archive |-> a, existed |-> e] \in Operation
       /\ [kind |-> k, slug |-> s, archive |-> a, existed |-> e] # Idle
  /\ \A s \in Slugs, m \in Manifest, b \in Bundle :
       /\ [kind |-> "pack", slug |-> s, manifest |-> m, rows |-> b] \in Operation
       /\ [kind |-> "pack", slug |-> s, manifest |-> m, rows |-> b] # Idle
<1>1. \A k, s : [kind |-> k, slug |-> s].kind = k
  OBVIOUS
<1>2. \A k, s, a : [kind |-> k, slug |-> s, archive |-> a].kind = k
  OBVIOUS
<1>3. \A k, s, a, e : [kind |-> k, slug |-> s, archive |-> a, existed |-> e].kind = k
  OBVIOUS
<1>4. \A k, s, m, b : [kind |-> k, slug |-> s, manifest |-> m, rows |-> b].kind = k
  OBVIOUS
<1> QED BY <1>1, <1>2, <1>3, <1>4 DEF Operation, Idle

LEMMA LoadShape ==
  ASSUME NEW o \in Operation, o.kind = "copy"
  PROVE  /\ [o EXCEPT !.kind = "load"] \in Operation
         /\ [o EXCEPT !.kind = "load"].kind = "load"
         /\ [o EXCEPT !.kind = "load"].slug = o.slug
         /\ [o EXCEPT !.kind = "load"].archive = o.archive
         /\ [o EXCEPT !.kind = "load"].existed = o.existed
<1>1. o \in [kind : {"copy", "load"}, slug : Slugs, archive : Archive, existed : BOOLEAN]
  BY DEF Operation, Idle
<1>2. [o EXCEPT !.kind = "load"]
        \in [kind : {"copy", "load"}, slug : Slugs, archive : Archive, existed : BOOLEAN]
  BY <1>1
<1> QED BY <1>1, <1>2 DEF Operation

LEMMA CommitShape ==
  ASSUME NEW o \in Operation, o.kind = "swap"
  PROVE  /\ [o EXCEPT !.kind = "commit"] \in Operation
         /\ [o EXCEPT !.kind = "commit"].kind = "commit"
         /\ [o EXCEPT !.kind = "commit"].slug = o.slug
         /\ [o EXCEPT !.kind = "commit"].archive = o.archive
<1>1. o \in [kind : {"unpack", "swap", "commit"}, slug : Slugs, archive : Archive]
  BY DEF Operation, Idle
<1>2. [o EXCEPT !.kind = "commit"]
        \in [kind : {"unpack", "swap", "commit"}, slug : Slugs, archive : Archive]
  BY <1>1
<1> QED BY <1>1, <1>2 DEF Operation

(* The values that are written. *)

LEMMA TreeFacts ==
  ASSUME NEW a \in Archive
  PROVE  /\ Tree(a) \in GraftTree /\ Tree(a).manifest = a.manifest
         /\ \A t \in GraftTree \cup {None} :
              Merged(t, a) \in GraftTree /\ Merged(t, a).manifest = a.manifest
BY DEF Tree, Merged, Archive, GraftTree, Media

(* What a request writes into a row.                                       *)
Renewed(r, m)  == [r EXCEPT !.status = "INSTALLED", !.version = m.version, !.hash = m, !.json = m]
Upgrading(r, m) == [r EXCEPT !.version = m.version, !.hash = m, !.json = m]
Saving(r, m)   == [r EXCEPT !.version = m.version, !.json = m]
Emptied(r)     == [r EXCEPT !.hash = None, !.json = None]

LEMMA ModifierFields ==
  ASSUME NEW r \in Modifier, NEW m \in Manifest
  PROVE  /\ m # None /\ r # None /\ r.genome \in Genomes
         /\ \A x \in {Renewed(r, m), Upgrading(r, m), Saving(r, m)} :
              x \in Modifier /\ x # None /\ x.json = m /\ x.genome = r.genome
         /\ \A x \in {Emptied(r), Flagged(r)} :
              x \in Modifier /\ x # None /\ x.genome = r.genome
         /\ Flagged(r).json = r.json
         /\ Renewed(r, m).status = "INSTALLED" /\ Flagged(r).status = "BROKEN"
         /\ Renewed(r, m).hash = m
         /\ \A x \in {Upgrading(r, m), Saving(r, m), Emptied(r)} : x.status = r.status
<1>1. m # None /\ r # None /\ m.version \in Nat /\ m \in Manifest \cup {None}
  BY NoneAssumption DEF Manifest
<1>2. /\ Renewed(r, m) \in Modifier /\ Upgrading(r, m) \in Modifier /\ Saving(r, m) \in Modifier
      /\ Emptied(r) \in Modifier /\ Flagged(r) \in Modifier
  BY <1>1 DEF Modifier, Renewed, Upgrading, Saving, Emptied, Flagged
<1>3. /\ \A x \in {Renewed(r, m), Upgrading(r, m), Saving(r, m)} :
           x.json = m /\ x.genome = r.genome
      /\ Renewed(r, m).hash = m
      /\ Renewed(r, m).status = "INSTALLED" /\ Flagged(r).status = "BROKEN"
      /\ \A x \in {Upgrading(r, m), Saving(r, m), Emptied(r)} : x.status = r.status
  BY DEF Modifier, Renewed, Upgrading, Saving, Emptied, Flagged
<1>4. /\ Flagged(r).json = r.json
      /\ \A x \in {Emptied(r), Flagged(r)} : x.genome = r.genome
  BY DEF Modifier, Emptied, Flagged
<1> QED BY <1>1, <1>2, <1>3, <1>4, NoneAssumption DEF Modifier

LEMMA OwnedFacts ==
  ASSUME NEW g \in Genomes, NEW data \in Fields
  PROVE  Owned(g, data) \in OwnedRow /\ Owned(g, data) # None
<1>1. Owned(g, data) \in OwnedRow
  BY DEF Owned, Fields, OwnedRow
<1> QED BY <1>1, NoneAssumption

LEMMA StampedFacts ==
  ASSUME NEW a \in Archive, NEW g \in Genomes, NEW table \in [Pks -> OwnedRow \cup {None}]
  PROVE  Stamped(a, g, table) \in [Pks -> OwnedRow \cup {None}]
<1>1. \A p \in Holds(a.rows) : a.rows[p] \in Fields
  BY DEF Holds, Archive, Bundle
<1> QED BY <1>1, OwnedFacts DEF Stamped

(* A row that has lost its loose keys to S.                                *)
Unlinked(r, S) == [r EXCEPT !.loose = r.loose \ S]

LEMMA UnlinkedFacts ==
  ASSUME NEW r \in OwnedRow, NEW S
  PROVE  /\ Unlinked(r, S) \in OwnedRow /\ Unlinked(r, S) # None
         /\ Unlinked(r, S).genome = r.genome /\ Unlinked(r, S).refs = r.refs
         /\ Unlinked(r, S).loose = r.loose \ S
<1>1. Unlinked(r, S) \in OwnedRow
  BY DEF Unlinked, OwnedRow
<1>2. /\ Unlinked(r, S).genome = r.genome /\ Unlinked(r, S).refs = r.refs
      /\ Unlinked(r, S).loose = r.loose \ S
  BY DEF Unlinked, OwnedRow
<1> QED BY <1>1, <1>2, NoneAssumption

LEMMA WithoutFacts ==
  ASSUME rows \in [Pks -> OwnedRow \cup {None}], NEW S
  PROVE  /\ Without(S) \in [Pks -> OwnedRow \cup {None}]
         /\ \A p \in Doomed(S) \cap Pks : Without(S)[p] = None
         /\ \A p \in Existing \ Doomed(S) : Without(S)[p] = Unlinked(rows[p], Doomed(S))
<1>1. Existing \subseteq Pks /\ \A p \in Existing : rows[p] \in OwnedRow
  BY DEF Existing
<1>2. Without(S) = [p \in Pks |-> IF p \in Existing \ Doomed(S)
                                  THEN Unlinked(rows[p], Doomed(S)) ELSE None]
  BY DEF Without, Unlinked
<1> QED BY <1>1, <1>2, UnlinkedFacts

-----------------------------------------------------------------------------
(* Save-as. *)

LEMMA RenamingFacts ==
  ASSUME NEW own, \E f \in [own -> UnusedPks] : Renames(own, f)
  PROVE  /\ Renaming(own) \in [own -> UnusedPks]
         /\ \A q, r \in own : Renaming(own)[q] = Renaming(own)[r] => q = r
BY DEF Renaming, Renames

(* The clone has its rows under new keys, and its references go with them. *)
LEMMA RemappedFacts ==
  ASSUME rows \in [Pks -> OwnedRow \cup {None}], NEW own \in SUBSET Existing,
         \E f \in [own -> UnusedPks] : Renames(own, f),
         NEW data, data = Remapped(own, Renaming(own))
  PROVE  /\ data \in Bundle
         /\ Cardinality(Holds(data)) = Cardinality(own)
         /\ \A p \in Holds(data) :
              p \in UnusedPks /\ (data[p].refs \cup data[p].loose) \cap own = {}
<1> DEFINE f == Renaming(own)
           keys == {f[q] : q \in own}
           along(S) == {IF r \in own THEN f[r] ELSE r : r \in S}
           row(p) == [refs |-> along(Twin(own, f, p).refs), loose |-> along(Twin(own, f, p).loose)]
<1>1. own \subseteq Pks /\ UnusedPks \subseteq Pks /\ \A p \in UnusedPks : rows[p] = None
  BY GenomesAssumption DEF Existing, UnusedPks
<1>2. f \in [own -> UnusedPks] /\ \A q, r \in own : f[q] = f[r] => q = r
  BY RenamingFacts
<1>3. data = [p \in Pks |-> IF p \in keys THEN row(p) ELSE None]
  BY DEF Remapped
<1> HIDE DEF f
<1>4. ASSUME NEW p \in keys
      PROVE  Twin(own, f, p).refs \subseteq Pks /\ Twin(own, f, p).loose \subseteq Pks
  <2>1. (CHOOSE q \in own : f[q] = p) \in own
    BY <1>4
  <2>2. Twin(own, f, p) \in OwnedRow
    BY <1>1, <2>1 DEF Existing, Twin
  <2> QED BY <2>2 DEF OwnedRow
<1>5. ASSUME NEW S \in SUBSET Pks
      PROVE  along(S) \subseteq Pks /\ along(S) \cap own = {}
  BY <1>1, <1>2 DEF Existing
<1>6. ASSUME NEW p \in keys
      PROVE  /\ row(p) \in Fields /\ row(p) # None
             /\ (row(p).refs \cup row(p).loose) \cap own = {}
  <2> DEFINE hard == along(Twin(own, f, p).refs)
             loose == along(Twin(own, f, p).loose)
  <2>1. hard \subseteq Pks /\ loose \subseteq Pks /\ (hard \cup loose) \cap own = {}
    BY <1>4, <1>5, <1>6
  <2>2. row(p) = [refs |-> hard, loose |-> loose]
    OBVIOUS
  <2> HIDE DEF hard, loose, row
  <2>3. row(p) \in Fields
    BY <2>1, <2>2 DEF Fields
  <2> QED BY <2>1, <2>2, <2>3, NoneAssumption
<1> HIDE DEF row, along
<1>7. data \in Bundle
  BY <1>3, <1>6 DEF Bundle
<1>8. keys \subseteq UnusedPks /\ keys \subseteq Pks
  BY <1>1, <1>2
<1> HIDE DEF keys
<1>9. Holds(data) = keys
  BY <1>3, <1>6, <1>8 DEF Holds
<1>10. Cardinality(keys) = Cardinality(own)
  <2>1. f \in Bijection(own, keys)
    BY <1>2 DEF Bijection, Injection, Surjection, IsInjective, keys
  <2>2. IsFiniteSet(own)
    BY <1>1, GenomesAssumption, FS_Subset
  <2> QED BY <2>1, <2>2, FS_Bijection DEF ExistsBijection
<1>11. ASSUME NEW p \in keys
       PROVE  p \in UnusedPks /\ (data[p].refs \cup data[p].loose) \cap own = {}
  <2>1. data[p] = row(p)
    BY <1>3, <1>8
  <2> QED BY <1>6, <1>8, <2>1
<1> QED BY <1>7, <1>9, <1>10, <1>11

-----------------------------------------------------------------------------
(* What a request relies on while it is served. *)

NeedsRow == {"copy", "load", "swap", "commit", "save", "pack", "regraft"}

OperationHolds ==
  /\ phase # "up" => op = Idle
  /\ op.kind \in NeedsRow => mods[op.slug] # None
  /\ op.kind \in WithArchive => op.archive = zips[op.slug]
  /\ op.kind \in {"copy", "load"} /\ op.slug = Incubator => op.existed
  /\ op.kind = "regraft" => op.slug = Incubator
  /\ op.kind = "register" => grafts[op.slug] # None /\ grafts[op.slug].manifest # None

(* The workspace has its row and its archive, an archive knows its slug,   *)
(* and a row its manifest, the workspace being reset or booted excepted.   *)
ShelvesHold ==
  /\ mods[Incubator] # None /\ zips[Incubator] # None
  /\ \A s \in Slugs : zips[s] # None => zips[s].slug = s
  /\ \A s \in Slugs : mods[s] # None /\ mods[s].json = None =>
       s = Incubator /\ (phase = "graft" \/ op.kind = "regraft")

IInv == TypeOK /\ OperationHolds /\ ShelvesHold

LEMMA InitIInv == Init => IInv
<1> SUFFICES ASSUME Init PROVE IInv
  OBVIOUS
<1> DEFINE row == [genome |-> Factory.manifest.genome, status |-> "INSTALLED",
                   version |-> Factory.manifest.version, hash |-> None, json |-> None]
<1>1. /\ Factory \in Archive /\ Factory # None /\ Factory.slug = Incubator /\ Incubator \in Slugs
      /\ Factory.manifest \in Manifest
  BY ArchivesAssumption, NoneAssumption, GenomesAssumption DEF Archive
<1>2. row \in Modifier /\ row # None
  BY <1>1, NoneAssumption DEF Modifier, Manifest
<1>3. \A p \in DOMAIN Core : Owned(Canonical, Core[p]) \in OwnedRow
  BY GenomesAssumption, CoreAssumption, OwnedFacts
<1> HIDE DEF row
<1>4. /\ mods = [s \in Slugs |-> IF s = Incubator THEN row ELSE None]
      /\ zips = [s \in Slugs |-> IF s = Incubator THEN Factory ELSE None]
  BY DEF Init, row
<1>5. TypeOK
  <2>1. zips \in [Slugs -> Archive \cup {None}] /\ mods \in [Slugs -> Modifier \cup {None}]
    BY <1>1, <1>2, <1>4
  <2>2. rows \in [Pks -> OwnedRow \cup {None}] /\ grafts \in [Slugs -> GraftTree \cup {None}]
    BY <1>3 DEF Init
  <2> QED BY <2>1, <2>2, OperationShapes DEF Init, TypeOK, Phase
<1>6. OperationHolds
  BY DEF Init, OperationHolds, Idle, NeedsRow, WithArchive
<1>7. ShelvesHold
  BY <1>1, <1>2, <1>4 DEF Init, ShelvesHold
<1> QED BY <1>5, <1>6, <1>7 DEF IInv

(* A request that is accepted, with what it is to do next.                 *)
LEMMA AcceptedIInv ==
  ASSUME IInv, phase' = phase, phase = "up", op = Idle, crashed' = crashed, fresh' = FALSE,
         zips' = zips, grafts' \in [Slugs -> GraftTree \cup {None}],
         UNCHANGED <<mods, rows, edit>>, path' \subseteq Slugs,
         op' \in Operation, op'.kind # "idle",
         op'.kind \in NeedsRow => mods[op'.slug] # None,
         op'.kind \in WithArchive => op'.archive = zips[op'.slug],
         op'.kind \in {"copy", "load", "regraft"} => FALSE,
         op'.kind = "register" => grafts'[op'.slug] # None /\ grafts'[op'.slug].manifest # None
  PROVE  IInv'
<1>1. TypeOK'
  BY DEF IInv, TypeOK
<1>2. OperationHolds'
  BY DEF IInv, OperationHolds
<1>3. ShelvesHold'
  BY DEF IInv, ShelvesHold, Idle
<1> QED BY <1>1, <1>2, <1>3 DEF IInv

LEMMA UploadInstallIInv ==
  ASSUME IInv, NEW a \in Uploads, UploadInstall(a) PROVE IInv'
<1>1. a \in Archive /\ a.slug \in Slugs /\ a # None
  BY ArchivesAssumption, NoneAssumption DEF Archive
<1>2. /\ phase = "up" /\ phase' = phase /\ op = Idle /\ crashed' = crashed /\ fresh' = FALSE
      /\ UNCHANGED <<grafts, mods, rows, edit, path>>
      /\ op' = [kind |-> "unpack", slug |-> a.slug, archive |-> a]
      /\ zips' = [zips EXCEPT ![a.slug] = a] /\ zips[a.slug] = None
  BY <1>1 DEF UploadInstall, Request, EnterCatalog, Catalog, Unpack, tables
<1>3. op' \in Operation
  BY <1>1, <1>2, OperationShapes
<1>4. TypeOK'
  BY <1>1, <1>2, <1>3 DEF IInv, TypeOK
<1>5. OperationHolds'
  BY <1>1, <1>2 DEF IInv, TypeOK, OperationHolds, NeedsRow
<1>6. ShelvesHold'
  BY <1>1, <1>2 DEF IInv, TypeOK, ShelvesHold, Idle
<1> QED BY <1>4, <1>5, <1>6 DEF IInv

LEMMA SlugInstallIInv ==
  ASSUME IInv, NEW s \in Slugs, SlugInstall(s) PROVE IInv'
<1>1. zips[s] \in Archive /\ zips[s].slug = s
  BY DEF SlugInstall, Catalog, IInv, TypeOK, ShelvesHold
<1>2. /\ phase = "up" /\ phase' = phase /\ op = Idle /\ crashed' = crashed /\ fresh' = FALSE
      /\ UNCHANGED <<zips, grafts, mods, rows, edit, path>>
      /\ op' = [kind |-> "unpack", slug |-> s, archive |-> zips[s]]
  BY <1>1 DEF SlugInstall, Request, Unpack, files, tables
<1>3. op' \in Operation /\ op'.kind = "unpack" /\ op'.slug = s /\ op'.archive = zips[s]
  BY <1>1, <1>2, OperationShapes
<1>4. path' \subseteq Slugs /\ grafts' \in [Slugs -> GraftTree \cup {None}]
  BY <1>2 DEF IInv, TypeOK
<1> QED BY <1>2, <1>3, <1>4, AcceptedIInv DEF NeedsRow

LEMMA CatalogDeleteIInv ==
  ASSUME IInv, NEW s \in Slugs, CatalogDelete(s) PROVE IInv'
<1>1. /\ phase' = phase /\ op = Idle /\ crashed' = crashed /\ fresh' = FALSE
      /\ UNCHANGED <<grafts, mods, rows, edit, path, op>>
      /\ zips' = [zips EXCEPT ![s] = None] /\ s # Incubator
  BY DEF CatalogDelete, Request, Listed, tables, IInv, ShelvesHold
<1>2. TypeOK'
  BY <1>1 DEF IInv, TypeOK
<1>3. OperationHolds'
  BY <1>1 DEF IInv, OperationHolds, Idle, NeedsRow, WithArchive
<1>4. ShelvesHold'
  BY <1>1, GenomesAssumption DEF IInv, TypeOK, ShelvesHold
<1> QED BY <1>2, <1>3, <1>4 DEF IInv

LEMMA UpgradeIInv ==
  ASSUME IInv, NEW s \in Slugs, NEW allowSame \in BOOLEAN, Upgrade(s, allowSame) PROVE IInv'
<1>1. zips[s] \in Archive /\ mods[s] # None
  BY DEF Upgrade, Catalog, Listed, IInv, TypeOK
<1>2. /\ phase = "up" /\ phase' = phase /\ op = Idle /\ crashed' = crashed /\ fresh' = FALSE
      /\ UNCHANGED <<zips, grafts, mods, rows, edit, path>>
      /\ op' = [kind |-> "swap", slug |-> s, archive |-> zips[s]]
  BY DEF Upgrade, Request, files, tables
<1>3. op' \in Operation /\ op'.kind = "swap" /\ op'.slug = s /\ op'.archive = zips[s]
  BY <1>1, <1>2, OperationShapes
<1>4. path' \subseteq Slugs /\ grafts' \in [Slugs -> GraftTree \cup {None}]
  BY <1>2 DEF IInv, TypeOK
<1> QED BY <1>1, <1>2, <1>3, <1>4, AcceptedIInv

LEMMA SaveIInv ==
  ASSUME IInv, NEW s \in Slugs, Save(s) PROVE IInv'
<1>1. mods[s] # None
  BY DEF Save, Visible, Listed
<1>2. /\ phase = "up" /\ phase' = phase /\ op = Idle /\ crashed' = crashed /\ fresh' = FALSE
      /\ UNCHANGED <<zips, grafts, mods, rows, edit, path>>
      /\ op' = [kind |-> "save", slug |-> s]
  BY DEF Save, Request, files, tables
<1>3. op' \in Operation /\ op'.kind = "save" /\ op'.slug = s
  BY <1>2, OperationShapes
<1>4. path' \subseteq Slugs /\ grafts' \in [Slugs -> GraftTree \cup {None}]
  BY <1>2 DEF IInv, TypeOK
<1> QED BY <1>1, <1>2, <1>3, <1>4, AcceptedIInv DEF WithArchive

(* The tree with another name in its manifest.                             *)
Edited(t) == [t EXCEPT !.manifest = [t.manifest EXCEPT !.name = "edited"]]

LEMMA EditedFacts ==
  ASSUME NEW t \in GraftTree, t.manifest # None
  PROVE  /\ Edited(t) \in GraftTree /\ Edited(t) # None
         /\ Edited(t).manifest.from = t.manifest.from
<1> DEFINE m == [t.manifest EXCEPT !.name = "edited"]
<1>1. m \in Manifest /\ m.from = t.manifest.from
  BY DEF GraftTree, Manifest, Name
<1> HIDE DEF m
<1>2. [t EXCEPT !.manifest = m] \in GraftTree /\ [t EXCEPT !.manifest = m].manifest = m
  BY <1>1 DEF GraftTree
<1> QED BY <1>1, <1>2, NoneAssumption DEF Edited, m

LEMMA EditMetadataIInv ==
  ASSUME IInv, NEW s \in Slugs, EditMetadata(s) PROVE IInv'
<1>1. mods[s] # None
  BY DEF EditMetadata, Visible, Listed
<1>2. /\ phase = "up" /\ phase' = phase /\ op = Idle /\ crashed' = crashed /\ fresh' = FALSE
      /\ UNCHANGED <<zips, mods, rows, edit, path>>
      /\ op' = [kind |-> "save", slug |-> s]
      /\ grafts[s] \in GraftTree /\ grafts[s].manifest # None
      /\ grafts' = [grafts EXCEPT ![s] = Edited(grafts[s])]
  BY DEF EditMetadata, EditGenomeMetadata, Edited, Request, tables, IInv, TypeOK
<1>3. op' \in Operation /\ op'.kind = "save" /\ op'.slug = s
  BY <1>2, OperationShapes
<1>4. path' \subseteq Slugs /\ grafts' \in [Slugs -> GraftTree \cup {None}]
  BY <1>2, EditedFacts DEF IInv, TypeOK
<1> QED BY <1>1, <1>2, <1>3, <1>4, AcceptedIInv DEF WithArchive

LEMMA NewManifestFacts ==
  ASSUME NEW entry \in BOOLEAN, NEW from \in Slugs \cup {None}, Genomes \ UsedGenomes # {}
  PROVE  NewManifest(Minted, entry, from) \in Manifest
<1>1. Minted \in Genomes
  BY DEF Minted
<1> QED BY <1>1 DEF NewManifest, Manifest, Name

LEMMA CreateEmptyIInv ==
  ASSUME IInv, NEW s \in Slugs, CreateEmpty(s) PROVE IInv'
<1> DEFINE m == NewManifest(Minted, FALSE, None)
           t == [manifest |-> m, code |-> "absent", media |-> {}]
<1>1. /\ phase = "up" /\ phase' = phase /\ op = Idle /\ crashed' = crashed /\ fresh' = FALSE
      /\ UNCHANGED <<zips, mods, rows, edit, path>>
      /\ op' = [kind |-> "register", slug |-> s]
      /\ grafts' = [grafts EXCEPT ![s] = t]
  BY DEF CreateEmpty, CreateEmptyGenome, Request, tables
<1>2. m \in Manifest
  BY NewManifestFacts DEF CreateEmpty
<1> HIDE DEF m
<1>3. t \in GraftTree /\ t.manifest = m
  BY <1>2 DEF GraftTree, Code, Media
<1> HIDE DEF t
<1>4. op' \in Operation /\ op'.kind = "register" /\ op'.slug = s
  BY <1>1, OperationShapes
<1>5. /\ path' \subseteq Slugs /\ grafts' \in [Slugs -> GraftTree \cup {None}]
      /\ grafts'[s] # None /\ grafts'[s].manifest # None
  BY <1>1, <1>2, <1>3, NoneAssumption DEF IInv, TypeOK
<1> QED BY <1>1, <1>4, <1>5, AcceptedIInv DEF WithArchive, NeedsRow

(* The archive save-as forges.                                             *)
Forged(src, s, own) ==
  [slug |-> s, manifest |-> NewManifest(Minted, TRUE, src), code |-> "good",
   rows |-> Remapped(own, Renaming(own)), media |-> MediaOf(src)]

LEMMA ForgedFacts ==
  ASSUME IInv, NEW src \in Slugs, NEW s \in Slugs, SaveAs(src, s),
         NEW own, own = Own(mods[src].genome)
  PROVE  /\ Forged(src, s, own) \in Archive
         /\ Forged(src, s, own).slug = s /\ Forged(src, s, own).manifest.from = src
         /\ Forged(src, s, own).rows = Remapped(own, Renaming(own))
         /\ Forged(src, s, own).code = "good"
<1> DEFINE m == NewManifest(Minted, TRUE, src)
           data == Remapped(own, Renaming(own))
<1>1. m \in Manifest /\ m.from = src
  BY NewManifestFacts DEF SaveAs, NewManifest
<1>2. data \in Bundle
  BY RemappedFacts DEF SaveAs, SaveAsGenome, Own, IInv, TypeOK
<1>3. MediaOf(src) \in Media
  BY DEF MediaOf, Media, IInv, TypeOK, GraftTree
<1> HIDE DEF m, data
<1> QED BY <1>1, <1>2, <1>3 DEF Forged, Archive, Code, m, data

LEMMA SaveAsIInv ==
  ASSUME IInv, NEW src \in Slugs, NEW s \in Slugs, SaveAs(src, s) PROVE IInv'
<1> DEFINE a == Forged(src, s, Own(mods[src].genome))
<1>1. a \in Archive /\ a.slug = s /\ a # None
  BY ForgedFacts, NoneAssumption
<1>2. /\ phase = "up" /\ phase' = phase /\ op = Idle /\ crashed' = crashed /\ fresh' = FALSE
      /\ UNCHANGED <<grafts, mods, rows, edit, path>>
      /\ op' = [kind |-> "unpack", slug |-> a.slug, archive |-> a]
      /\ zips' = [zips EXCEPT ![s] = a]
  BY DEF SaveAs, SaveAsGenome, Request, Unpack, tables, Forged
<1> HIDE DEF a
<1>3. op' \in Operation
  BY <1>1, <1>2, OperationShapes
<1>4. TypeOK'
  BY <1>1, <1>2, <1>3 DEF IInv, TypeOK
<1>5. OperationHolds'
  BY <1>1, <1>2 DEF IInv, TypeOK, OperationHolds, NeedsRow
<1>6. ShelvesHold'
  BY <1>1, <1>2 DEF IInv, TypeOK, ShelvesHold, Idle
<1> QED BY <1>4, <1>5, <1>6 DEF IInv

(* A request that is over leaves nothing to hold but the shelves.          *)
LEMMA OverHolds ==
  ASSUME OperationHolds, op' = Idle
  PROVE  OperationHolds'
BY DEF OperationHolds, Idle, NeedsRow, WithArchive

LEMMA InstallBeginIInv == ASSUME IInv, InstallBegin PROVE IInv'
<1> DEFINE s == op.slug
           m == op.archive.manifest
           row == [genome |-> m.genome, status |-> "INSTALLED",
                   version |-> m.version, hash |-> m, json |-> m]
           next == [kind |-> "copy", slug |-> s, archive |-> op.archive,
                    existed |-> mods[s] # None]
<1>1. /\ op \in Operation /\ op.kind = "unpack" /\ phase' = phase
      /\ UNCHANGED <<zips, grafts, rows, edit, path, crashed, fresh>>
  BY DEF InstallBegin, Continue, files, IInv, TypeOK
<1>2. s \in Slugs /\ op.archive \in Archive /\ phase = "up" /\ op.archive = zips[s]
  BY <1>1, OperationFacts DEF WithArchive, IInv, OperationHolds, Idle
<1>3. m \in Manifest /\ m # None
  BY <1>2, NoneAssumption DEF Archive
<1>4. row \in Modifier /\ row # None /\ row.json = m
  BY <1>3, NoneAssumption DEF Modifier, Manifest
<1>5. CASE op' = Idle /\ mods' = mods
  BY <1>1, <1>5, OverHolds, OperationShapes DEF IInv, TypeOK, ShelvesHold
<1>6. CASE op' = next /\ mods' = IF mods[s] # None THEN mods ELSE [mods EXCEPT ![s] = row]
  <2>1. op' \in Operation /\ op'.kind = "copy" /\ op'.slug = s /\ op'.archive = zips[s]
    BY <1>2, <1>6, OperationShapes
  <2>2. op'.existed <=> mods[s] # None
    BY <1>6
  <2> HIDE DEF row, next, m
  <2>3. mods' \in [Slugs -> Modifier \cup {None}]
    BY <1>2, <1>4, <1>6 DEF IInv, TypeOK
  <2>4. /\ \A t \in Slugs \ {s} : mods'[t] = mods[t]
        /\ mods'[s] # None /\ (mods[s] # None => mods'[s] = mods[s])
        /\ mods[s] = None => mods'[s].json # None
    BY <1>2, <1>3, <1>4, <1>6 DEF IInv, TypeOK
  <2>5. TypeOK'
    BY <1>1, <2>1, <2>3 DEF IInv, TypeOK
  <2>6. OperationHolds'
    BY <1>1, <1>2, <2>1, <2>2, <2>4 DEF IInv, OperationHolds, ShelvesHold
  <2>7. ShelvesHold'
    BY <1>1, <2>1, <2>4, GenomesAssumption DEF IInv, ShelvesHold
  <2> QED BY <2>5, <2>6, <2>7 DEF IInv
<1> QED BY <1>1, <1>5, <1>6 DEF InstallBegin

LEMMA InstallCopyIInv == ASSUME IInv, InstallCopy PROVE IInv'
<1>1. /\ op \in Operation /\ op.kind = "copy" /\ phase' = phase
      /\ UNCHANGED <<zips, mods, rows, edit, crashed, fresh>>
      /\ grafts' = [grafts EXCEPT ![op.slug] = Tree(op.archive)]
      /\ path' = path \cup {op.slug} /\ op' = [op EXCEPT !.kind = "load"]
  BY DEF InstallCopy, Continue, tables, IInv, TypeOK
<1>2. op.slug \in Slugs /\ Tree(op.archive) \in GraftTree
  BY <1>1, OperationFacts, TreeFacts DEF WithArchive
<1>3. TypeOK'
  BY <1>1, <1>2, LoadShape DEF IInv, TypeOK
<1>4. OperationHolds'
  BY <1>1, LoadShape DEF IInv, OperationHolds, Idle, NeedsRow, WithArchive
<1>5. ShelvesHold'
  BY <1>1, LoadShape DEF IInv, ShelvesHold
<1> QED BY <1>3, <1>4, <1>5 DEF IInv

(* The row a request is about, brought up to date with an archive.         *)
LEMMA RowFacts ==
  ASSUME IInv, op.kind \in NeedsRow, op.kind \in WithArchive
  PROVE  /\ op.slug \in Slugs /\ op.archive \in Archive /\ op.archive.manifest \in Manifest
         /\ op.archive.manifest # None /\ op.archive.manifest.version \in Nat
         /\ mods[op.slug] \in Modifier /\ mods[op.slug].genome \in Genomes
<1>1. op.slug \in Slugs /\ op.archive \in Archive /\ mods[op.slug] # None
  BY OperationFacts DEF IInv, TypeOK, OperationHolds
<1> QED BY <1>1, NoneAssumption DEF IInv, TypeOK, Archive, Manifest, Modifier

LEMMA InstallLoadIInv == ASSUME IInv, InstallLoad PROVE IInv'
<1> DEFINE s == op.slug
           row == Renewed(mods[s], op.archive.manifest)
<1>1. /\ op.kind = "load" /\ phase' = phase /\ op' = Idle
      /\ UNCHANGED <<zips, grafts, edit, path, crashed, fresh>>
      /\ rows' = Stamped(op.archive, mods[s].genome, rows)
      /\ mods' = [mods EXCEPT ![s] = row]
  BY DEF InstallLoad, Continue, files, Renewed
<1>2. /\ s \in Slugs /\ op.archive \in Archive /\ op.archive.manifest \in Manifest
      /\ mods[s] \in Modifier /\ mods[s].genome \in Genomes
  BY <1>1, RowFacts DEF NeedsRow, WithArchive
<1>3. row \in Modifier /\ row # None /\ row.json # None
  BY <1>2, ModifierFields
<1> HIDE DEF row
<1>4. rows' \in [Pks -> OwnedRow \cup {None}]
  BY <1>1, <1>2, StampedFacts DEF IInv, TypeOK
<1>5. TypeOK'
  BY <1>1, <1>2, <1>3, <1>4, OperationShapes DEF IInv, TypeOK
<1>6. ShelvesHold'
  BY <1>1, <1>2, <1>3, GenomesAssumption DEF IInv, TypeOK, ShelvesHold
<1> QED BY <1>1, <1>5, <1>6, OverHolds DEF IInv

LEMMA InstallFailedIInv == ASSUME IInv, InstallFailed PROVE IInv'
<1>1. /\ op.kind = "load" /\ phase' = phase /\ op' = Idle
      /\ UNCHANGED <<zips, rows, edit, crashed, fresh>>
      /\ path' = path \ {op.slug} /\ grafts' = [grafts EXCEPT ![op.slug] = None]
      /\ mods' = IF op.existed THEN mods ELSE [mods EXCEPT ![op.slug] = None]
  BY DEF InstallFailed, Continue
<1>2. op.slug \in Slugs /\ (op.slug = Incubator => op.existed)
  BY <1>1, RowFacts DEF NeedsRow, WithArchive, IInv, OperationHolds
<1>3. TypeOK'
  BY <1>1, <1>2, OperationShapes DEF IInv, TypeOK
<1>4. ShelvesHold'
  BY <1>1, <1>2, GenomesAssumption DEF IInv, TypeOK, ShelvesHold
<1> QED BY <1>1, <1>3, <1>4, OverHolds DEF IInv

LEMMA OwnFacts ==
  ASSUME NEW g, NEW T \in SUBSET Pks
  PROVE  Own(g) \subseteq Existing /\ Own(g) \subseteq Pks /\ Own(g) \ T \subseteq Pks
BY DEF Own, Existing

LEMMA UninstallIInv == ASSUME IInv, NEW s \in Slugs, Uninstall(s) PROVE IInv'
<1> DEFINE own == Own(mods[s].genome)
<1>1. /\ phase = "up" /\ phase' = phase /\ op = Idle /\ crashed' = crashed /\ fresh' = FALSE
      /\ path' = path \ {s} /\ UNCHANGED files /\ mods[s] # None /\ mods[s] \in Modifier
  BY DEF Uninstall, Request, Visible, Listed, UninstallGenome, ResetIncubator, IInv, TypeOK
<1>2. CASE UNCHANGED <<mods, rows, edit, op>>
  <2>1. TypeOK'
    BY <1>1, <1>2 DEF IInv, TypeOK, files
  <2> QED BY <1>1, <1>2, <2>1, OverHolds DEF IInv, ShelvesHold, files
<1>3. CASE s # Incubator /\ ~Blocked(own) /\ UninstallGenome(s)
  <2>1. /\ rows' = Without(own) /\ mods' = [mods EXCEPT ![s] = None] /\ edit' = edit \ {s}
        /\ op' = op
    BY <1>3 DEF UninstallGenome
  <2>2. TypeOK'
    BY <1>1, <2>1, WithoutFacts DEF IInv, TypeOK, files
  <2>3. ShelvesHold'
    BY <1>1, <1>3, <2>1, GenomesAssumption DEF IInv, TypeOK, ShelvesHold, files
  <2> QED BY <1>1, <2>1, <2>2, <2>3, OverHolds DEF IInv
<1>4. CASE s = Incubator /\ ~Blocked(own) /\ ResetIncubator
  <2> DEFINE row == Emptied(mods[s])
  <2>1. /\ rows' = Without(own) /\ mods' = [mods EXCEPT ![s] = row] /\ edit' = edit
        /\ op' = [kind |-> "regraft", slug |-> Incubator]
    BY <1>4 DEF ResetIncubator, Emptied
  <2>2. row \in Modifier /\ row # None
    BY <1>1, NoneAssumption DEF Emptied, Modifier
  <2> HIDE DEF row
  <2>3. op' \in Operation /\ op'.kind = "regraft" /\ op'.slug = Incubator
    BY <2>1, OperationShapes, GenomesAssumption
  <2>4. TypeOK'
    BY <1>1, <2>1, <2>2, <2>3, WithoutFacts DEF IInv, TypeOK, files
  <2>5. mods'[Incubator] # None
    BY <1>4, <2>1, <2>2, GenomesAssumption DEF IInv, TypeOK
  <2>6. OperationHolds'
    BY <1>1, <2>3, <2>5 DEF IInv, OperationHolds, WithArchive
  <2>7. ShelvesHold'
    BY <1>1, <1>4, <2>1, <2>3, <2>5 DEF IInv, TypeOK, ShelvesHold, files
  <2> QED BY <2>4, <2>6, <2>7 DEF IInv
<1> QED BY <1>1, <1>2, <1>3, <1>4 DEF Uninstall, UninstallGenome, ResetIncubator, tables

(* The workspace is grafted with its archive.                              *)
LEMMA GraftFacts ==
  ASSUME IInv, NEW tree \in GraftTree \cup {None}, Graft(tree),
         NEW a, a = zips[Incubator]
  PROVE  /\ grafts' \in [Slugs -> GraftTree \cup {None}] /\ path' \subseteq Slugs
         /\ grafts'[Incubator] # None /\ grafts'[Incubator].manifest = a.manifest
         /\ \A s \in Slugs \ {Incubator} : grafts'[s] = grafts[s] /\ mods'[s] = mods[s]
         /\ mods' \in [Slugs -> Modifier \cup {None}]
         /\ mods'[Incubator] = Renewed(mods[Incubator], a.manifest)
         /\ mods'[Incubator] # None /\ mods'[Incubator].json # None
         /\ path' = path \cup {Incubator}
<1>1. /\ Incubator \in Slugs /\ a \in Archive /\ mods[Incubator] \in Modifier
      /\ a.manifest \in Manifest
  BY GenomesAssumption DEF IInv, TypeOK, ShelvesHold, Archive
<1>2. \E t \in {Merged(tree, a), tree} :
        /\ grafts' = [grafts EXCEPT ![Incubator] = t]
        /\ t \in GraftTree /\ t # None /\ t.manifest = a.manifest
  BY <1>1, TreeFacts, NoneAssumption DEF Graft
<1> DEFINE row == Renewed(mods[Incubator], a.manifest)
<1>3. mods' = [mods EXCEPT ![Incubator] = row]
  BY DEF Graft, Renewed
<1>4. row \in Modifier /\ row # None /\ row.json # None
  <2> DEFINE r == mods[Incubator]
             m == a.manifest
  <2>1. r \in Modifier /\ m \in Manifest
    BY <1>1
  <2> HIDE DEF r, m
  <2>2. Renewed(r, m) \in Modifier /\ Renewed(r, m) # None /\ Renewed(r, m).json # None
    BY <2>1, ModifierFields
  <2> QED BY <2>2 DEF r, m
<1> HIDE DEF row
<1>5. /\ mods' \in [Slugs -> Modifier \cup {None}] /\ mods'[Incubator] = row
      /\ \A s \in Slugs \ {Incubator} : mods'[s] = mods[s]
  BY <1>1, <1>3, <1>4 DEF IInv, TypeOK
<1>6. /\ grafts' \in [Slugs -> GraftTree \cup {None}]
      /\ grafts'[Incubator] # None /\ grafts'[Incubator].manifest = a.manifest
      /\ \A s \in Slugs \ {Incubator} : grafts'[s] = grafts[s]
  BY <1>1, <1>2 DEF IInv, TypeOK
<1>7. path' = path \cup {Incubator} /\ path' \subseteq Slugs
  BY <1>1 DEF Graft, IInv, TypeOK
<1> QED BY <1>4, <1>5, <1>6, <1>7 DEF row

LEMMA RegraftIInv == ASSUME IInv, Regraft PROVE IInv'
<1>1. /\ op.kind = "regraft" /\ phase' = phase /\ op' = Idle /\ Graft(None)
      /\ UNCHANGED <<zips, rows, edit, crashed, fresh>>
  BY DEF Regraft, Continue
<1>2. TypeOK'
  BY <1>1, GraftFacts, OperationShapes DEF IInv, TypeOK
<1>3. ShelvesHold'
  BY <1>1, GraftFacts DEF IInv, ShelvesHold
<1> QED BY <1>1, <1>2, <1>3, OverHolds DEF IInv

LEMMA UpgradeSwapIInv == ASSUME IInv, UpgradeSwap PROVE IInv'
<1>1. /\ op \in Operation /\ op.kind = "swap" /\ phase' = phase
      /\ UNCHANGED <<zips, mods, rows, edit, crashed, fresh>>
      /\ grafts' = [grafts EXCEPT ![op.slug] = Tree(op.archive)]
      /\ path' = path \cup {op.slug} /\ op' = [op EXCEPT !.kind = "commit"]
  BY DEF UpgradeSwap, Continue, tables, IInv, TypeOK
<1>2. op.slug \in Slugs /\ Tree(op.archive) \in GraftTree
  BY <1>1, OperationFacts, TreeFacts DEF WithArchive
<1>3. TypeOK'
  BY <1>1, <1>2, CommitShape DEF IInv, TypeOK
<1>4. OperationHolds'
  BY <1>1, CommitShape DEF IInv, OperationHolds, Idle, NeedsRow, WithArchive
<1>5. ShelvesHold'
  BY <1>1, CommitShape DEF IInv, ShelvesHold
<1> QED BY <1>3, <1>4, <1>5 DEF IInv

(* A request that ends and leaves all as it is.                            *)
LEMMA EndedIInv ==
  ASSUME IInv, op' = Idle, op.kind # "regraft", UNCHANGED <<files, tables, path, phase, crashed, fresh>>
  PROVE  IInv'
<1>1. TypeOK'
  BY OperationShapes DEF IInv, TypeOK, files, tables
<1>2. ShelvesHold'
  BY DEF IInv, ShelvesHold, files, tables
<1> QED BY <1>1, <1>2, OverHolds DEF IInv

LEMMA UpgradeCommitIInv == ASSUME IInv, UpgradeCommit PROVE IInv'
<1> DEFINE s == op.slug
           row == Upgrading(mods[s], op.archive.manifest)
<1>1. /\ op.kind = "commit" /\ phase' = phase /\ op' = Idle
      /\ UNCHANGED <<zips, grafts, edit, path, crashed, fresh>>
      /\ rows' = Stamped(op.archive, mods[s].genome, Without(Dropped))
      /\ mods' = [mods EXCEPT ![s] = row]
  BY DEF UpgradeCommit, Continue, files, Upgrading, Upgraded
<1>2. /\ s \in Slugs /\ op.archive \in Archive /\ op.archive.manifest \in Manifest
      /\ mods[s] \in Modifier /\ mods[s].genome \in Genomes
  BY <1>1, RowFacts DEF NeedsRow, WithArchive
<1>3. row \in Modifier /\ row # None /\ row.json # None
  BY <1>2, ModifierFields
<1> HIDE DEF row
<1>4. rows' \in [Pks -> OwnedRow \cup {None}]
  BY <1>1, <1>2, StampedFacts, WithoutFacts DEF IInv, TypeOK
<1>5. TypeOK'
  BY <1>1, <1>2, <1>3, <1>4, OperationShapes DEF IInv, TypeOK
<1>6. ShelvesHold'
  BY <1>1, <1>2, <1>3, GenomesAssumption DEF IInv, TypeOK, ShelvesHold
<1> QED BY <1>1, <1>5, <1>6, OverHolds DEF IInv

(* A save finds the manifest of the tree, or the one of the row.           *)
LEMMA ManifestFacts ==
  ASSUME IInv, op.kind = "save"
  PROVE  /\ op.slug \in Slugs /\ ManifestOf(op.slug) \in Manifest
         /\ mods[op.slug] \in Modifier
<1>1. op.slug \in Slugs /\ phase = "up" /\ mods[op.slug] \in Modifier /\ mods[op.slug].json # None
  BY OperationFacts DEF IInv, TypeOK, OperationHolds, ShelvesHold, NeedsRow, Idle
<1> QED BY <1>1 DEF ManifestOf, IInv, TypeOK, GraftTree, Modifier

LEMMA PackedFacts ==
  ASSUME rows \in [Pks -> OwnedRow \cup {None}], NEW own \in SUBSET Existing
  PROVE  Packed(own) \in Bundle
<1>1. \A p \in own : rows[p] \in OwnedRow
  BY DEF Existing
<1>2. \A p \in own : rows[p].refs \in SUBSET Pks /\ rows[p].loose \in SUBSET Pks
  BY <1>1 DEF OwnedRow
<1> QED BY <1>2 DEF Packed, Bundle, Fields

(* The next version of a manifest.                                         *)
Next1(m) == [m EXCEPT !.version = m.version + 1]

LEMMA SaveBeginIInv == ASSUME IInv, SaveBegin PROVE IInv'
<1> DEFINE s == op.slug
           m == Next1(ManifestOf(s))
           row == Saving(mods[s], m)
           data == Packed(Own(mods[s].genome))
<1>1. /\ op.kind = "save" /\ phase' = phase
      /\ UNCHANGED <<zips, grafts, rows, edit, path, crashed, fresh>>
      /\ mods' = [mods EXCEPT ![s] = row]
      /\ op' = [kind |-> "pack", slug |-> s, manifest |-> m, rows |-> data]
  BY DEF SaveBegin, Continue, files, Next1, Saving
<1>2. s \in Slugs /\ mods[s] \in Modifier /\ phase = "up" /\ m \in Manifest
  BY <1>1, ManifestFacts DEF IInv, OperationHolds, Idle, Manifest, Next1
<1>3. row \in Modifier /\ row # None /\ row.json # None
  BY <1>2, ModifierFields
<1>4. data \in Bundle
  BY PackedFacts DEF Own, IInv, TypeOK
<1> HIDE DEF row, m, data
<1>5. op' \in Operation /\ op'.kind = "pack" /\ op'.slug = s
  BY <1>1, <1>2, <1>4, OperationShapes
<1>6. TypeOK'
  BY <1>1, <1>2, <1>3, <1>5 DEF IInv, TypeOK
<1>7. OperationHolds'
  BY <1>1, <1>2, <1>3, <1>5 DEF IInv, TypeOK, OperationHolds, NeedsRow, WithArchive
<1>8. ShelvesHold'
  BY <1>1, <1>2, <1>3, <1>5, GenomesAssumption DEF IInv, TypeOK, ShelvesHold
<1> QED BY <1>6, <1>7, <1>8 DEF IInv

(* The archive a save puts in place.                                       *)
PackedArchive ==
  [slug |-> op.slug, manifest |-> op.manifest, rows |-> op.rows,
   code |-> CodeOf(op.slug), media |-> MediaOf(op.slug)]

LEMMA PackedArchiveFacts ==
  ASSUME IInv, op.kind = "pack"
  PROVE  /\ op.slug \in Slugs /\ PackedArchive \in Archive /\ PackedArchive # None
         /\ PackedArchive.slug = op.slug /\ PackedArchive.manifest = op.manifest
         /\ PackedArchive.rows = op.rows /\ PackedArchive.code = CodeOf(op.slug)
<1>1. op.slug \in Slugs /\ op.manifest \in Manifest /\ op.rows \in Bundle
  BY OperationFacts DEF IInv, TypeOK, Idle
<1>2. CodeOf(op.slug) \in Code /\ MediaOf(op.slug) \in Media
  BY <1>1 DEF CodeOf, MediaOf, Code, Media, IInv, TypeOK, GraftTree
<1> QED BY <1>1, <1>2, NoneAssumption DEF PackedArchive, Archive

LEMMA PackIInv == ASSUME IInv, Pack PROVE IInv'
<1> DEFINE a == PackedArchive
<1>1. /\ op.kind = "pack" /\ phase' = phase /\ op' = Idle
      /\ UNCHANGED <<grafts, mods, rows, edit, path, crashed, fresh>>
      /\ zips' = zips \/ zips' = [zips EXCEPT ![op.slug] = a]
  BY DEF Pack, Continue, tables, PackedArchive
<1>2. op.slug \in Slugs /\ a \in Archive /\ a.slug = op.slug /\ a # None
  BY <1>1, PackedArchiveFacts
<1> HIDE DEF a
<1>3. TypeOK'
  BY <1>1, <1>2, OperationShapes DEF IInv, TypeOK
<1>4. ShelvesHold'
  BY <1>1, <1>2, GenomesAssumption DEF IInv, TypeOK, ShelvesHold
<1> QED BY <1>1, <1>3, <1>4, OverHolds DEF IInv

LEMMA RegisterIInv == ASSUME IInv, Register PROVE IInv'
<1> DEFINE s == op.slug
           m == grafts[s].manifest
           row == [genome |-> m.genome, status |-> "INSTALLED",
                   version |-> m.version, hash |-> m, json |-> m]
<1>1. /\ op.kind = "register" /\ phase' = phase /\ op' = Idle
      /\ UNCHANGED <<zips, grafts, rows, edit, path, crashed, fresh>>
      /\ mods' = [mods EXCEPT ![s] = row]
  BY DEF Register, Continue, files
<1>2. s \in Slugs /\ m \in Manifest /\ m # None
  BY <1>1, OperationFacts, NoneAssumption DEF IInv, TypeOK, OperationHolds, Idle, GraftTree
<1>3. row \in Modifier /\ row # None /\ row.json # None
  BY <1>2, NoneAssumption DEF Modifier, Manifest
<1> HIDE DEF row
<1>4. TypeOK'
  BY <1>1, <1>2, <1>3, OperationShapes DEF IInv, TypeOK
<1>5. ShelvesHold'
  BY <1>1, <1>2, <1>3, GenomesAssumption DEF IInv, TypeOK, ShelvesHold
<1> QED BY <1>1, <1>4, <1>5, OverHolds DEF IInv

-----------------------------------------------------------------------------
(* What users do, and the boots. *)

(* A genome selected for edit has its row, which no failing install takes. *)
EditHolds ==
  /\ edit \subseteq Listed
  /\ op.kind \in {"copy", "load"} /\ ~op.existed => op.slug \notin edit

Base == IInv /\ EditHolds

(* The genome a new row goes to, and the keys it may have.                 *)
EditedSlug == IF edit = {} THEN Incubator ELSE CHOOSE t \in edit : TRUE
NewData    == {NoKeys} \cup UNION {KeysTo(q) : q \in Pks}

LEMMA NewRowFacts ==
  ASSUME Base, NEW data \in NewData
  PROVE  data \in Fields /\ Owned(mods[EditedSlug].genome, data) \in OwnedRow
<1>1. data \in Fields
  BY DEF NewData, NoKeys, KeysTo, Fields
<1>2. EditedSlug \in Slugs /\ mods[EditedSlug] \in Modifier
  <2>1. edit # {} => (CHOOSE t \in edit : TRUE) \in edit
    OBVIOUS
  <2> QED BY <2>1, GenomesAssumption
          DEF EditedSlug, Base, IInv, TypeOK, ShelvesHold, EditHolds, Listed
<1>3. mods[EditedSlug].genome \in Genomes
  BY <1>2 DEF Modifier
<1> QED BY <1>1, <1>3, OwnedFacts

(* What users do to rows while no request is served.                       *)
LEMMA RowsIInv ==
  ASSUME IInv, op = Idle, UNCHANGED <<zips, mods, edit, path, op, phase, crashed>>, fresh' = FALSE,
         rows' \in [Pks -> OwnedRow \cup {None}], grafts' \in [Slugs -> GraftTree \cup {None}]
  PROVE  IInv'
<1>1. TypeOK'
  BY DEF IInv, TypeOK
<1>2. ShelvesHold'
  BY DEF IInv, ShelvesHold
<1> QED BY <1>1, <1>2, OverHolds DEF IInv

LEMMA CreateRowIInv ==
  ASSUME Base, NEW p \in Pks, NEW data \in NewData, CreateRow(p, data) PROVE IInv'
<1>1. /\ rows' = [rows EXCEPT ![p] = Owned(mods[EditedSlug].genome, data)] /\ op = Idle
      /\ UNCHANGED <<zips, grafts, mods, edit, path, op, phase, crashed>> /\ fresh' = FALSE
  BY DEF CreateRow, Meanwhile, EditedSlug, files
<1>2. rows' \in [Pks -> OwnedRow \cup {None}] /\ grafts' \in [Slugs -> GraftTree \cup {None}]
  BY <1>1, NewRowFacts DEF Base, IInv, TypeOK
<1> QED BY <1>1, <1>2, RowsIInv DEF Base

(* One row gets other keys, and stays whose it is.                         *)
Rekeyed(p) ==
  /\ p \in Existing /\ op = Idle
  /\ \E row \in OwnedRow :
       rows' = [rows EXCEPT ![p] = row] /\ row.genome = rows[p].genome
  /\ UNCHANGED <<zips, grafts, mods, edit, path, op, phase, crashed>> /\ fresh' = FALSE

LEMMA RekeyedFacts ==
  ASSUME IInv, NEW p \in Pks, Reparent(p) \/ Relink(p) PROVE Rekeyed(p)
<1>1. /\ p \in Existing /\ op = Idle /\ rows[p] \in OwnedRow /\ Existing \subseteq Pks
      /\ UNCHANGED <<zips, grafts, mods, edit, path, op, phase, crashed>> /\ fresh' = FALSE
  BY DEF Reparent, Relink, Meanwhile, files, Existing, IInv, TypeOK
<1>2. ASSUME NEW refs \in SUBSET Pks
      PROVE  /\ [rows[p] EXCEPT !.refs = refs] \in OwnedRow
             /\ [rows[p] EXCEPT !.refs = refs].genome = rows[p].genome
             /\ [rows[p] EXCEPT !.loose = refs] \in OwnedRow
             /\ [rows[p] EXCEPT !.loose = refs].genome = rows[p].genome
  BY <1>1 DEF OwnedRow
<1>3. ASSUME NEW q \in Pks
      PROVE  /\ \A r \in Pks : (rows[p].refs \ {r}) \cup {q} \in SUBSET Pks
             /\ rows[p].loose \ {q} \in SUBSET Pks /\ rows[p].loose \cup {q} \in SUBSET Pks
  BY <1>1 DEF OwnedRow
<1>4. CASE Reparent(p)
  <2>1. PICK q \in rows[p].refs, r \in Existing :
          rows' = [rows EXCEPT ![p] = [rows[p] EXCEPT !.refs = (rows[p].refs \ {q}) \cup {r}]]
    BY <1>4 DEF Reparent
  <2>2. (rows[p].refs \ {q}) \cup {r} \in SUBSET Pks
    BY <1>1, <2>1 DEF OwnedRow
  <2> QED BY <1>1, <1>2, <2>1, <2>2 DEF Rekeyed
<1>5. CASE Relink(p)
  <2>1. PICK q \in Existing :
          \E loose \in {rows[p].loose \ {q}, rows[p].loose \cup {q}} :
            rows' = [rows EXCEPT ![p] = [rows[p] EXCEPT !.loose = loose]]
    BY <1>5 DEF Relink
  <2> QED BY <1>1, <1>2, <1>3, <2>1 DEF Rekeyed
<1> QED BY <1>4, <1>5

LEMMA RekeyedIInv == ASSUME IInv, NEW p \in Pks, Rekeyed(p) PROVE IInv'
<1>1. rows' \in [Pks -> OwnedRow \cup {None}] /\ grafts' \in [Slugs -> GraftTree \cup {None}]
  BY DEF Rekeyed, IInv, TypeOK
<1> QED BY <1>1, RowsIInv DEF Rekeyed

(* The media of a row that moves: no tree goes, nor changes its manifest,  *)
(* and one that comes has none.                                            *)
LEMMA MoveMediaFacts ==
  ASSUME IInv, NEW p \in Pks, NEW s \in Slugs, MoveMedia(p, s), rows[p].genome # mods[s].genome
  PROVE  /\ grafts' \in [Slugs -> GraftTree \cup {None}]
         /\ \A t \in Slugs : grafts[t] # None =>
              grafts'[t] # None /\ grafts'[t].manifest = grafts[t].manifest
         /\ \A t \in Slugs : grafts[t] = None =>
              grafts'[t] = None \/ grafts'[t].manifest = None
<1>1. grafts \in [Slugs -> GraftTree \cup {None}]
  BY DEF IInv, TypeOK
<1>2. CASE grafts' = grafts
  BY <1>1, <1>2
<1>3. ASSUME NEW t \in Listed, mods[t].genome = rows[p].genome, NEW m \in MediaOf(t),
             grafts' = [grafts EXCEPT
               ![t] = [grafts[t] EXCEPT !.media = grafts[t].media \ {m}],
               ![s] = Carrying(s, {m})]
      PROVE  /\ grafts' \in [Slugs -> GraftTree \cup {None}]
             /\ \A u \in Slugs : grafts[u] # None =>
                  grafts'[u] # None /\ grafts'[u].manifest = grafts[u].manifest
             /\ \A u \in Slugs : grafts[u] = None =>
                  grafts'[u] = None \/ grafts'[u].manifest = None
  <2> DEFINE a == [grafts[t] EXCEPT !.media = grafts[t].media \ {m}]
             b == Carrying(s, {m})
  <2>1. t \in Slugs /\ t # s
    BY <1>3 DEF Listed
  <2>2. grafts[t] \in GraftTree /\ grafts[t] # None /\ m \in {"shipped", "uploaded"}
    BY <1>1, <1>3, <2>1 DEF MediaOf, GraftTree, Media
  <2>3. a \in GraftTree /\ a.manifest = grafts[t].manifest
    BY <2>2 DEF GraftTree, Media
  <2>4. b \in GraftTree /\ b.manifest = IF grafts[s] = None THEN None ELSE grafts[s].manifest
    <3> DEFINE tree == IF grafts[s] = None THEN NoTree ELSE grafts[s]
    <3>1. tree \in GraftTree /\ (grafts[s] = None => tree.manifest = None)
      BY <1>1 DEF NoTree, GraftTree, Code, Media
    <3>2. b = [tree EXCEPT !.media = tree.media \cup {m}]
      BY DEF Carrying
    <3>3. tree.media \cup {m} \in Media
      BY <2>2, <3>1 DEF GraftTree, Media
    <3>4. grafts[s] # None => tree = grafts[s]
      OBVIOUS
    <3> HIDE DEF tree, b
    <3>5. b \in GraftTree /\ b.manifest = tree.manifest
      BY <3>1, <3>2, <3>3 DEF GraftTree
    <3> QED BY <3>1, <3>4, <3>5
  <2> HIDE DEF a, b
  <2>5. /\ grafts'[t] = a /\ grafts'[s] = b /\ \A u \in Slugs \ {s, t} : grafts'[u] = grafts[u]
        /\ grafts' \in [Slugs -> GraftTree \cup {None}]
    BY <1>1, <1>3, <2>1, <2>3, <2>4 DEF a, b
  <2> QED BY <2>1, <2>2, <2>3, <2>4, <2>5, NoneAssumption
<1> QED BY <1>2, <1>3 DEF MoveMedia

LEMMA MoveRowFacts ==
  ASSUME IInv, NEW p \in Pks, NEW s \in Slugs, MoveRow(p, s)
  PROVE  /\ op = Idle /\ UNCHANGED <<zips, mods, edit, path, op, phase, crashed>> /\ fresh' = FALSE
         /\ p \in Existing /\ rows[p].genome # Canonical /\ MoveMedia(p, s)
         /\ rows[p].genome # mods[s].genome /\ mods[s].genome \in Genomes
         /\ Moved(p) \subseteq Existing /\ p \in Moved(p)
         /\ rows' = [q \in Pks |-> IF q \in Moved(p)
                       THEN [rows[q] EXCEPT !.genome = mods[s].genome] ELSE rows[q]]
<1>1. /\ op = Idle /\ UNCHANGED <<zips, mods, edit, path, op, phase, crashed>> /\ fresh' = FALSE
      /\ rows[p] # None /\ rows[p].genome # Canonical /\ MoveMedia(p, s)
      /\ rows[p].genome # mods[s].genome
      /\ rows' = [q \in Pks |-> IF q \in Moved(p)
                    THEN [rows[q] EXCEPT !.genome = mods[s].genome] ELSE rows[q]]
  BY DEF MoveRow, Meanwhile
<1>2. mods[s] \in Modifier
  BY DEF MoveRow, Installed, Listed, IInv, TypeOK
<1>3. Moved(p) \subseteq Existing /\ p \in Moved(p)
  BY <1>1 DEF Moved, PartsOf, Existing
<1> QED BY <1>1, <1>2, <1>3 DEF Existing, Modifier

LEMMA MoveRowIInv == ASSUME IInv, NEW p \in Pks, NEW s \in Slugs, MoveRow(p, s) PROVE IInv'
<1> DEFINE new(q) == [rows[q] EXCEPT !.genome = mods[s].genome]
<1>1. ASSUME NEW q \in Moved(p) PROVE new(q) \in OwnedRow
  <2>1. rows[q] \in OwnedRow /\ mods[s].genome \in Genomes
    BY MoveRowFacts DEF Existing, IInv, TypeOK
  <2> QED BY <2>1 DEF OwnedRow
<1>2. rows' \in [Pks -> OwnedRow \cup {None}]
  <2>1. rows' = [q \in Pks |-> IF q \in Moved(p) THEN new(q) ELSE rows[q]]
    BY MoveRowFacts
  <2> HIDE DEF new
  <2> QED BY <1>1, <2>1 DEF IInv, TypeOK
<1> QED BY <1>2, MoveRowFacts, MoveMediaFacts, RowsIInv

LEMMA PlaceArchiveIInv == ASSUME IInv, NEW a \in Uploads, PlaceArchive(a) PROVE IInv'
<1>1. a \in Archive /\ a.slug \in Slugs /\ a # None
  BY ArchivesAssumption, NoneAssumption DEF Archive
<1>2. /\ zips' = [zips EXCEPT ![a.slug] = a] /\ op = Idle
      /\ UNCHANGED <<grafts, mods, rows, edit, path, op, phase, crashed>> /\ fresh' = FALSE
  BY DEF PlaceArchive, Meanwhile, tables
<1>3. TypeOK'
  BY <1>1, <1>2 DEF IInv, TypeOK
<1>4. ShelvesHold'
  BY <1>1, <1>2, GenomesAssumption DEF IInv, TypeOK, ShelvesHold
<1> QED BY <1>2, <1>3, <1>4, OverHolds DEF IInv

LEMMA SelectForEditIInv == ASSUME IInv, NEW s \in Slugs, SelectForEdit(s) PROVE IInv'
<1>1. /\ UNCHANGED <<zips, grafts, mods, rows, path, op, phase, crashed>> /\ fresh' = FALSE
      /\ edit' \in {{s}, edit \ {s}}
  BY DEF SelectForEdit, Meanwhile, files
<1>2. TypeOK'
  BY <1>1 DEF IInv, TypeOK
<1> QED BY <1>1, <1>2 DEF IInv, OperationHolds, ShelvesHold

(* A tree somebody has edited keeps its manifest.                          *)
EditedTree(t, code) == [t EXCEPT !.code = code, !.media = t.media \cup {"uploaded"}]

LEMMA EditedTreeFacts ==
  ASSUME NEW t \in GraftTree, NEW code \in {"absent", "bad"}
  PROVE  /\ EditedTree(t, code) \in GraftTree /\ EditedTree(t, code) # None
         /\ EditedTree(t, code).manifest = t.manifest
<1>1. EditedTree(t, code) \in GraftTree
  BY DEF EditedTree, GraftTree, Code, Media
<1>2. EditedTree(t, code).manifest = t.manifest
  BY DEF EditedTree, GraftTree
<1> QED BY <1>1, <1>2, NoneAssumption

LEMMA EditTreeIInv ==
  ASSUME IInv, NEW s \in Slugs, NEW code \in {"absent", "bad"}, EditTree(s, code) PROVE IInv'
<1> DEFINE t == EditedTree(grafts[s], code)
<1>1. /\ UNCHANGED <<zips, mods, rows, edit, path, op, phase, crashed>> /\ fresh' = FALSE
      /\ grafts' = [grafts EXCEPT ![s] = t] /\ grafts[s] \in GraftTree
  BY DEF EditTree, Meanwhile, tables, EditedTree, IInv, TypeOK
<1>2. t \in GraftTree /\ t # None /\ t.manifest = grafts[s].manifest
  BY <1>1, EditedTreeFacts
<1> HIDE DEF t
<1>3. TypeOK'
  BY <1>1, <1>2 DEF IInv, TypeOK
<1>4. OperationHolds'
  <2>1. op.kind = "register" => op.slug \in Slugs
    BY OperationFacts DEF IInv, TypeOK, Idle
  <2> QED BY <1>1, <1>2, <2>1 DEF IInv, TypeOK, OperationHolds
<1> QED BY <1>1, <1>3, <1>4 DEF IInv, ShelvesHold

(* What a copy, a removal or a merge that was cut short leaves.            *)
LEMMA PartialFacts ==
  ASSUME NEW t \in GraftTree \cup {None}
  PROVE  /\ Partial(t) \subseteq GraftTree \cup {None}
         /\ \A u \in Partial(t) : u # None => t # None /\ u.manifest \in {None, t.manifest}
<1>1. CASE t = None
  BY <1>1 DEF Partial
<1>2. CASE t # None
  <2> DEFINE U == [manifest : {None, t.manifest}, media : SUBSET t.media,
                   code : IF t.code = "absent" THEN {"absent"} ELSE {"absent", "bad", t.code}]
  <2>1. t \in GraftTree /\ Partial(t) = {None} \cup U
    BY <1>2 DEF Partial
  <2>2. ASSUME NEW u \in U PROVE u \in GraftTree /\ u.manifest \in {None, t.manifest}
    BY <2>1 DEF GraftTree, Code, Media
  <2> HIDE DEF U
  <2> QED BY <1>2, <2>1, <2>2
<1> QED BY <1>1, <1>2

LEMMA HalfMergedFacts ==
  ASSUME NEW t \in GraftTree, NEW a \in Archive
  PROVE  HalfMerged(t, a) \subseteq GraftTree
<1>1. /\ {None, t.manifest, a.manifest} \subseteq Manifest \cup {None}
      /\ {"absent", "bad", t.code, a.code} \subseteq Code
      /\ {t.media \cup more : more \in SUBSET a.media} \subseteq Media
  BY DEF GraftTree, Archive, Code, Media
<1> DEFINE A == {None, t.manifest, a.manifest}
           B == {"absent", "bad", t.code, a.code}
           C == {t.media \cup more : more \in SUBSET a.media}
<1>2. HalfMerged(t, a) = [manifest : A, code : B, media : C]
  BY DEF HalfMerged
<1> HIDE DEF A, B, C
<1>3. A \subseteq Manifest \cup {None} /\ B \subseteq Code /\ C \subseteq Media
  BY <1>1 DEF A, B, C
<1> QED BY <1>2, <1>3 DEF GraftTree

LEMMA TornFacts ==
  ASSUME IInv, NEW s \in Slugs
  PROVE  /\ Torn(s) \subseteq GraftTree \cup {None}
         /\ s # Incubator /\ ~(op.kind \in WithArchive /\ op.slug = s) =>
              \A u \in Torn(s) : u # None => grafts[s] # None /\ u.manifest \in {None, grafts[s].manifest}
         /\ op = Idle /\ s \in Installed /\ s # Incubator => Torn(s) = {}
<1>1. grafts[s] \in GraftTree \cup {None} /\ zips[Incubator] \in Archive
  BY GenomesAssumption DEF IInv, TypeOK, ShelvesHold
<1>2. Tree(zips[Incubator]) \in GraftTree
  BY <1>1, TreeFacts
<1>3. CASE op # Idle /\ op.slug = s
  <2>1. op.kind = "copy" => Tree(op.archive) \in GraftTree
    BY OperationFacts, TreeFacts DEF WithArchive, IInv, TypeOK
  <2>2. op.kind = "regraft" => s = Incubator
    BY <1>3 DEF IInv, OperationHolds
  <2>3. Torn(s) = CASE op.kind = "copy"             -> Partial(Tree(op.archive))
                    [] op.kind \in {"swap", "load"} -> Partial(grafts[s])
                    [] op.kind = "regraft"          -> Partial(grafts[s]) \cup Partial(Tree(zips[s]))
                    [] OTHER                        -> {}
    BY <1>3 DEF Torn
  <2>4. Torn(s) \subseteq GraftTree \cup {None}
    BY <1>1, <1>2, <2>1, <2>2, <2>3, PartialFacts
  <2>5. op.kind \notin WithArchive /\ s # Incubator => Torn(s) = {}
    BY <2>2, <2>3 DEF WithArchive
  <2> QED BY <1>3, <2>4, <2>5
<1>4. CASE ~(op # Idle /\ op.slug = s) /\ phase = "graft" /\ s = Incubator
  <2>1. Torn(s) = IF grafts[s] = None THEN Partial(Tree(zips[s]))
                  ELSE IF grafts[s].manifest # zips[s].manifest THEN HalfMerged(grafts[s], zips[s])
                  ELSE {}
    BY <1>4 DEF Torn
  <2> QED BY <1>1, <1>2, <1>4, <2>1, PartialFacts, HalfMergedFacts
<1>5. CASE ~(op # Idle /\ op.slug = s) /\ ~(phase = "graft" /\ s = Incubator)
  <2>1. Torn(s) = IF phase = "sweep" /\ s \notin Installed THEN Partial(grafts[s]) ELSE {}
    BY <1>5 DEF Torn
  <2> QED BY <1>1, <2>1, PartialFacts
<1> QED BY <1>3, <1>4, <1>5

LEMMA RestartIInv == ASSUME IInv, Restart PROVE IInv'
<1>1. /\ UNCHANGED <<zips, mods, rows, edit>> /\ phase' = "graft" /\ path' = {} /\ op' = Idle
      /\ fresh' = FALSE /\ crashed' \in BOOLEAN
  BY DEF Restart, tables, IInv, TypeOK
<1>2. grafts' \in [Slugs -> GraftTree \cup {None}]
  BY TornFacts DEF Restart, IInv, TypeOK
<1>3. TypeOK'
  BY <1>1, <1>2, OperationShapes DEF IInv, TypeOK, Phase
<1>4. ShelvesHold'
  BY <1>1 DEF IInv, OperationHolds, ShelvesHold
<1> QED BY <1>1, <1>3, <1>4, OverHolds DEF IInv

LEMMA BootStepIInv == ASSUME IInv, BootStep PROVE IInv'
<1>1. CASE BootGraft
  <2>1. /\ phase = "graft" /\ phase' = "sweep" /\ Graft(grafts[Incubator]) /\ op' = op /\ op = Idle
        /\ UNCHANGED <<zips, rows, edit, fresh, crashed>>
    BY <1>1 DEF BootGraft, Boot, IInv, OperationHolds
  <2>2. grafts[Incubator] \in GraftTree \cup {None}
    BY GenomesAssumption DEF IInv, TypeOK
  <2>3. TypeOK'
    BY <2>1, <2>2, GraftFacts DEF IInv, TypeOK, Phase
  <2>4. ShelvesHold'
    BY <2>1, <2>2, GraftFacts DEF IInv, ShelvesHold
  <2> QED BY <2>1, <2>3, <2>4, OverHolds DEF IInv
<1>2. CASE BootSweep
  <2>1. /\ phase = "sweep" /\ phase' = "load" /\ op' = op /\ op = Idle
        /\ UNCHANGED <<zips, mods, rows, edit, path, fresh, crashed>>
        /\ grafts' = [s \in Slugs |-> IF s \in Installed THEN grafts[s] ELSE None]
    BY <1>2 DEF BootSweep, Boot, IInv, TypeOK, OperationHolds
  <2>2. TypeOK'
    BY <2>1 DEF IInv, TypeOK, Phase
  <2>3. ShelvesHold'
    BY <2>1 DEF IInv, ShelvesHold, Idle
  <2> QED BY <2>1, <2>2, <2>3, OverHolds DEF IInv
<1>3. CASE BootLoad
  <2>1. /\ phase = "load" /\ phase' = "mutex" /\ op' = op /\ op = Idle
        /\ UNCHANGED <<zips, grafts, rows, edit, fresh, crashed>> /\ path' \subseteq Slugs
        /\ LET ill == {s \in Installed : grafts[s] # None /\ ~Sound(s)}
           IN  mods' = [s \in Slugs |-> IF s \in ill THEN Flagged(mods[s]) ELSE mods[s]]
    BY <1>3 DEF BootLoad, Boot, IInv, TypeOK, OperationHolds, Installed, Listed
  <2>2. \A s \in Slugs : mods[s] = None \/ mods[s] \in Modifier
    BY DEF IInv, TypeOK
  <2>3. \A r \in Modifier : Flagged(r) \in Modifier /\ Flagged(r) # None /\ Flagged(r).json = r.json
    BY NoneAssumption DEF Flagged, Modifier
  <2>4. mods' \in [Slugs -> Modifier \cup {None}]
    BY <2>1, <2>2, <2>3 DEF Installed, Listed
  <2>5. TypeOK'
    BY <2>1, <2>4 DEF IInv, TypeOK, Phase
  <2>6. ShelvesHold'
    BY <2>1, <2>2, <2>3, GenomesAssumption DEF IInv, ShelvesHold, Installed, Listed, Idle
  <2> QED BY <2>1, <2>5, <2>6, OverHolds DEF IInv
<1>4. CASE BootMutex
  <2>1. /\ phase = "mutex" /\ phase' = "up" /\ op' = op /\ op = Idle /\ fresh' = TRUE
        /\ UNCHANGED <<zips, grafts, mods, rows, path, crashed>>
        /\ edit' = edit \/ edit' = {Incubator}
    BY <1>4 DEF BootMutex, Boot, IInv, OperationHolds
  <2>2. TypeOK'
    BY <2>1, GenomesAssumption DEF IInv, TypeOK, Phase
  <2>3. ShelvesHold'
    BY <2>1 DEF IInv, ShelvesHold, Idle
  <2> QED BY <2>1, <2>2, <2>3, OverHolds DEF IInv
<1> QED BY <1>1, <1>2, <1>3, <1>4 DEF BootStep

LEMMA StutterIInv == ASSUME IInv, UNCHANGED vars PROVE IInv'
<1>1. UNCHANGED <<zips, grafts, mods, rows, edit, path, phase, op, fresh, crashed>>
  BY DEF vars, files, tables, process
<1> QED BY <1>1 DEF IInv, TypeOK, OperationHolds, ShelvesHold

LEMMA NextIInv == ASSUME Base, [Next]_vars PROVE IInv'
<1>1. CASE UNCHANGED vars
  BY <1>1, StutterIInv DEF Base
<1>2. CASE Serve
  BY <1>2, UploadInstallIInv, SlugInstallIInv, CatalogDeleteIInv, UninstallIInv, SaveIInv,
     EditMetadataIInv, CreateEmptyIInv, UpgradeIInv, SaveAsIInv DEF Serve, CatalogInstall, Base
<1>3. CASE UpgradeRefused \/ UpgradeFailed \/ SaveRefused
  BY <1>3, EndedIInv DEF UpgradeRefused, UpgradeFailed, SaveRefused, Continue, Base
<1>4. CASE Proceed /\ ~(UpgradeRefused \/ UpgradeFailed \/ SaveRefused)
  BY <1>4, InstallBeginIInv, InstallCopyIInv, InstallLoadIInv, InstallFailedIInv, RegraftIInv,
     UpgradeSwapIInv, UpgradeCommitIInv, SaveBeginIInv, PackIInv, RegisterIInv
     DEF Proceed, Base
<1>5. CASE Users
  BY <1>5, CreateRowIInv, RekeyedFacts, RekeyedIInv, MoveRowIInv, SelectForEditIInv, EditTreeIInv,
     PlaceArchiveIInv DEF Users, NewData, Base
<1>6. CASE Restart \/ BootStep
  BY <1>6, RestartIInv, BootStepIInv DEF Base
<1> QED BY <1>1, <1>2, <1>3, <1>4, <1>5, <1>6 DEF Next

-----------------------------------------------------------------------------
(* What becomes of the rows of the genomes. *)

(* The actions that leave every row of mods alone.                         *)
LEMMA ModsUnchanged ==
  /\ \A a \in Uploads : UploadInstall(a) => mods' = mods
  /\ \A s \in Slugs :
       /\ SlugInstall(s) \/ CatalogInstall(s) \/ CatalogDelete(s) => mods' = mods
       /\ Save(s) \/ EditMetadata(s) \/ CreateEmpty(s) => mods' = mods
       /\ \A allowSame \in BOOLEAN : Upgrade(s, allowSame) => mods' = mods
       /\ \A src \in Slugs : SaveAs(src, s) => mods' = mods
  /\ InstallCopy \/ UpgradeSwap \/ UpgradeRefused \/ UpgradeFailed => mods' = mods
  /\ SaveRefused \/ Pack => mods' = mods
  /\ Users \/ Restart \/ BootSweep \/ BootMutex => mods' = mods
<1>1. Users => mods' = mods
  BY DEF Users, CreateRow, Reparent, Relink, MoveRow, SelectForEdit, EditTree,
     PlaceArchive, tables
<1>2. /\ InstallCopy \/ UpgradeSwap \/ UpgradeRefused \/ UpgradeFailed => mods' = mods
      /\ SaveRefused \/ Pack => mods' = mods
  BY DEF InstallCopy, UpgradeSwap, UpgradeRefused, UpgradeFailed, SaveRefused, Pack, tables
<1>3. Restart \/ BootSweep \/ BootMutex => mods' = mods
  BY DEF Restart, BootSweep, BootMutex, tables
<1>4. \A a \in Uploads : UploadInstall(a) => mods' = mods
  BY DEF UploadInstall, tables
<1>5. ASSUME NEW s \in Slugs
      PROVE  /\ SlugInstall(s) \/ CatalogInstall(s) \/ CatalogDelete(s) => mods' = mods
             /\ Save(s) \/ EditMetadata(s) \/ CreateEmpty(s) => mods' = mods
             /\ \A allowSame \in BOOLEAN : Upgrade(s, allowSame) => mods' = mods
             /\ \A src \in Slugs : SaveAs(src, s) => mods' = mods
  BY DEF CatalogInstall, SlugInstall, CatalogDelete, Save, EditMetadata, CreateEmpty, Upgrade,
     SaveAs, tables
<1> QED BY <1>1, <1>2, <1>3, <1>4, <1>5

(* A row that an archive, or the manifest of a new tree, creates.          *)
Created(m) ==
  [genome |-> m.genome, status |-> "INSTALLED", version |-> m.version, hash |-> m, json |-> m]

LEMMA CreatedFacts ==
  ASSUME NEW m \in Manifest
  PROVE  /\ Created(m) \in Modifier /\ Created(m) # None /\ m # None
         /\ Created(m).status = "INSTALLED" /\ Created(m).hash = m /\ Created(m).json = m
         /\ Created(m).genome = m.genome
<1>1. m # None /\ m \in Manifest \cup {None} /\ m.genome \in Genomes /\ m.version \in Nat
  BY NoneAssumption DEF Manifest
<1>2. Created(m) \in Modifier
  BY <1>1 DEF Created, Modifier
<1>3. /\ Created(m).status = "INSTALLED" /\ Created(m).hash = m /\ Created(m).json = m
      /\ Created(m).genome = m.genome
  BY DEF Created
<1> QED BY <1>1, <1>2, <1>3, NoneAssumption

(* One row is written: what it becomes.                                    *)
WritesRow(s, row) ==
  /\ s \in Slugs /\ mods'[s] = row /\ row # None
  /\ \A t \in Slugs \ {s} : mods'[t] = mods[t]

(* What the other actions make of them.                                    *)
LEMMA InstallBeginMods ==
  ASSUME IInv, InstallBegin
  PROVE  \/ mods' = mods /\ op' = Idle
         \/ /\ op.slug \in Slugs /\ op'.kind = "copy" /\ op'.slug = op.slug
            /\ op.archive.manifest \in Manifest /\ grafts[op.slug] = None
            /\ \/ mods' = mods /\ op'.existed /\ mods[op.slug] # None
               \/ /\ mods[op.slug] = None /\ ~op'.existed
                  /\ WritesRow(op.slug, Created(op.archive.manifest))
<1> DEFINE s == op.slug
           m == op.archive.manifest
<1>1. op \in Operation /\ op.kind = "unpack"
  BY DEF InstallBegin, Continue, IInv, TypeOK
<1>2. s \in Slugs /\ m \in Manifest
  BY <1>1, OperationFacts DEF WithArchive, Archive
<1>3. \/ mods' = mods /\ op' = Idle
      \/ /\ grafts[s] = None
         /\ op' = [kind |-> "copy", slug |-> s, archive |-> op.archive, existed |-> mods[s] # None]
         /\ mods' = IF mods[s] # None THEN mods ELSE [mods EXCEPT ![s] = Created(m)]
  BY DEF InstallBegin, Created
<1>4. Created(m) # None
  BY <1>2, CreatedFacts
<1>5. mods[s] = None /\ mods' = [mods EXCEPT ![s] = Created(m)] => WritesRow(s, Created(m))
  BY <1>2, <1>4 DEF WritesRow, IInv, TypeOK
<1>6. CASE /\ grafts[s] = None
           /\ op' = [kind |-> "copy", slug |-> s, archive |-> op.archive, existed |-> mods[s] # None]
           /\ mods' = IF mods[s] # None THEN mods ELSE [mods EXCEPT ![s] = Created(m)]
  <2>1. op'.kind = "copy" /\ op'.slug = s /\ (op'.existed <=> mods[s] # None)
    BY <1>6
  <2> QED BY <1>2, <1>5, <1>6, <2>1
<1> QED BY <1>3, <1>6

LEMMA WrittenMods ==
  ASSUME IInv
  PROVE  /\ InstallLoad => WritesRow(op.slug, Renewed(mods[op.slug], op.archive.manifest))
         /\ UpgradeCommit => WritesRow(op.slug, Upgrading(mods[op.slug], op.archive.manifest))
         /\ SaveBegin => WritesRow(op.slug, Saving(mods[op.slug], Next1(ManifestOf(op.slug))))
         /\ Register => WritesRow(op.slug, Created(grafts[op.slug].manifest))
         /\ Regraft \/ BootGraft =>
              WritesRow(Incubator, Renewed(mods[Incubator], zips[Incubator].manifest))
<1> DEFINE s == op.slug
<1>1. ASSUME NEW t \in Slugs, NEW row, row # None, mods' = [mods EXCEPT ![t] = row]
      PROVE  WritesRow(t, row)
  BY <1>1 DEF WritesRow, IInv, TypeOK
<1>2. ASSUME InstallLoad \/ UpgradeCommit
      PROVE  /\ s \in Slugs /\ Renewed(mods[s], op.archive.manifest) # None
             /\ Upgrading(mods[s], op.archive.manifest) # None
  <2>1. s \in Slugs /\ mods[s] \in Modifier /\ op.archive.manifest \in Manifest
    BY <1>2, RowFacts DEF InstallLoad, UpgradeCommit, Continue, NeedsRow, WithArchive
  <2> QED BY <2>1, ModifierFields
<1>3. InstallLoad => WritesRow(s, Renewed(mods[s], op.archive.manifest))
  BY <1>1, <1>2 DEF InstallLoad, Renewed
<1>4. UpgradeCommit => WritesRow(s, Upgrading(mods[s], op.archive.manifest))
  BY <1>1, <1>2 DEF UpgradeCommit, Upgrading
<1>5. ASSUME SaveBegin PROVE WritesRow(s, Saving(mods[s], Next1(ManifestOf(s))))
  <2>1. s \in Slugs /\ ManifestOf(s) \in Manifest /\ mods[s] \in Modifier
    BY <1>5, ManifestFacts DEF SaveBegin, Continue
  <2>2. Next1(ManifestOf(s)) \in Manifest
    BY <2>1 DEF Next1, Manifest
  <2>3. Saving(mods[s], Next1(ManifestOf(s))) # None
    BY <2>1, <2>2, ModifierFields
  <2> QED BY <1>1, <1>5, <2>1, <2>3 DEF SaveBegin, Saving, Next1
<1>6. ASSUME Register PROVE WritesRow(s, Created(grafts[s].manifest))
  <2>1. s \in Slugs /\ grafts[s].manifest \in Manifest
    BY <1>6, OperationFacts DEF Register, Continue, IInv, TypeOK, OperationHolds, Idle, GraftTree
  <2>2. Created(grafts[s].manifest) # None
    BY <2>1, CreatedFacts
  <2> QED BY <1>1, <1>6, <2>1, <2>2 DEF Register, Created
<1>7. ASSUME NEW tree \in GraftTree \cup {None}, Graft(tree)
      PROVE  WritesRow(Incubator, Renewed(mods[Incubator], zips[Incubator].manifest))
  BY <1>7, GraftFacts, GenomesAssumption DEF WritesRow
<1>8. Regraft \/ BootGraft => \E tree \in GraftTree \cup {None} : Graft(tree)
  BY GenomesAssumption DEF Regraft, BootGraft, IInv, TypeOK
<1> QED BY <1>3, <1>4, <1>5, <1>6, <1>7, <1>8

(* A boot flags what is not sound.                                         *)
LEMMA BootLoadMods ==
  ASSUME IInv, BootLoad, NEW s \in Slugs
  PROVE  /\ s \in Installed /\ grafts[s] # None /\ ~Sound(s) => mods'[s] = Flagged(mods[s])
         /\ s \notin Installed \/ grafts[s] = None \/ Sound(s) => mods'[s] = mods[s]
         /\ mods[s] # None => mods'[s] # None
<1>1. mods[s] # None => Flagged(mods[s]) # None
  BY NoneAssumption DEF Flagged, Modifier, IInv, TypeOK
<1> QED BY <1>1 DEF BootLoad, Installed, Listed

(* A request that is accepted changes the catalog, or one tree, no more.   *)
LEMMA ServeFrame ==
  ASSUME Serve, ~\E s \in Slugs : Uninstall(s)
  PROVE  /\ phase = "up" /\ op = Idle /\ fresh' = FALSE
         /\ UNCHANGED <<mods, rows, edit, path, phase, crashed>>
         /\ op' = op \/ op'.kind \in {"unpack", "save", "register", "swap"}
<1> DEFINE P == /\ phase = "up" /\ op = Idle /\ fresh' = FALSE
                /\ UNCHANGED <<mods, rows, edit, path, phase, crashed>>
                /\ op' = op \/ op'.kind \in {"unpack", "save", "register", "swap"}
<1>1. \A a \in Uploads : UploadInstall(a) => P
  BY DEF UploadInstall, Request, Unpack, tables
<1>2. \A s \in Slugs : SlugInstall(s) \/ CatalogInstall(s) \/ CatalogDelete(s) => P
  BY DEF CatalogInstall, SlugInstall, CatalogDelete, Request, Unpack, tables
<1>3. \A s \in Slugs : Save(s) => P
  BY DEF Save, Request, tables
<1>4. \A s \in Slugs : EditMetadata(s) => P
  BY DEF EditMetadata, EditGenomeMetadata, Request, tables
<1>5. \A s \in Slugs : CreateEmpty(s) => P
  BY DEF CreateEmpty, CreateEmptyGenome, Request, tables
<1>6. \A s \in Slugs, allowSame \in BOOLEAN : Upgrade(s, allowSame) => P
  BY DEF Upgrade, Request, tables
<1>7. \A s, src \in Slugs : SaveAs(src, s) => P
  BY DEF SaveAs, SaveAsGenome, Unpack, Request, tables
<1> HIDE DEF P
<1>8. P
  BY <1>1, <1>2, <1>3, <1>4, <1>5, <1>6, <1>7 DEF Serve
<1> QED BY <1>8 DEF P

(* An uninstall that goes through, for a genome or for the workspace.      *)
LEMMA UninstallFrame ==
  ASSUME IInv, NEW s \in Slugs, Uninstall(s)
  PROVE  /\ phase = "up" /\ op = Idle /\ fresh' = FALSE /\ mods[s] \in Modifier
         /\ UNCHANGED <<zips, grafts, phase, crashed>>
         /\ \/ UNCHANGED <<mods, rows, edit, op>>
            \/ /\ s # Incubator /\ UNCHANGED op /\ rows' = Without(Own(mods[s].genome))
               /\ mods' = [mods EXCEPT ![s] = None] /\ edit' = edit \ {s}
            \/ /\ s = Incubator /\ op'.kind = "regraft" /\ op'.slug = Incubator
               /\ rows' = Without(Own(mods[s].genome)) /\ edit' = edit
               /\ WritesRow(Incubator, Emptied(mods[Incubator]))
<1>1. /\ phase = "up" /\ op = Idle /\ fresh' = FALSE /\ mods[s] \in Modifier
      /\ UNCHANGED <<zips, grafts, phase, crashed>>
  BY DEF Uninstall, Request, Visible, Listed, UninstallGenome, ResetIncubator, files, IInv, TypeOK
<1>2. CASE s # Incubator
  BY <1>1, <1>2 DEF Uninstall, UninstallGenome, tables
<1>3. CASE s = Incubator
  <2>1. \/ UNCHANGED <<mods, rows, edit, op>>
        \/ /\ op' = [kind |-> "regraft", slug |-> Incubator]
           /\ rows' = Without(Own(mods[s].genome)) /\ edit' = edit
           /\ mods' = [mods EXCEPT ![Incubator] = Emptied(mods[Incubator])]
    BY <1>3 DEF Uninstall, ResetIncubator, Emptied
  <2>2. Emptied(mods[Incubator]) # None
    BY <1>1, <1>3, NoneAssumption DEF Emptied, Modifier
  <2>3. mods' = [mods EXCEPT ![Incubator] = Emptied(mods[Incubator])]
          => WritesRow(Incubator, Emptied(mods[Incubator]))
    BY <2>2, GenomesAssumption DEF WritesRow, IInv, TypeOK
  <2> QED BY <1>1, <1>3, <2>1, <2>3
<1> QED BY <1>1, <1>2, <1>3

-----------------------------------------------------------------------------
(* Who is selected for edit. *)

LEMMA EditHoldsNext == ASSUME Base, [Next]_vars PROVE EditHolds'
<1> USE DEF Base
<1>1. ASSUME UNCHANGED <<mods, edit>>, op' = op \/ op'.kind \notin {"copy", "load"} PROVE EditHolds'
  BY <1>1 DEF EditHolds, Listed
<1>2. CASE UNCHANGED vars
  BY <1>1, <1>2 DEF vars, tables
<1>3. ASSUME Serve, ~\E s \in Slugs : Uninstall(s) PROVE EditHolds'
  <2>1. UNCHANGED <<mods, edit>> /\ (op' = op \/ op'.kind \notin {"copy", "load"})
    BY <1>3, ServeFrame
  <2> QED BY <1>1, <2>1
<1>4. ASSUME NEW s \in Slugs, Uninstall(s) PROVE EditHolds'
  <2>1. op = Idle /\ (op' = op \/ op'.kind = "regraft")
        /\ \/ UNCHANGED <<mods, edit>>
           \/ mods' = [mods EXCEPT ![s] = None] /\ edit' = edit \ {s}
           \/ WritesRow(Incubator, Emptied(mods[Incubator])) /\ edit' = edit
    BY <1>4, UninstallFrame
  <2> QED BY <2>1 DEF EditHolds, Listed, Idle, IInv, TypeOK, WritesRow
<1>5. CASE InstallBegin
  <2>1. edit' = edit
    BY <1>5 DEF InstallBegin
  <2> QED BY <1>5, <2>1, InstallBeginMods DEF EditHolds, Listed, WritesRow, Idle
<1>6. CASE InstallCopy
  <2>1. mods' = mods /\ edit' = edit /\ op.kind = "copy" /\ op' = [op EXCEPT !.kind = "load"]
        /\ op \in Operation
    BY <1>6 DEF InstallCopy, Continue, tables, IInv, TypeOK
  <2> QED BY <2>1, LoadShape DEF EditHolds, Listed
<1>7. CASE InstallFailed
  <2>1. /\ op.kind = "load" /\ op' = Idle /\ edit' = edit
        /\ mods' = IF op.existed THEN mods ELSE [mods EXCEPT ![op.slug] = None]
    BY <1>7 DEF InstallFailed, Continue
  <2> QED BY <2>1 DEF EditHolds, Listed, Idle, IInv, TypeOK
<1>8. CASE InstallLoad \/ UpgradeCommit \/ SaveBegin \/ Register \/ Regraft \/ BootGraft
  <2>1. edit' = edit /\ op'.kind \notin {"copy", "load"}
    BY <1>8 DEF InstallLoad, UpgradeCommit, SaveBegin, Register, Regraft, BootGraft, Boot, Idle,
       IInv, OperationHolds
  <2>2. \A t \in Listed : mods'[t] # None
    BY <1>8, WrittenMods DEF WritesRow, Listed
  <2> QED BY <2>1, <2>2 DEF EditHolds, Listed
<1>9. CASE UpgradeSwap \/ UpgradeRefused \/ UpgradeFailed \/ SaveRefused \/ Pack \/ BootSweep
  <2>1. UNCHANGED <<mods, edit>>
    BY <1>9 DEF UpgradeSwap, UpgradeRefused, UpgradeFailed, SaveRefused, Pack, BootSweep, tables
  <2>2. UpgradeSwap => op'.kind = "commit"
    BY CommitShape DEF UpgradeSwap, Continue, IInv, TypeOK
  <2>3. op'.kind \notin {"copy", "load"} \/ op' = op
    BY <1>9, <2>2 DEF UpgradeRefused, UpgradeFailed, SaveRefused, Pack, BootSweep, Boot, Idle
  <2> QED BY <1>1, <2>1, <2>3
<1>10. CASE Restart
  <2>1. UNCHANGED <<mods, edit>> /\ op'.kind = "idle"
    BY <1>10 DEF Restart, tables, Idle
  <2> QED BY <1>1, <2>1
<1>11. CASE Users
  <2>1. ASSUME NEW s \in Slugs, SelectForEdit(s) PROVE EditHolds'
    <3>1. mods' = mods /\ op' = op /\ op = Idle /\ s \in Listed /\ edit' \in {{s}, edit \ {s}}
      BY <2>1 DEF SelectForEdit, Visible
    <3> QED BY <3>1 DEF EditHolds, Listed, Idle
  <2>2. ASSUME Users, ~\E s \in Slugs : SelectForEdit(s) PROVE EditHolds'
    <3>1. UNCHANGED <<mods, edit, op>>
      BY <2>2 DEF Users, CreateRow, Reparent, Relink, MoveRow, EditTree, PlaceArchive, tables
    <3> QED BY <1>1, <3>1
  <2> QED BY <1>11, <2>1, <2>2
<1>12. CASE BootLoad
  <2>1. edit' = edit /\ op' = op /\ \A t \in Listed : mods'[t] # None
    BY <1>12, BootLoadMods DEF BootLoad, Boot, Listed
  <2> QED BY <2>1 DEF EditHolds, Listed
<1>13. CASE BootMutex
  <2>1. mods' = mods /\ op' = op /\ op = Idle /\ (edit' = edit \/ edit' = {Incubator})
    BY <1>13 DEF BootMutex, Boot, IInv, OperationHolds
  <2> QED BY <2>1, GenomesAssumption DEF EditHolds, Listed, Idle, IInv, ShelvesHold
<1> QED BY <1>2, <1>3, <1>4, <1>5, <1>6, <1>7, <1>8, <1>9, <1>10, <1>11, <1>12, <1>13
        DEF Next, Proceed, BootStep

(* The requests, the users and the boots keep every record well formed and *)
(* leave a request all that it relies on.                                  *)
THEOREM BaseInvariant == Spec => []Base
<1>1. Init => Base
  BY InitIInv DEF Base, EditHolds, Init, Idle, Listed
<1>2. Base /\ [Next]_vars => Base'
  BY NextIInv, EditHoldsNext DEF Base
<1> QED BY <1>1, <1>2, PTL DEF Spec

(* Archives, trees, rows and requests hold what they can hold: whatever is *)
(* packed, forged, merged or renamed is an archive the loader can read,    *)
(* and what a request reads from a row, a tree or the catalog is there.    *)
THEOREM TypeCorrect == Spec => []TypeOK
<1>1. Base => TypeOK
  BY DEF Base, IInv
<1> QED BY <1>1, BaseInvariant, PTL

-----------------------------------------------------------------------------
(* The catalog. *)

(* An archive comes from an upload, from a save or from a save-as.         *)
LEMMA CatalogStep ==
  ASSUME Base, [Next]_vars, NEW s \in Slugs, zips'[s] # zips[s]
  PROVE  \/ zips'[s] = None /\ mods[s] = None /\ mods'[s] = None
         \/ zips[s] = None /\ zips'[s] \in Uploads /\ op' # Idle
         \/ op = Idle /\ op' = Idle /\ zips'[s] \in Uploads
         \/ Pack /\ op.slug = s /\ zips'[s] = PackedArchive /\ Verified(op.manifest, CodeOf(s))
         \/ \E src \in Slugs : /\ SaveAs(src, s) /\ zips[s] = None
                               /\ zips'[s] = Forged(src, s, Own(mods[src].genome))
<1>1. zips \in [Slugs -> Archive \cup {None}]
  BY DEF Base, IInv, TypeOK
<1>2. \/ \E a \in Uploads : UploadInstall(a)
      \/ \E t \in Slugs : CatalogDelete(t) \/ \E src \in Slugs : SaveAs(src, t)
      \/ Pack
      \/ \E a \in Uploads : PlaceArchive(a)
  <2>1. zips' # zips
    OBVIOUS
  <2>2. ~Restart /\ ~BootStep /\ ~UNCHANGED vars /\ (Users => \E a \in Uploads : PlaceArchive(a))
    BY <2>1 DEF Users, CreateRow, Reparent, Relink, MoveRow, SelectForEdit, EditTree, Restart,
       BootStep, BootGraft, BootSweep, BootLoad, BootMutex, Boot, files, vars
  <2>3. Proceed => Pack
    BY <2>1 DEF Proceed, InstallBegin, InstallCopy, InstallLoad, InstallFailed, Regraft, UpgradeSwap,
       UpgradeRefused, UpgradeCommit, UpgradeFailed, SaveBegin, SaveRefused, Register, files
  <2>4. \A t \in Slugs : ~SlugInstall(t) /\ ~CatalogInstall(t) /\ ~Save(t) /\ ~EditMetadata(t)
    BY <2>1 DEF SlugInstall, CatalogInstall, Save, EditMetadata, files
  <2>5. \A t \in Slugs : /\ ~Uninstall(t) /\ ~CreateEmpty(t)
                         /\ \A allowSame \in BOOLEAN : ~Upgrade(t, allowSame)
    BY <2>1 DEF Uninstall, UninstallGenome, ResetIncubator, CreateEmpty, Upgrade, files
  <2> QED BY <2>2, <2>3, <2>4, <2>5 DEF Next, Serve
<1>3. ASSUME NEW a \in Uploads, UploadInstall(a)
      PROVE  zips[s] = None /\ zips'[s] \in Uploads /\ op' # Idle
  <2>1. a.slug \in Slugs /\ zips' = [zips EXCEPT ![a.slug] = a] /\ zips[a.slug] = None
        /\ op' = [kind |-> "unpack", slug |-> a.slug, archive |-> a]
    BY <1>3, ArchivesAssumption DEF UploadInstall, EnterCatalog, Catalog, Unpack, Archive
  <2>2. op'.kind = "unpack"
    BY <2>1
  <2> QED BY <1>1, <2>1, <2>2 DEF Idle
<1>4. ASSUME NEW t \in Slugs, CatalogDelete(t)
      PROVE  zips'[s] = None /\ mods[s] = None /\ mods'[s] = None
  BY <1>1, <1>4, ModsUnchanged DEF CatalogDelete, Catalog, Listed
<1>5. ASSUME Pack
      PROVE  op.slug = s /\ zips'[s] = PackedArchive /\ Verified(op.manifest, CodeOf(s))
  BY <1>1, <1>5 DEF Pack, PackedArchive
<1>6. ASSUME NEW t \in Slugs, NEW src \in Slugs, SaveAs(src, t)
      PROVE  t = s /\ zips[s] = None /\ zips'[s] = Forged(src, s, Own(mods[src].genome))
  BY <1>1, <1>6 DEF SaveAs, SaveAsGenome, Catalog, Forged
<1>7. ASSUME NEW a \in Uploads, PlaceArchive(a)
      PROVE  op = Idle /\ op' = Idle /\ zips'[s] \in Uploads
  BY <1>1, <1>7, ArchivesAssumption DEF PlaceArchive
<1> QED BY <1>2, <1>3, <1>4, <1>5, <1>6, <1>7

(* What a save packs is looked at before it takes the place of an archive. *)
LEMMA PackedHasCode ==
  ASSUME Base, Pack, NEW s \in Slugs, op.slug = s, zips'[s] = PackedArchive,
         Verified(op.manifest, CodeOf(s))
  PROVE  zips'[s] # None /\ mods[s] # None /\ ~Missing(zips'[s].manifest, zips'[s].code)
<1>1. op.kind = "pack" /\ IInv
  BY DEF Pack, Continue, Base
<1>2. PackedArchive # None /\ PackedArchive.manifest = op.manifest /\ PackedArchive.code = CodeOf(s)
  BY <1>1, PackedArchiveFacts
<1>3. mods[s] # None
  BY <1>1 DEF IInv, OperationHolds, NeedsRow
<1> QED BY <1>2, <1>3 DEF Verified, Missing

(* Whatever has crashed, or people have done to trees and archives before: *)
(* the program takes no archive from a genome that has a row, and a save   *)
(* puts nothing in its place that lacks the code its manifest declares.    *)
THEOREM SavesKeepArchives == Spec => ArchivesKept
<1>1. ASSUME Base, [Next]_vars, NEW s \in Slugs, zips[s] # None, zips'[s] # zips[s]
      PROVE  \/ op = Idle /\ zips'[s] \in Uploads
             \/ zips'[s] = None /\ mods[s] = None
             \/ /\ zips'[s] # None /\ mods[s] # None
                /\ ~Missing(zips'[s].manifest, zips'[s].code)
  BY <1>1, CatalogStep, PackedHasCode
<1>2. Base /\ [Next]_vars =>
        [\A s \in Slugs : zips[s] # None /\ zips'[s] # zips[s] =>
           \/ op = Idle /\ zips'[s] \in Uploads
           \/ zips'[s] = None /\ mods[s] = None
           \/ /\ zips'[s] # None /\ mods[s] # None
              /\ ~Missing(zips'[s].manifest, zips'[s].code)]_vars
  BY <1>1
<1> QED BY <1>2, BaseInvariant, PTL DEF Spec, ArchivesKept

-----------------------------------------------------------------------------
(* The trees. *)

(* The actions that put a tree in the place of another, or of none.        *)
Plants(s) ==
  \/ EditMetadata(s) \/ CreateEmpty(s)
  \/ (InstallCopy \/ UpgradeSwap) /\ s = op.slug
  \/ (Regraft \/ BootGraft) /\ s = Incubator
  \/ \E code \in {"absent", "bad"} : EditTree(s, code)

LEMMA PlantedFacts ==
  ASSUME IInv, IInv', NEW s \in Slugs, Plants(s)
  PROVE  grafts'[s] # None /\ \A t \in Slugs \ {s} : grafts'[t] = grafts[t]
<1> DEFINE P(t) == t # None /\ grafts' = [grafts EXCEPT ![s] = t]
<1>1. (\E t : P(t)) => grafts'[s] # None /\ \A t \in Slugs \ {s} : grafts'[t] = grafts[t]
  BY DEF IInv, TypeOK
<1>2. CASE EditMetadata(s)
  <2>1. /\ grafts' = [grafts EXCEPT ![s] = Edited(grafts[s])]
        /\ grafts[s] \in GraftTree /\ grafts[s].manifest # None
    BY <1>2 DEF EditMetadata, EditGenomeMetadata, Edited, IInv, TypeOK
  <2>2. P(Edited(grafts[s]))
    BY <2>1, EditedFacts, NoneAssumption
  <2> QED BY <1>1, <2>2
<1>3. CASE CreateEmpty(s)
  <2>1. op'.kind = "register" /\ op'.slug = s /\ \A t \in Slugs \ {s} : grafts'[t] = grafts[t]
    BY <1>3 DEF CreateEmpty, CreateEmptyGenome, IInv, TypeOK
  <2> QED BY <2>1 DEF IInv, OperationHolds
<1>4. CASE (InstallCopy \/ UpgradeSwap) /\ s = op.slug
  <2>1. op.archive \in Archive /\ grafts' = [grafts EXCEPT ![s] = Tree(op.archive)]
    BY <1>4, OperationFacts DEF InstallCopy, UpgradeSwap, Continue, WithArchive, IInv, TypeOK
  <2>2. P(Tree(op.archive))
    BY <2>1, TreeFacts, NoneAssumption
  <2> QED BY <1>1, <2>2
<1>5. CASE (Regraft \/ BootGraft) /\ s = Incubator
  <2>1. \E tree \in GraftTree \cup {None} : Graft(tree)
    BY <1>5, GenomesAssumption DEF Regraft, BootGraft, IInv, TypeOK
  <2> QED BY <1>5, <2>1, GraftFacts
<1>6. ASSUME NEW code \in {"absent", "bad"}, EditTree(s, code) PROVE \E t : P(t)
  <2>1. P(EditedTree(grafts[s], code))
    BY <1>6, EditedTreeFacts DEF EditTree, EditedTree, IInv, TypeOK
  <2> QED BY <2>1
<1> QED BY <1>1, <1>2, <1>3, <1>4, <1>5, <1>6 DEF Plants

LEMMA TreesStep ==
  ASSUME IInv, [Next]_vars, grafts' # grafts
  PROVE  \/ InstallFailed \/ BootSweep \/ Restart \/ \E s \in Slugs : Plants(s)
         \/ \E p \in Pks, s \in Slugs : MoveRow(p, s)
<1>1. ~UNCHANGED vars
  BY DEF vars, files
<1>2. Users => \/ \E s \in Slugs, code \in {"absent", "bad"} : EditTree(s, code)
               \/ \E p \in Pks, s \in Slugs : MoveRow(p, s)
  BY DEF Users, CreateRow, Reparent, Relink, SelectForEdit, PlaceArchive, files
<1>3. Serve => \E s \in Slugs : EditMetadata(s) \/ CreateEmpty(s)
  BY DEF Serve, UploadInstall, CatalogInstall, SlugInstall, CatalogDelete, Uninstall, UninstallGenome,
     ResetIncubator, Save, Upgrade, SaveAs, files
<1>4. BootStep => BootGraft \/ BootSweep
  BY DEF BootStep, BootLoad, BootMutex
<1>5. Proceed => InstallFailed \/ InstallCopy \/ UpgradeSwap \/ Regraft
  BY DEF Proceed, InstallBegin, InstallLoad, UpgradeRefused, UpgradeCommit, UpgradeFailed, SaveBegin,
     SaveRefused, Pack, Register, files
<1>6. InstallCopy \/ UpgradeSwap => op.slug \in Slugs
  BY OperationFacts DEF InstallCopy, UpgradeSwap, Continue, IInv, TypeOK, Idle
<1> QED BY <1>1, <1>2, <1>3, <1>4, <1>5, <1>6, GenomesAssumption DEF Next, Plants

(* A genome becomes INSTALLED when its archive is let in and has its tree  *)
(* from then on, until the process dies in the middle of a request.        *)
TreesHold ==
  ~crashed =>
    /\ \A s \in Installed : \/ grafts[s] # None
                            \/ op.kind = "copy" /\ op.slug = s
                            \/ s = Incubator /\ phase = "graft"
    /\ op.kind = "load" => grafts[op.slug] # None
    /\ op.kind \in {"copy", "load"} /\ op.existed => op.slug \notin Installed

LEMMA InstalledStep ==
  ASSUME Base, [Next]_vars, NEW s \in Installed', s \notin Installed
  PROVE  \/ InstallBegin /\ op'.kind = "copy" /\ op'.slug = s
         \/ (InstallLoad \/ Register) /\ op.slug = s
         \/ (Regraft \/ BootGraft) /\ s = Incubator
<1>1. s \in Slugs /\ mods'[s] # mods[s]
  BY DEF Installed, Listed
<1>2. ~UNCHANGED vars /\ ~Users /\ ~Restart
  BY <1>1, ModsUnchanged DEF vars, tables
<1>3. Serve => \E t \in Slugs : Uninstall(t)
  BY <1>1, ServeFrame
<1>4. ASSUME NEW t \in Slugs, Uninstall(t) PROVE FALSE
  <2>1. mods' = [mods EXCEPT ![t] = None] \/ WritesRow(Incubator, Emptied(mods[Incubator]))
    BY <1>1, <1>4, UninstallFrame DEF Base
  <2>2. mods[Incubator] \in Modifier => Emptied(mods[Incubator]).status = mods[Incubator].status
    BY DEF Emptied, Modifier
  <2> QED BY <1>1, <2>1, <2>2, GenomesAssumption
          DEF WritesRow, Installed, Listed, Base, IInv, TypeOK, ShelvesHold
<1>5. CASE InstallBegin
  BY <1>1, <1>5, InstallBeginMods DEF WritesRow, Base
<1>6. CASE UpgradeCommit \/ SaveBegin
  <2>1. \E m \in Manifest : \/ WritesRow(op.slug, Upgrading(mods[op.slug], m))
                            \/ WritesRow(op.slug, Saving(mods[op.slug], m))
    <3>1. SaveBegin => ManifestOf(op.slug) \in Manifest
      BY ManifestFacts DEF SaveBegin, Continue, Base
    <3>2. \A m \in Manifest : Next1(m) \in Manifest
      BY DEF Next1, Manifest
    <3>3. UpgradeCommit => op.archive.manifest \in Manifest
      BY RowFacts DEF UpgradeCommit, Continue, NeedsRow, WithArchive, Base
    <3> QED BY <1>6, <3>1, <3>2, <3>3, WrittenMods DEF Base
  <2>2. mods[op.slug] \in Modifier
    BY <1>6, OperationFacts DEF UpgradeCommit, SaveBegin, Continue, Base, IInv, TypeOK,
       OperationHolds, NeedsRow, Idle
  <2> QED BY <1>1, <2>1, <2>2, ModifierFields DEF WritesRow, Installed, Listed
<1>7. CASE InstallFailed
  BY <1>1, <1>7 DEF InstallFailed, Installed, Listed, Base, IInv, TypeOK
<1>8. CASE InstallLoad \/ Register
  BY <1>1, <1>8, WrittenMods DEF WritesRow, Base
<1>9. CASE Regraft \/ BootGraft
  BY <1>1, <1>9, WrittenMods DEF WritesRow, Base
<1>10. CASE BootLoad
  BY <1>1, <1>10, BootLoadMods, ModifierFields DEF Installed, Listed, Base, Flagged
<1>11. Proceed => InstallBegin \/ UpgradeCommit \/ SaveBegin \/ InstallFailed \/ InstallLoad \/ Register
                  \/ Regraft
  BY <1>1, ModsUnchanged DEF Proceed
<1>12. BootStep => BootGraft \/ BootLoad
  BY <1>1, ModsUnchanged DEF BootStep
<1> QED BY <1>2, <1>3, <1>4, <1>5, <1>6, <1>7, <1>8, <1>9, <1>10, <1>11, <1>12 DEF Next

(* Only what goes on with a request, or a death, disturbs it.              *)
LEMMA RequestStep ==
  ASSUME Base, [Next]_vars, op # Idle
  PROVE  (op' = op /\ (Users \/ UNCHANGED vars)) \/ Proceed \/ Restart
<1>1. ~Serve
  <2>1. \A s \in Slugs : ~Uninstall(s)
    BY DEF Uninstall, Request
  <2> QED BY <2>1, ServeFrame
<1>2. ~BootStep
  BY DEF BootStep, BootGraft, BootSweep, BootLoad, BootMutex, Boot, Base, IInv, OperationHolds
<1>3. Users => op' = op
  BY DEF Users, CreateRow, Reparent, Relink, MoveRow, SelectForEdit, EditTree,
     PlaceArchive
<1> QED BY <1>1, <1>2, <1>3 DEF Next, vars

LEMMA CopyStep ==
  ASSUME Base, [Next]_vars
  PROVE  /\ op.kind = "copy" => op' = op \/ InstallCopy \/ Restart
         /\ op'.kind \in {"copy", "load"} =>
              \/ op' = op
              \/ InstallBegin
              \/ /\ InstallCopy /\ op.kind = "copy" /\ op'.kind = "load"
                 /\ op'.slug = op.slug /\ op'.existed = op.existed /\ mods' = mods
<1>1. ASSUME op.kind = "copy" PROVE op' = op \/ InstallCopy \/ Restart
  <2>1. Proceed => InstallCopy
    BY <1>1 DEF Proceed, InstallBegin, InstallCopy, InstallLoad, InstallFailed, Regraft, UpgradeSwap,
       UpgradeRefused, UpgradeCommit, UpgradeFailed, SaveBegin, SaveRefused, Pack, Register, Continue
  <2> QED BY <1>1, <2>1, RequestStep DEF Idle
<1>2. InstallCopy => /\ op.kind = "copy" /\ op'.kind = "load" /\ op'.slug = op.slug
                     /\ op'.existed = op.existed /\ mods' = mods
  BY LoadShape DEF InstallCopy, Continue, tables, Base, IInv, TypeOK
<1>3. ASSUME op'.kind \in {"copy", "load"}, Proceed PROVE InstallBegin \/ InstallCopy
  <2>1. UpgradeSwap => op'.kind = "commit"
    BY CommitShape DEF UpgradeSwap, Continue, Base, IInv, TypeOK
  <2>2. ~SaveBegin
    BY <1>3 DEF SaveBegin
  <2> QED BY <1>3, <2>1, <2>2 DEF Proceed, InstallLoad, InstallFailed, Regraft, UpgradeRefused,
       UpgradeCommit, UpgradeFailed, SaveRefused, Pack, Register, Idle
<1>4. ASSUME op'.kind \in {"copy", "load"}, Serve PROVE op' = op
  <2>1. \A s \in Slugs : Uninstall(s) => op' = op
    BY <1>4, UninstallFrame DEF Base
  <2> QED BY <1>4, <2>1, ServeFrame
<1>5. op'.kind \in {"copy", "load"} => ~Restart
  BY DEF Restart, Idle
<1>6. Users \/ BootStep \/ UNCHANGED vars => op' = op
  BY DEF Users, CreateRow, Reparent, Relink, MoveRow, SelectForEdit, EditTree,
     PlaceArchive, BootStep, BootGraft, BootSweep, BootLoad,
     BootMutex, Boot, vars
<1> QED BY <1>1, <1>2, <1>3, <1>4, <1>5, <1>6 DEF Next

LEMMA CrashStep ==
  ASSUME Base, [Next]_vars
  PROVE  ~crashed' => ~crashed /\ (Restart => op = Idle)
<1>1. ~UNCHANGED vars /\ ~Restart => crashed' = crashed
  <2>1. Serve => crashed' = crashed
    BY ServeFrame, UninstallFrame DEF Base
  <2>2. Proceed => crashed' = crashed
    BY DEF Proceed, InstallBegin, InstallCopy, InstallLoad, InstallFailed, Regraft, UpgradeSwap,
       UpgradeRefused, UpgradeCommit, UpgradeFailed, SaveBegin, SaveRefused, Pack, Register, Continue
  <2>3. Users \/ BootStep => crashed' = crashed
    BY DEF Users, CreateRow, Reparent, Relink, MoveRow, SelectForEdit, EditTree,
     PlaceArchive, Meanwhile, BootStep, BootGraft,
       BootSweep, BootLoad, BootMutex, Boot
  <2> QED BY <2>1, <2>2, <2>3 DEF Next
<1>2. UNCHANGED vars => crashed' = crashed
  BY DEF vars, process
<1>3. Restart /\ ~crashed' => ~crashed /\ op = Idle
  BY Zenon DEF Restart
<1> QED BY <1>1, <1>2, <1>3

LEMMA PhaseStep ==
  ASSUME Base, [Next]_vars
  PROVE  \/ phase' = phase
         \/ Restart /\ phase' = "graft"
         \/ BootStep /\ phase' # "graft" /\ op = Idle
<1>1. Serve => phase' = phase
  BY ServeFrame, UninstallFrame DEF Base
<1>2. Proceed => phase' = phase
  BY DEF Proceed, InstallBegin, InstallCopy, InstallLoad, InstallFailed, Regraft, UpgradeSwap,
     UpgradeRefused, UpgradeCommit, UpgradeFailed, SaveBegin, SaveRefused, Pack, Register, Continue
<1>3. Users => phase' = phase
  BY DEF Users, CreateRow, Reparent, Relink, MoveRow, SelectForEdit, EditTree,
     PlaceArchive, Meanwhile
<1>4. Restart => phase' = "graft"
  BY DEF Restart
<1>5. BootStep => phase' # "graft" /\ op = Idle
  BY DEF BootStep, BootGraft, BootSweep, BootLoad, BootMutex, Boot, Base, IInv, OperationHolds
<1> QED BY <1>1, <1>2, <1>3, <1>4, <1>5 DEF Next, vars, process


LEMMA TreesHoldNext == ASSUME Base, IInv', TreesHold, [Next]_vars PROVE TreesHold'
<1> USE DEF Base
<1> SUFFICES ASSUME ~crashed' PROVE TreesHold'
  BY DEF TreesHold
<1>1. ~crashed /\ (Restart => op = Idle)
  BY CrashStep
<1>2. \A p \in Pks, s \in Slugs : MoveRow(p, s) =>
        \A t \in Slugs : grafts[t] # None => grafts'[t] # None
  BY MoveRowFacts, MoveMediaFacts
<1>3. ASSUME NEW s \in Slugs, grafts[s] # None, grafts'[s] = None
      PROVE  \/ InstallFailed /\ op.slug = s
             \/ BootSweep /\ s \notin Installed
             \/ Restart /\ op' = Idle /\ phase' = "graft" /\ (s = Incubator \/ s \notin Installed)
  <2>1. InstallFailed => op.slug = s
    BY <1>3 DEF InstallFailed, IInv, TypeOK
  <2>2. BootSweep => s \notin Installed
    BY <1>3 DEF BootSweep
  <2>3. \A t \in Slugs : ~Plants(t)
    BY <1>3, PlantedFacts
  <2>4. grafts' # grafts
    BY <1>3
  <2>5. Restart => op' = Idle /\ phase' = "graft" /\ (s = Incubator \/ s \notin Installed)
    <3>1. ASSUME Restart, s # Incubator, s \in Installed PROVE FALSE
      <4>1. PICK t \in Slugs : \E tree \in Torn(t) : grafts' = [grafts EXCEPT ![t] = tree]
        BY <2>4, <3>1 DEF Restart
      <4>2. t = s
        BY <1>3, <4>1 DEF IInv, TypeOK
      <4> QED BY <1>1, <3>1, <4>1, <4>2, TornFacts
    <3> QED BY <3>1 DEF Restart
  <2> QED BY <1>2, <1>3, <2>1, <2>2, <2>3, <2>4, <2>5, TreesStep
<1>4. ASSUME NEW s \in Installed', grafts'[s] = None, s # Incubator \/ phase' # "graft"
      PROVE  op'.kind = "copy" /\ op'.slug = s
  <2>1. s \in Slugs
    BY DEF Installed, Listed
  <2>2. ASSUME Regraft \/ BootGraft, s = Incubator PROVE FALSE
    BY <1>4, <2>1, <2>2, PlantedFacts DEF Plants
  <2>3. CASE s \notin Installed
    <3>1. InstallLoad \/ Register => grafts[op.slug] # None /\ grafts' = grafts
      BY <1>1 DEF InstallLoad, Register, Continue, files, TreesHold, IInv, OperationHolds
    <3> QED BY <1>4, <2>2, <2>3, <3>1, InstalledStep
  <2>4. CASE s \in Installed /\ grafts[s] # None
    <3>1. InstallFailed /\ op.slug = s
      BY <1>3, <1>4, <2>1, <2>4 DEF Restart
    <3>2. op.kind = "load" /\ op.existed \in BOOLEAN
          /\ mods' = IF op.existed THEN mods ELSE [mods EXCEPT ![s] = None]
      BY <3>1, OperationFacts DEF InstallFailed, Continue, IInv, TypeOK
    <3> QED BY <1>1, <1>4, <2>1, <2>4, <3>1, <3>2 DEF TreesHold, Installed, Listed, IInv, TypeOK
  <2>5. CASE s \in Installed /\ op.kind = "copy" /\ op.slug = s
    <3>1. ~InstallCopy
      BY <1>4, <2>1, <2>5, PlantedFacts DEF Plants
    <3>2. ~Restart
      BY <1>1, <2>5 DEF Idle
    <3> QED BY <2>5, <3>1, <3>2, CopyStep
  <2>6. CASE s = Incubator /\ phase = "graft"
    <3>1. BootStep
      BY <1>4, <2>6, PhaseStep
    <3>2. BootGraft
      BY <2>6, <3>1 DEF BootStep, BootSweep, BootLoad, BootMutex, Boot
    <3> QED BY <2>2, <2>6, <3>2
  <2> QED BY <1>1, <2>3, <2>4, <2>5, <2>6 DEF TreesHold
<1>5. ASSUME op'.kind = "load" PROVE grafts'[op'.slug] # None
  <2>1. op'.slug \in Slugs
    BY <1>5, OperationFacts DEF IInv, TypeOK, Idle
  <2>2. CASE op' = op
    BY <1>1, <1>3, <1>5, <2>1, <2>2 DEF TreesHold, InstallFailed, BootSweep, Boot, Idle, IInv, OperationHolds
  <2>3. CASE InstallCopy /\ op'.slug = op.slug
    BY <2>1, <2>3, PlantedFacts DEF Plants
  <2>4. InstallBegin => op'.kind # "load"
    BY InstallBeginMods DEF Idle
  <2> QED BY <1>5, <2>2, <2>3, <2>4, CopyStep
<1>6. ASSUME op'.kind \in {"copy", "load"}, op'.existed PROVE op'.slug \notin Installed'
  <2>1. CASE op' = op
    <3>1. op.slug \notin Installed
      BY <1>1, <1>6, <2>1 DEF TreesHold
    <3>2. op.slug \notin Installed'
      <4>1. InstallBegin => op' # op
        BY <1>6 DEF InstallBegin, Continue
      <4>2. ~InstallLoad /\ ~Register /\ ~Regraft
        BY <1>6 DEF InstallLoad, Register, Regraft, Idle
      <4>3. ~BootGraft
        BY <1>6, <2>1 DEF BootGraft, Boot, IInv, OperationHolds, Idle
      <4> QED BY <2>1, <3>1, <4>1, <4>2, <4>3, InstalledStep
    <3> QED BY <2>1, <3>2
  <2>2. CASE InstallBegin
    <3>1. op'.slug = op.slug /\ mods' = mods /\ grafts[op.slug] = None
      BY <1>6, <2>2, InstallBeginMods DEF Idle
    <3>2. op.kind = "unpack" /\ phase = "up"
      BY <2>2 DEF InstallBegin, Continue, IInv, OperationHolds, Idle
    <3> QED BY <1>1, <3>1, <3>2 DEF TreesHold, Installed, Listed
  <2>3. CASE InstallCopy /\ op.kind = "copy" /\ op'.slug = op.slug /\ op'.existed = op.existed /\ mods' = mods
    BY <1>1, <1>6, <2>3 DEF TreesHold, Installed, Listed
  <2> QED BY <1>6, <2>1, <2>2, <2>3, CopyStep
<1> QED BY <1>4, <1>5, <1>6 DEF TreesHold

(* No process having died in the middle of a request, every genome that    *)
(* says INSTALLED has its tree, unless it is the one a request is at work  *)
(* on: an install that fails takes back the row and the tree, or neither   *)
(* was there before.                                                       *)
THEOREM InstalledHaveTrees == Spec => []InstalledIsThere
<1>1. Init => TreesHold
  BY DEF Init, TreesHold, Installed, Listed, Idle
<1>2. Base /\ TreesHold /\ [Next]_vars => TreesHold'
  BY TreesHoldNext, NextIInv
<1>3. TreesHold => InstalledIsThere
  BY DEF TreesHold, InstalledIsThere, Idle
<1> QED BY <1>1, <1>2, <1>3, BaseInvariant, PTL DEF Spec

-----------------------------------------------------------------------------
(* The boots. *)

SoundTrees ==
  /\ \A s \in Installed : grafts[s] # None =>
       /\ grafts[s].manifest = mods[s].hash /\ s \in path
       /\ grafts[s].manifest.entry => grafts[s].code = "good"
  /\ \A s \in Slugs : grafts[s] # None => mods[s] # None

(* Requests and users are served by a process that is up.                  *)
LEMMA WhenUp ==
  ASSUME Base
  PROVE  /\ Proceed => op # Idle /\ phase = "up" /\ UNCHANGED <<phase, fresh>>
         /\ Serve \/ Users => phase = "up" /\ phase' = "up" /\ fresh' = FALSE
<1>1. Proceed => op # Idle /\ UNCHANGED <<phase, fresh>>
  BY DEF Proceed, InstallBegin, InstallCopy, InstallLoad, InstallFailed, Regraft, UpgradeSwap,
     UpgradeRefused, UpgradeCommit, UpgradeFailed, SaveBegin, SaveRefused, Pack, Register, Continue, Idle
<1>2. Serve => phase = "up" /\ phase' = "up" /\ fresh' = FALSE
  BY ServeFrame, UninstallFrame DEF Base
<1>3. Users => phase = "up" /\ phase' = "up" /\ fresh' = FALSE
  BY DEF Users, CreateRow, Reparent, Relink, MoveRow, SelectForEdit, EditTree,
     PlaceArchive, Meanwhile
<1> QED BY <1>1, <1>2, <1>3 DEF Base, IInv, OperationHolds

(* What each phase of a boot hands to the next, and nobody disturbs.       *)
BootHolds ==
  /\ phase = "load" => \A s \in Slugs : grafts[s] # None => s \in Installed
  /\ phase = "mutex" => SoundTrees
  /\ fresh => phase = "up" /\ op = Idle /\ SoundTrees /\ Cardinality(edit) = 1

LEMMA FreshStep ==
  ASSUME Base, BootHolds, [Next]_vars, fresh'
  PROVE  (fresh /\ UNCHANGED vars) \/ BootMutex
<1>1. ~Serve /\ ~Users /\ (Proceed => op # Idle /\ fresh)
  BY WhenUp
<1>2. ~Restart
  BY DEF Restart
<1>3. BootStep => BootMutex \/ (fresh /\ phase # "up")
  BY DEF BootStep, BootGraft, BootSweep, BootLoad, Boot
<1>4. UNCHANGED vars => fresh
  BY DEF vars, process
<1> QED BY <1>1, <1>2, <1>3, <1>4 DEF Next, BootHolds

(* The trees of INSTALLED genomes are looked at one by one.                *)
LEMMA BootLoadSound == ASSUME Base, BootHolds, BootLoad PROVE SoundTrees'
<1> USE DEF Base
<1>1. /\ phase = "load" /\ grafts' = grafts
      /\ path' = path \cup {s \in {t \in Installed : grafts[t] # None} : grafts[s].manifest = mods[s].hash}
  BY DEF BootLoad, Boot
<1>2. ASSUME NEW s \in Slugs, grafts[s] # None PROVE s \in Installed /\ mods'[s] # None
  BY <1>1, <1>2, BootLoadMods DEF BootHolds, Installed, Listed
<1>3. ASSUME NEW s \in Installed', grafts'[s] # None
      PROVE  /\ grafts'[s].manifest = mods'[s].hash /\ s \in path'
             /\ grafts'[s].manifest.entry => grafts'[s].code = "good"
  <2>1. s \in Slugs /\ mods'[s].status = "INSTALLED"
    BY DEF Installed, Listed
  <2>2. s \in Installed /\ mods[s] \in Modifier
    BY <1>1, <1>2, <1>3, <2>1 DEF Installed, Listed, IInv, TypeOK
  <2>3. Flagged(mods[s]).status = "BROKEN"
    BY <2>2 DEF Flagged, Modifier
  <2>4. Sound(s) /\ mods'[s] = mods[s]
    BY <1>1, <1>3, <2>1, <2>2, <2>3, BootLoadMods
  <2> QED BY <1>1, <1>3, <2>2, <2>4 DEF Sound, Importable
<1> QED BY <1>1, <1>2, <1>3 DEF SoundTrees

LEMMA BootHoldsNext == ASSUME Base, BootHolds, [Next]_vars PROVE BootHolds'
<1> USE DEF Base
<1>1. CASE UNCHANGED vars
  BY <1>1 DEF BootHolds, SoundTrees, Installed, Listed, vars, files, tables, process
<1>2. CASE BootMutex
  <2>1. /\ phase = "mutex" /\ phase' = "up" /\ op' = op /\ op = Idle
        /\ UNCHANGED <<grafts, mods, path>>
        /\ edit' = IF Cardinality(edit) = 1 THEN edit ELSE {Incubator}
    BY <1>2 DEF BootMutex, Boot, IInv, OperationHolds
  <2>2. Cardinality({Incubator}) = 1
    BY FS_Singleton
  <2>3. SoundTrees'
    BY <2>1 DEF BootHolds, SoundTrees, Installed, Listed
  <2> QED BY <2>1, <2>2, <2>3 DEF BootHolds
<1>3. ASSUME ~fresh', ~UNCHANGED vars, ~BootMutex PROVE BootHolds'
  <2>1. CASE phase' = "load"
    <3>1. ~Serve /\ ~Users /\ ~Proceed /\ ~Restart
      BY <2>1, WhenUp DEF Restart
    <3>2. BootSweep
      BY <1>3, <2>1, <3>1 DEF Next, BootStep, BootGraft, BootLoad, Boot
    <3>3. mods' = mods /\ grafts' = [s \in Slugs |-> IF s \in Installed THEN grafts[s] ELSE None]
      BY <3>2 DEF BootSweep
    <3> QED BY <1>3, <2>1, <3>3 DEF BootHolds, Installed, Listed
  <2>2. CASE phase' = "mutex"
    <3>1. ~Serve /\ ~Users /\ ~Proceed /\ ~Restart
      BY <2>2, WhenUp DEF Restart
    <3>2. BootLoad
      BY <1>3, <2>2, <3>1 DEF Next, BootStep, BootGraft, BootSweep, Boot
    <3> QED BY <1>3, <2>2, <3>2, BootLoadSound DEF BootHolds
  <2> QED BY <1>3, <2>1, <2>2 DEF BootHolds
<1> QED BY <1>1, <1>2, <1>3, FreshStep

(* A boot leaves every genome that says INSTALLED and has a tree with the  *)
(* tree that was installed, which imports and is on sys.path, or marks it  *)
(* BROKEN, whatever a crash has torn, an upgrade has left half done or a   *)
(* user has edited; there is no tree without a row; and one genome takes   *)
(* the edits.  It says nothing of a genome whose tree is gone: such a one  *)
(* keeps its INSTALLED.                                                    *)
THEOREM BootsLeaveSound == Spec => []BootLeavesSound
<1>1. Init => BootHolds
  BY DEF Init, BootHolds
<1>2. Base /\ BootHolds /\ [Next]_vars => BootHolds'
  BY BootHoldsNext
<1>3. BootHolds => BootLeavesSound
  BY DEF BootHolds, BootLeavesSound, SoundTrees
<1> QED BY <1>1, <1>2, <1>3, BaseInvariant, PTL DEF Spec

-----------------------------------------------------------------------------
(* The rows of others. *)

LEMMA DoomedFacts ==
  ASSUME NEW S \in SUBSET Existing, NEW T \in SUBSET Existing, S \subseteq T
  PROVE  S \subseteq Doomed(S) /\ Doomed(S) \subseteq Doomed(T)
BY DEF Doomed

(* What an upgrade has looked at holds until it commits.                   *)
CommitHolds ==
  op.kind = "commit" => NoCollision(op.archive, mods[op.slug].genome, Without(Dropped))

LEMMA CommitHoldsNext == ASSUME Base, CommitHolds, [Next]_vars PROVE CommitHolds'
<1> SUFFICES ASSUME op'.kind = "commit" PROVE CommitHolds'
  BY DEF CommitHolds
<1>1. CASE UpgradeSwap
  <2>1. /\ op.kind = "swap" /\ UNCHANGED <<rows, mods>> /\ op'.slug = op.slug /\ op'.archive = op.archive
        /\ NoCollision(op.archive, mods[op.slug].genome, Without(Dropped))
    BY <1>1, CommitShape DEF UpgradeSwap, Continue, tables, Base, IInv, TypeOK
  <2>2. Dropped' = Dropped
    BY <2>1 DEF Dropped, Own, Existing
  <2>3. Without(Dropped)' = Without(Dropped)
    BY <2>1, <2>2 DEF Without, Doomed, Cascades, Existing
  <2> QED BY <2>1, <2>3 DEF CommitHolds, NoCollision
<1>2. CASE op' = op /\ UNCHANGED <<rows, mods>>
  <2>1. Dropped' = Dropped
    BY <1>2 DEF Dropped, Own, Existing
  <2>2. Without(Dropped)' = Without(Dropped)
    BY <1>2, <2>1 DEF Without, Doomed, Cascades, Existing
  <2> QED BY <1>2, <2>2 DEF CommitHolds, NoCollision
<1>3. ASSUME ~UpgradeSwap PROVE op' = op /\ UNCHANGED <<rows, mods>>
  <2>1. ~Serve
    <3>1. op' # Idle /\ op'.kind \notin {"regraft", "unpack", "save", "register", "swap"}
      BY OperationShapes
    <3>2. ASSUME NEW s \in Slugs, Uninstall(s) PROVE FALSE
      BY <3>1, <3>2, UninstallFrame DEF Base
    <3> QED BY <3>1, <3>2, ServeFrame
  <2>2. ~Proceed
    <3>1. InstallCopy => op'.kind = "load"
      BY LoadShape DEF InstallCopy, Continue, Base, IInv, TypeOK
    <3>2. InstallBegin => op'.kind # "commit"
      BY InstallBeginMods DEF Idle, Base
    <3>3. SaveBegin => op'.kind = "pack"
      BY DEF SaveBegin
    <3> QED BY <1>3, <3>1, <3>2, <3>3 DEF Proceed, InstallLoad, InstallFailed, Regraft, UpgradeRefused,
         UpgradeCommit, UpgradeFailed, SaveRefused, Pack, Register, Idle
  <2>3. ~Restart
    BY DEF Restart, Idle
  <2>4. ~BootStep
    BY DEF BootStep, BootGraft, BootSweep, BootLoad, BootMutex, Boot, Base, IInv, OperationHolds, Idle
  <2>5. Users => op' = op /\ UNCHANGED <<rows, mods>>
    <3>1. op' # Idle
      BY OperationShapes
    <3> QED BY <3>1 DEF Users, CreateRow, Reparent, Relink, MoveRow, SelectForEdit, EditTree,
     PlaceArchive, tables
  <2> QED BY <2>1, <2>2, <2>3, <2>4, <2>5 DEF Next, vars, tables
<1> QED BY <1>1, <1>2, <1>3

(* What a step may do to a row that exists.                                *)
Touched(p) ==
  \/ \E s \in Slugs :
       LET doomed == Doomed(Own(mods[s].genome))
       IN  Subject(s) /\ (p \in doomed \/ OnlyLoosened(p, doomed))
  \/ /\ op = Idle /\ op' = Idle /\ rows'[p] # None
     /\ rows'[p].genome = rows[p].genome \/ HandedOver(p)

(* The actions that change rows.                                           *)
LEMMA RowsStep ==
  ASSUME Base, [Next]_vars, rows' # rows
  PROVE  \/ InstallLoad \/ UpgradeCommit
         \/ \E s \in Slugs : Uninstall(s)
         \/ \E p \in Pks : \/ \E data \in NewData : CreateRow(p, data)
                           \/ Relink(p) \/ Reparent(p) \/ \E s \in Slugs : MoveRow(p, s)
<1>1. Serve => \E s \in Slugs : Uninstall(s)
  BY ServeFrame
<1>2. Proceed => InstallLoad \/ UpgradeCommit
  BY DEF Proceed, InstallBegin, InstallCopy, InstallFailed, Regraft, UpgradeSwap, UpgradeRefused,
     UpgradeFailed, SaveBegin, SaveRefused, Pack, Register, tables
<1>3. Users => \E p \in Pks : \/ \E data \in NewData : CreateRow(p, data)
                              \/ Relink(p) \/ Reparent(p) \/ \E s \in Slugs : MoveRow(p, s)
  BY DEF Users, SelectForEdit, EditTree, PlaceArchive, tables, NewData
<1>4. ~Restart /\ ~BootStep /\ ~UNCHANGED vars
  BY DEF Restart, BootStep, BootGraft, BootSweep, BootLoad, BootMutex, Boot, tables, vars
<1> QED BY <1>1, <1>2, <1>3, <1>4 DEF Next

(* A row that only loses loose keys to some that go.                       *)
LEMMA LoosenedFacts ==
  ASSUME Base, NEW p \in Existing, NEW S \in SUBSET Existing, NEW T \in SUBSET Existing,
         S \subseteq T, p \notin Doomed(S), rows'[p] = Without(S)[p]
  PROVE  OnlyLoosened(p, Doomed(T))
<1>1. rows[p] \in OwnedRow /\ rows'[p] = Unlinked(rows[p], Doomed(S))
  BY WithoutFacts DEF Base, IInv, TypeOK, Existing
<1>2. Doomed(S) \subseteq Doomed(T)
  BY DoomedFacts
<1>3. /\ rows'[p] # None /\ rows'[p].genome = rows[p].genome /\ rows'[p].refs = rows[p].refs
      /\ rows'[p].loose = rows[p].loose \ Doomed(S)
  BY <1>1, UnlinkedFacts
<1> QED BY <1>2, <1>3 DEF OnlyLoosened

LEMMA UninstallTouched ==
  ASSUME Base, NEW s \in Slugs, Uninstall(s), NEW p \in Existing, rows'[p] # rows[p]
  PROVE  Touched(p)
<1> USE DEF Base
<1> DEFINE own == Own(mods[s].genome)
<1>1. rows' = Without(own) /\ mods[s] # None
      /\ \/ mods'[s] = None
         \/ mods'[s] = Emptied(mods[s]) /\ op'.kind = "regraft"
  <2>1. rows' = Without(own) /\ mods[s] # None
    BY UninstallFrame, NoneAssumption
  <2>2. \/ mods' = [mods EXCEPT ![s] = None]
        \/ op'.kind = "regraft" /\ s = Incubator /\ WritesRow(Incubator, Emptied(mods[Incubator]))
    BY <2>1, UninstallFrame
  <2> QED BY <2>1, <2>2 DEF WritesRow, IInv, TypeOK
<1>2. own \in SUBSET Existing
  BY DEF Own
<1>3. p \in Doomed(own) \/ OnlyLoosened(p, Doomed(own))
  BY <1>1, <1>2, LoosenedFacts
<1>4. mods[s] \in Modifier => Emptied(mods[s]).hash = None
  BY DEF Emptied, Modifier
<1>5. Subject(s)
  BY <1>1, <1>4 DEF Subject, Idle, IInv, TypeOK
<1> QED BY <1>3, <1>5 DEF Touched

(* The genome of a request that loads or upgrades is what it is about.     *)
LEMMA SubjectFacts ==
  ASSUME Base, InstallLoad \/ UpgradeCommit
  PROVE  op.slug \in Slugs /\ Subject(op.slug) /\ op.archive \in Archive
BY RowFacts, NoneAssumption
   DEF InstallLoad, UpgradeCommit, Continue, NeedsRow, WithArchive, Subject, Idle, Base

LEMMA LoadTouched ==
  ASSUME Base, InstallLoad, NEW p \in Existing, rows'[p] # rows[p]
  PROVE  Touched(p)
<1> DEFINE own == Own(mods[op.slug].genome)
<1>1. /\ rows' = Stamped(op.archive, mods[op.slug].genome, rows)
      /\ NoCollision(op.archive, mods[op.slug].genome, rows)
  BY DEF InstallLoad
<1>2. p \in own
  BY <1>1 DEF Stamped, NoCollision, Own, Existing
<1>3. own \in SUBSET Existing
  BY DEF Own
<1>4. p \in Doomed(own)
  BY <1>2, <1>3, DoomedFacts
<1> QED BY <1>4, SubjectFacts DEF Touched

LEMMA UpgradeTouched ==
  ASSUME Base, CommitHolds, UpgradeCommit, NEW p \in Existing, rows'[p] # rows[p]
  PROVE  Touched(p)
<1> DEFINE g == mods[op.slug].genome
           own == Own(g)
<1>1. /\ rows' = Stamped(op.archive, g, Without(Dropped))
      /\ NoCollision(op.archive, g, Without(Dropped))
  BY DEF UpgradeCommit, Upgraded, Continue, CommitHolds
<1>2. Dropped \subseteq own /\ own \in SUBSET Existing /\ Dropped \in SUBSET Existing
  BY DEF Dropped, Own
<1>3. own \subseteq Doomed(own) /\ Doomed(Dropped) \subseteq Doomed(own)
  BY <1>2, DoomedFacts
<1>4. p \in Pks /\ rows[p] \in OwnedRow
  BY DEF Existing, Base, IInv, TypeOK
<1>5. p \in Doomed(own) \/ OnlyLoosened(p, Doomed(own))
  <2>1. CASE p \in Doomed(Dropped)
    BY <1>3, <2>1
  <2>2. CASE p \notin Doomed(Dropped) /\ p \in Holds(op.archive.rows)
    <3>1. Without(Dropped)[p] = Unlinked(rows[p], Doomed(Dropped))
      BY <2>2, WithoutFacts DEF Base, IInv, TypeOK
    <3>2. Without(Dropped)[p] # None /\ Without(Dropped)[p].genome = rows[p].genome
      BY <1>4, <3>1, UnlinkedFacts
    <3>3. rows[p].genome = g
      BY <1>1, <2>2, <3>2 DEF NoCollision
    <3> QED BY <1>3, <3>3 DEF Own
  <2>3. CASE p \notin Doomed(Dropped) /\ p \notin Holds(op.archive.rows)
    <3>1. rows'[p] = Without(Dropped)[p]
      BY <1>1, <1>4, <2>3 DEF Stamped
    <3> QED BY <1>2, <2>3, <3>1, LoosenedFacts
  <2> QED BY <2>1, <2>2, <2>3
<1> QED BY <1>5, SubjectFacts DEF Touched

LEMMA MoveTouched ==
  ASSUME Base, NEW q \in Pks, NEW s \in Slugs, MoveRow(q, s), NEW p \in Existing, rows'[p] # rows[p]
  PROVE  Touched(p)
<1> DEFINE new(r) == [rows[r] EXCEPT !.genome = mods[s].genome]
<1>1. /\ op = Idle /\ op' = Idle /\ q \in Existing /\ rows[q].genome # Canonical
      /\ Moved(q) \subseteq Existing /\ q \in Moved(q)
      /\ rows' = [r \in Pks |-> IF r \in Moved(q) THEN new(r) ELSE rows[r]]
      /\ mods[s].genome \in Genomes
  BY MoveRowFacts DEF Base
<1>2. \A r \in Existing : r \in Pks /\ rows[r] \in OwnedRow
  BY DEF Base, IInv, TypeOK, Existing
<1>3. ASSUME NEW r \in Existing
      PROVE  /\ new(r) # None /\ new(r).genome = mods[s].genome
             /\ new(r).refs = rows[r].refs /\ new(r).loose = rows[r].loose
  <2>1. new(r) \in OwnedRow
    BY <1>1, <1>2 DEF OwnedRow
  <2>2. /\ new(r).genome = mods[s].genome
        /\ new(r).refs = rows[r].refs /\ new(r).loose = rows[r].loose
    BY <1>2 DEF OwnedRow
  <2> QED BY <2>1, <2>2, NoneAssumption
<1> HIDE DEF new
<1>4. p \in Moved(q) /\ rows'[p] = new(p) /\ rows'[q] = new(q)
  BY <1>1, <1>2
<1>5. HandedOver(p)
  BY <1>1, <1>3, <1>4 DEF HandedOver
<1> QED BY <1>1, <1>3, <1>4, <1>5 DEF Touched

LEMMA TouchedStep ==
  ASSUME Base, CommitHolds, [Next]_vars, NEW p \in Pks, rows[p] # None, rows'[p] # rows[p]
  PROVE  Touched(p)
<1>1. p \in Existing /\ rows \in [Pks -> OwnedRow \cup {None}]
  BY DEF Existing, Base, IInv, TypeOK
<1>2. ASSUME NEW q \in Pks, NEW data \in NewData, CreateRow(q, data) PROVE FALSE
  <2>1. rows[q] = None /\ rows' = [rows EXCEPT ![q] = Owned(mods[EditedSlug].genome, data)]
    BY <1>2 DEF CreateRow, EditedSlug, UnusedPks
  <2> QED BY <1>1, <2>1
<1>3. ASSUME NEW q \in Pks, Reparent(q) \/ Relink(q) PROVE Touched(p)
  <2>1. Rekeyed(q)
    BY <1>3, RekeyedFacts DEF Base
  <2>2. PICK row \in OwnedRow : rows' = [rows EXCEPT ![q] = row] /\ row.genome = rows[q].genome
    BY <2>1 DEF Rekeyed
  <2>3. q = p /\ rows'[p] = row /\ row # None /\ op = Idle /\ op' = Idle
    BY <1>1, <2>1, <2>2, NoneAssumption DEF Rekeyed
  <2> QED BY <2>2, <2>3 DEF Touched
<1> QED BY <1>1, <1>2, <1>3, RowsStep, UninstallTouched, LoadTouched, UpgradeTouched, MoveTouched

(* Whatever is installed, upgraded or uninstalled, no row of the core, of  *)
(* the workspace or of another genome changes, but those with a hard key   *)
(* to a row that goes, and the loose keys to it: an upgrade commits        *)
(* against the rows it has looked at.  A row changes hands when a user     *)
(* moves it, or the row it is a part of, and in no other way.              *)
THEOREM OthersKeepTheirRows == Spec => OthersUntouched
<1>1. Init => CommitHolds
  BY DEF Init, CommitHolds, Idle
<1>2. Base /\ CommitHolds /\ [Next]_vars => CommitHolds'
  BY CommitHoldsNext
<1>3. Base /\ CommitHolds /\ [Next]_vars =>
        [\A p \in Pks : rows[p] # None /\ rows'[p] # rows[p] => Touched(p)]_vars
  BY TouchedStep
<1>4. [\A p \in Pks : rows[p] # None /\ rows'[p] # rows[p] => Touched(p)]_vars =>
        [\A p \in Pks : rows[p] # None /\ rows'[p] # rows[p] =>
           \/ \E s \in Slugs :
                LET doomed == Doomed(Own(mods[s].genome))
                IN  Subject(s) /\ (p \in doomed \/ OnlyLoosened(p, doomed))
           \/ /\ op = Idle /\ op' = Idle /\ rows'[p] # None
              /\ rows'[p].genome = rows[p].genome \/ HandedOver(p)]_vars
  BY DEF Touched
<1> QED BY <1>1, <1>2, <1>3, <1>4, BaseInvariant, PTL DEF Spec, OthersUntouched

-----------------------------------------------------------------------------
(* What save-as forges. *)

(* What a genome whose archive is gone says of its origin: nothing, since  *)
(* what has been forged has its archive as long as it has its row.         *)
ForgedHolds ==
  /\ \A s \in Slugs : mods[s] # None /\ zips[s] = None =>
       /\ mods[s].json # None => mods[s].json.from = None
       /\ grafts[s] # None /\ grafts[s].manifest # None => grafts[s].manifest.from = None
  /\ op.kind = "register" => mods[op.slug] = None /\ grafts[op.slug].manifest.from = None
  /\ op.kind = "pack" => zips[op.slug] # None \/ op.manifest.from = None

(* A tree without an archive is what it was, but for the name.             *)
LEMMA TreeOriginStep ==
  ASSUME Base, IInv', [Next]_vars, NEW s \in Slugs, zips[s] = None, mods[s] # None,
         grafts'[s] # None, grafts'[s].manifest # None
  PROVE  /\ grafts[s] # None /\ grafts[s].manifest # None
         /\ grafts'[s].manifest.from = grafts[s].manifest.from
<1> USE DEF Base
<1>1. s # Incubator
  BY DEF IInv, ShelvesHold
<1>2. op.kind \in WithArchive => op.slug # s
  BY OperationFacts, NoneAssumption DEF IInv, TypeOK, OperationHolds
<1>3. CASE grafts'[s] = grafts[s]
  BY <1>3
<1>4. CASE Restart /\ grafts'[s] # grafts[s]
  <2>1. PICK t \in Slugs : \E tree \in Torn(t) : grafts' = [grafts EXCEPT ![t] = tree]
    BY <1>4 DEF Restart
  <2>2. t = s /\ grafts'[s] \in Torn(s)
    BY <1>4, <2>1 DEF IInv, TypeOK
  <2>3. grafts[s] # None /\ grafts'[s].manifest \in {None, grafts[s].manifest}
    BY <1>1, <1>2, <2>2, TornFacts
  <2> QED BY <2>3
<1>5. ASSUME NEW p \in Pks, NEW t \in Slugs, MoveRow(p, t)
      PROVE  grafts[s] # None /\ grafts'[s].manifest = grafts[s].manifest
  <2>1. MoveMedia(p, t) /\ rows[p].genome # mods[t].genome
    BY <1>5, MoveRowFacts
  <2>2. /\ grafts[s] # None => grafts'[s] # None /\ grafts'[s].manifest = grafts[s].manifest
        /\ grafts[s] = None => grafts'[s] = None \/ grafts'[s].manifest = None
    BY <2>1, MoveMediaFacts
  <2> QED BY <2>2
<1>6. ASSUME grafts'[s] # grafts[s], ~Restart, ~\E p \in Pks, t \in Slugs : MoveRow(p, t)
      PROVE  EditMetadata(s) \/ \E code \in {"absent", "bad"} : EditTree(s, code)
  <2>1. ASSUME NEW t \in Slugs, Plants(t)
        PROVE  t = s /\ (EditMetadata(s) \/ \E code \in {"absent", "bad"} : EditTree(s, code))
    <3>1. t = s
      BY <1>6, <2>1, PlantedFacts
    <3>2. ~CreateEmpty(s)
      BY DEF CreateEmpty, CreateEmptyGenome, Listed
    <3>3. InstallCopy \/ UpgradeSwap => op.kind \in WithArchive
      BY DEF InstallCopy, UpgradeSwap, Continue, WithArchive
    <3> QED BY <1>1, <1>2, <2>1, <3>1, <3>2, <3>3 DEF Plants
  <2>2. ~InstallFailed
    <3>1. InstallFailed => op.slug \in Slugs /\ op.slug # s /\ grafts' = [grafts EXCEPT ![op.slug] = None]
      BY <1>2, OperationFacts DEF InstallFailed, Continue, WithArchive, IInv, TypeOK
    <3> QED BY <1>6, <3>1 DEF IInv, TypeOK
  <2>3. ~BootSweep
    BY <1>6 DEF BootSweep
  <2> QED BY <1>6, <2>1, <2>2, <2>3, TreesStep
<1>7. CASE EditMetadata(s)
  <2>1. grafts' = [grafts EXCEPT ![s] = Edited(grafts[s])] /\ grafts[s] # None
        /\ grafts[s].manifest # None
    BY <1>7 DEF EditMetadata, EditGenomeMetadata, Edited
  <2>2. grafts[s] \in GraftTree /\ grafts'[s] = Edited(grafts[s])
    BY <2>1 DEF IInv, TypeOK
  <2> QED BY <2>1, <2>2, EditedFacts
<1>8. ASSUME NEW code \in {"absent", "bad"}, EditTree(s, code)
      PROVE  grafts[s] # None /\ grafts'[s].manifest = grafts[s].manifest
  <2>1. grafts' = [grafts EXCEPT ![s] = EditedTree(grafts[s], code)] /\ grafts[s] # None
    BY <1>8 DEF EditTree, EditedTree
  <2>2. grafts[s] \in GraftTree /\ grafts'[s] = EditedTree(grafts[s], code)
    BY <2>1 DEF IInv, TypeOK
  <2> QED BY <2>1, <2>2, EditedTreeFacts
<1> QED BY <1>3, <1>6, <1>7, <1>8, <1>4, <1>5

(* Nor does the row learn of an archive that is not there.                 *)
LEMMA JsonStep ==
  ASSUME Base, [Next]_vars, NEW s \in Slugs, zips[s] = None, mods'[s] # None, mods'[s].json # None
  PROVE  \/ mods[s] # None /\ mods'[s].json = mods[s].json
         \/ SaveBegin /\ op.slug = s /\ mods'[s].json = Next1(ManifestOf(s))
         \/ Register /\ op.slug = s /\ mods'[s].json = grafts[s].manifest
<1> USE DEF Base
<1>1. s # Incubator
  BY DEF IInv, ShelvesHold
<1>2. op.kind \in WithArchive => op.slug # s
  BY OperationFacts, NoneAssumption DEF IInv, TypeOK, OperationHolds
<1>3. CASE mods'[s] = mods[s]
  BY <1>3
<1> SUFFICES ASSUME mods'[s] # mods[s] PROVE
         \/ mods[s] # None /\ mods'[s].json = mods[s].json
         \/ SaveBegin /\ op.slug = s /\ mods'[s].json = Next1(ManifestOf(s))
         \/ Register /\ op.slug = s /\ mods'[s].json = grafts[s].manifest
  BY <1>3
<1>4. ~UNCHANGED vars /\ ~Users /\ ~Restart
  BY ModsUnchanged DEF vars, tables
<1>5. ~Serve
  <2>1. ASSUME NEW t \in Slugs, Uninstall(t) PROVE FALSE
    <3>1. mods' = mods \/ mods' = [mods EXCEPT ![t] = None] \/ WritesRow(Incubator, Emptied(mods[Incubator]))
      BY <2>1, UninstallFrame
    <3> QED BY <1>1, <3>1 DEF WritesRow, IInv, TypeOK
  <2> QED BY <2>1, ServeFrame
<1>6. ~InstallBegin /\ ~InstallLoad /\ ~UpgradeCommit /\ ~InstallFailed
  <2>1. InstallBegin \/ InstallLoad \/ UpgradeCommit \/ InstallFailed => op.slug # s /\ op.slug \in Slugs
    BY <1>2, OperationFacts DEF InstallBegin, InstallLoad, UpgradeCommit, InstallFailed, Continue,
       WithArchive, IInv, TypeOK
  <2>2. ~InstallBegin
    BY <2>1, InstallBeginMods DEF WritesRow
  <2>3. ~InstallLoad /\ ~UpgradeCommit
    BY <2>1, WrittenMods DEF WritesRow
  <2>4. ~InstallFailed
    BY <2>1 DEF InstallFailed, IInv, TypeOK
  <2> QED BY <2>2, <2>3, <2>4
<1>7. ~Regraft /\ ~BootGraft
  BY <1>1, WrittenMods DEF WritesRow
<1>8. CASE BootLoad
  <2>1. mods[s] \in Modifier /\ mods'[s] = Flagged(mods[s])
    BY <1>8, BootLoadMods DEF Installed, Listed, IInv, TypeOK
  <2>2. Flagged(mods[s]).json = mods[s].json
    BY <2>1 DEF Flagged, Modifier
  <2> QED BY <2>1, <2>2, NoneAssumption
<1>9. CASE SaveBegin
  <2>1. op.slug = s /\ mods'[s] = Saving(mods[s], Next1(ManifestOf(s))) /\ mods[s] \in Modifier
    BY <1>9, WrittenMods, ManifestFacts DEF WritesRow, SaveBegin, Continue
  <2>2. mods'[s].json = Next1(ManifestOf(s))
    BY <2>1 DEF Saving, Modifier
  <2> QED BY <1>9, <2>1, <2>2
<1>10. CASE Register
  <2>1. op.slug = s /\ mods'[s] = Created(grafts[s].manifest)
    BY <1>10, WrittenMods DEF WritesRow
  <2>2. mods'[s].json = grafts[s].manifest
    BY <2>1 DEF Created
  <2> QED BY <1>10, <2>1, <2>2
<1>11. Proceed => SaveBegin \/ Register
  BY <1>6, <1>7, ModsUnchanged DEF Proceed
<1>12. BootStep => BootLoad
  BY <1>7, ModsUnchanged DEF BootStep
<1> QED BY <1>4, <1>5, <1>8, <1>9, <1>10, <1>11, <1>12 DEF Next

(* Where a save, and the row of a new genome, come from.                   *)
LEMMA PackStep ==
  ASSUME Base, [Next]_vars
  PROVE  /\ op'.kind = "pack" =>
              \/ op' = op
              \/ /\ SaveBegin /\ op.kind = "save" /\ op'.slug = op.slug /\ op.slug \in Slugs
                 /\ op'.manifest = Next1(ManifestOf(op.slug)) /\ mods[op.slug] # None
                 /\ ManifestOf(op.slug) \in Manifest
         /\ op'.kind = "register" =>
              \/ op' = op /\ mods' = mods
              \/ \E s \in Slugs : /\ mods[s] = None /\ mods' = mods /\ op'.slug = s
                                  /\ grafts'[s].manifest.from = None
<1> USE DEF Base
<1>1. ASSUME op'.kind \in {"pack", "register"}
      PROVE  /\ ~Restart /\ ~BootStep
             /\ Proceed => SaveBegin
             /\ Users => op' = op /\ mods' = mods
             /\ \A s \in Slugs : ~Uninstall(s)
  <2>1. ~Restart
    BY <1>1 DEF Restart, Idle
  <2>2. ~BootStep
    BY <1>1 DEF BootStep, BootGraft, BootSweep, BootLoad, BootMutex, Boot, IInv, OperationHolds, Idle
  <2>3. InstallCopy => op'.kind = "load"
    BY LoadShape DEF InstallCopy, Continue, IInv, TypeOK
  <2>4. UpgradeSwap => op'.kind = "commit"
    BY CommitShape DEF UpgradeSwap, Continue, IInv, TypeOK
  <2>5. InstallBegin => op'.kind \notin {"pack", "register"}
    BY InstallBeginMods DEF Idle
  <2>6. Proceed => SaveBegin
    BY <1>1, <2>3, <2>4, <2>5 DEF Proceed, InstallLoad, InstallFailed, Regraft, UpgradeRefused,
       UpgradeCommit, UpgradeFailed, SaveRefused, Pack, Register, Idle
  <2>7. Users => op' = op
    BY DEF Users, CreateRow, Reparent, Relink, MoveRow, SelectForEdit, EditTree,
     PlaceArchive
  <2>8. ASSUME NEW s \in Slugs, Uninstall(s) PROVE FALSE
    <3>1. op' = Idle \/ op'.kind = "regraft"
      BY <2>8, UninstallFrame
    <3> QED BY <1>1, <3>1, OperationShapes
  <2> QED BY <2>1, <2>2, <2>6, <2>7, <2>8, ModsUnchanged
<1>2. UNCHANGED vars => op' = op /\ mods' = mods
  BY DEF vars, tables
<1>3. ASSUME op'.kind = "pack" PROVE op' = op \/ SaveBegin
  <2>1. Serve => op' = op
    BY <1>1, <1>3, ServeFrame
  <2> QED BY <1>1, <1>2, <1>3, <2>1 DEF Next
<1>4. ASSUME SaveBegin
      PROVE  /\ op.kind = "save" /\ op'.kind = "pack" /\ op'.slug = op.slug /\ op.slug \in Slugs
             /\ op'.manifest = Next1(ManifestOf(op.slug)) /\ mods[op.slug] # None
             /\ ManifestOf(op.slug) \in Manifest
  BY <1>4, ManifestFacts, NoneAssumption DEF SaveBegin, Continue, Next1
<1>5. ASSUME op'.kind = "register", Serve
      PROVE  \E s \in Slugs : CreateEmpty(s)
  <2>1. \A s \in Slugs : ~Uninstall(s)
    BY <1>1, <1>5
  <2>2. op' # Idle /\ op = Idle
    BY <1>5, <2>1, ServeFrame, OperationShapes
  <2>3. \A a \in Uploads : ~UploadInstall(a)
    BY <1>5 DEF UploadInstall, Unpack
  <2>4. \A s \in Slugs : /\ ~SlugInstall(s) /\ ~CatalogInstall(s) /\ ~CatalogDelete(s) /\ ~Save(s)
                         /\ ~EditMetadata(s) /\ \A allowSame \in BOOLEAN : ~Upgrade(s, allowSame)
    <3> SUFFICES ASSUME NEW s \in Slugs
                 PROVE  /\ ~SlugInstall(s) /\ ~CatalogInstall(s) /\ ~CatalogDelete(s) /\ ~Save(s)
                        /\ ~EditMetadata(s) /\ \A allowSame \in BOOLEAN : ~Upgrade(s, allowSame)
      OBVIOUS
    <3>1. ~SlugInstall(s) /\ ~CatalogInstall(s)
      BY <1>5 DEF CatalogInstall, SlugInstall, Unpack
    <3>2. ~CatalogDelete(s)
      BY <2>2 DEF CatalogDelete
    <3>3. ~Save(s)
      BY <1>5 DEF Save
    <3>4. ~EditMetadata(s)
      BY <1>5 DEF EditMetadata, EditGenomeMetadata
    <3>5. \A allowSame \in BOOLEAN : ~Upgrade(s, allowSame)
      BY <1>5 DEF Upgrade
    <3> QED BY <3>1, <3>2, <3>3, <3>4, <3>5
  <2>5. \A s, src \in Slugs : ~SaveAs(src, s)
    <3>1. \A s, src \in Slugs : SaveAs(src, s) => \E a : Unpack(a)
      BY DEF SaveAs, SaveAsGenome
    <3>2. \A a : Unpack(a) => op'.kind = "unpack"
      BY DEF Unpack
    <3> QED BY <1>5, <3>1, <3>2
  <2> QED BY <1>5, <2>1, <2>3, <2>4, <2>5 DEF Serve
<1>6. ASSUME NEW s \in Slugs, CreateEmpty(s)
      PROVE  mods[s] = None /\ mods' = mods /\ op'.slug = s /\ grafts'[s].manifest.from = None
  <2>1. mods[s] = None /\ mods' = mods /\ op'.slug = s
        /\ grafts' = [grafts EXCEPT ![s] =
             [manifest |-> NewManifest(Minted, FALSE, None), code |-> "absent", media |-> {}]]
    BY <1>6 DEF CreateEmpty, CreateEmptyGenome, Listed, tables
  <2>2. NewManifest(Minted, FALSE, None).from = None
    BY DEF NewManifest
  <2> QED BY <2>1, <2>2 DEF IInv, TypeOK
<1> QED BY <1>1, <1>2, <1>3, <1>4, <1>5, <1>6 DEF Next
LEMMA ForgedHoldsNext == ASSUME Base, IInv', ForgedHolds, [Next]_vars PROVE ForgedHolds'
<1> USE DEF Base
<1>1. \A m \in Manifest : Next1(m).from = m.from
  BY DEF Next1, Manifest
<1>2. ASSUME NEW s \in Slugs, mods'[s] # None, zips'[s] = None
      PROVE  zips[s] = None
  <2>1. PackedArchive # None \/ ~Pack
    BY PackedArchiveFacts DEF Pack, Continue
  <2>2. \A a \in Uploads : a # None
    BY ArchivesAssumption, NoneAssumption
  <2>3. ASSUME NEW src \in Slugs, SaveAs(src, s)
        PROVE  Forged(src, s, Own(mods[src].genome)) # None
    BY <2>3, ForgedFacts, NoneAssumption
  <2> QED BY <1>2, <2>1, <2>2, <2>3, CatalogStep
<1>3. ASSUME NEW s \in Slugs, mods[s] # None, zips[s] = None, ManifestOf(s) \in Manifest
      PROVE  ManifestOf(s).from = None
  BY <1>3, NoneAssumption DEF ManifestOf, ForgedHolds
<1>4. ASSUME NEW s \in Slugs, mods'[s] # None, zips'[s] = None, mods'[s].json # None
      PROVE  mods'[s].json.from = None
  <2>1. zips[s] = None
    BY <1>2, <1>4
  <2>2. CASE SaveBegin /\ op.slug = s /\ mods'[s].json = Next1(ManifestOf(s))
    <3>1. mods[s] # None /\ ManifestOf(s) \in Manifest
      BY <2>2, ManifestFacts, NoneAssumption DEF SaveBegin, Continue
    <3> QED BY <1>1, <1>3, <2>1, <2>2, <3>1
  <2>3. CASE Register /\ op.slug = s /\ mods'[s].json = grafts[s].manifest
    BY <2>3 DEF Register, Continue, ForgedHolds
  <2>4. CASE mods[s] # None /\ mods'[s].json = mods[s].json
    BY <1>4, <2>1, <2>4 DEF ForgedHolds
  <2> QED BY <1>4, <2>1, <2>2, <2>3, <2>4, JsonStep
<1>5. ASSUME NEW s \in Slugs, mods'[s] # None, zips'[s] = None, grafts'[s] # None,
             grafts'[s].manifest # None
      PROVE  grafts'[s].manifest.from = None
  <2>1. zips[s] = None
    BY <1>2, <1>5
  <2>2. CASE mods[s] # None
    BY <1>5, <2>1, <2>2, TreeOriginStep DEF ForgedHolds
  <2>3. CASE mods[s] = None
    <3>1. mods'[s].json # None
      BY <1>5, <2>3 DEF IInv, ShelvesHold
    <3>2. SaveBegin => mods[op.slug] # None
      BY ManifestFacts, NoneAssumption DEF SaveBegin, Continue
    <3>3. Register /\ op.slug = s
      BY <1>5, <2>1, <2>3, <3>1, <3>2, JsonStep
    <3> QED BY <3>3 DEF Register, Continue, files, ForgedHolds
  <2> QED BY <2>2, <2>3
<1>6. ASSUME op'.kind = "register"
      PROVE  mods'[op'.slug] = None /\ grafts'[op'.slug].manifest.from = None
  <2>1. CASE op' = op /\ mods' = mods
    <3> DEFINE s == op.slug
    <3>1. s \in Slugs /\ mods[s] = None /\ grafts[s] # None /\ grafts[s].manifest.from = None
      BY <1>6, <2>1, OperationFacts DEF ForgedHolds, IInv, TypeOK, OperationHolds, Idle
    <3>2. CASE grafts'[s] = grafts[s]
      BY <2>1, <3>1, <3>2
    <3>3. ASSUME grafts'[s] # grafts[s] PROVE grafts'[s].manifest = grafts[s].manifest
      <4>2. ~Restart /\ ~BootSweep /\ ~InstallFailed
        BY <1>6, <2>1 DEF Restart, BootSweep, Boot, InstallFailed, Idle, IInv, OperationHolds
      <4>1. \A p \in Pks, t \in Slugs : ~MoveRow(p, t)
        <5>1. op # Idle
          BY <1>6, <2>1 DEF Idle
        <5> QED BY <5>1, MoveRowFacts
      <4>3. Plants(s)
        BY <3>1, <3>3, <4>1, <4>2, TreesStep, PlantedFacts
      <4>4. ~EditMetadata(s) /\ ~CreateEmpty(s)
        BY <1>6, <2>1, <3>1 DEF EditMetadata, CreateEmpty, Request, Idle
      <4>5. ~InstallCopy /\ ~UpgradeSwap /\ ~Regraft /\ ~BootGraft
        BY <1>6, <2>1 DEF InstallCopy, UpgradeSwap, Regraft, Continue, BootGraft, Boot, Idle, IInv,
           OperationHolds
      <4>6. PICK code \in {"absent", "bad"} : EditTree(s, code)
        BY <4>3, <4>4, <4>5 DEF Plants
      <4>7. grafts[s] \in GraftTree /\ grafts'[s] = EditedTree(grafts[s], code)
        BY <3>1, <4>6 DEF EditTree, EditedTree, IInv, TypeOK
      <4> QED BY <4>7, EditedTreeFacts
    <3> QED BY <2>1, <3>1, <3>2, <3>3
  <2> QED BY <1>6, <2>1, PackStep
<1>7. ASSUME op'.kind = "pack"
      PROVE  zips'[op'.slug] # None \/ op'.manifest.from = None
  <2>1. CASE op' = op
    <3> DEFINE s == op.slug
    <3>1. s \in Slugs /\ mods[s] # None /\ (zips[s] # None \/ op.manifest.from = None)
      BY <1>7, <2>1, OperationFacts DEF ForgedHolds, IInv, TypeOK, OperationHolds, NeedsRow, Idle
    <3>2. mods'[s] # None
      BY <1>7, <2>1 DEF IInv, OperationHolds, NeedsRow
    <3>3. zips'[s] = None => zips[s] = None
      BY <1>2, <3>1, <3>2
    <3> QED BY <2>1, <3>1, <3>3
  <2>2. CASE /\ SaveBegin /\ op'.slug = op.slug /\ op.slug \in Slugs
             /\ op'.manifest = Next1(ManifestOf(op.slug)) /\ mods[op.slug] # None
             /\ ManifestOf(op.slug) \in Manifest
    <3>1. zips' = zips
      BY <2>2 DEF SaveBegin, files
    <3> QED BY <1>1, <1>3, <2>2, <3>1
  <2> QED BY <1>7, <2>1, <2>2, PackStep
<1> QED BY <1>4, <1>5, <1>6, <1>7 DEF ForgedHolds

LEMMA ClonesStep ==
  ASSUME Base, ForgedHolds, [Next]_vars, NEW s \in Slugs,
         zips[s] = None, zips'[s] # None, zips'[s].manifest.from # None,
         NEW own, own = Own(mods[zips'[s].manifest.from].genome)
  PROVE  /\ Cardinality(Holds(zips'[s].rows)) = Cardinality(own)
         /\ \A p \in Holds(zips'[s].rows) :
              rows[p] = None /\ (zips'[s].rows[p].refs \cup zips'[s].rows[p].loose) \cap own = {}
<1>1. zips'[s] \notin Uploads
  BY ArchivesAssumption
<1>2. ~(Pack /\ op.slug = s /\ zips'[s] = PackedArchive)
  BY PackedArchiveFacts DEF Pack, Continue, Base, ForgedHolds
<1>3. PICK src \in Slugs : SaveAs(src, s) /\ zips'[s] = Forged(src, s, Own(mods[src].genome))
  BY <1>1, <1>2, CatalogStep
<1>4. zips'[s].manifest.from = src
  BY <1>3, ForgedFacts DEF Base
<1>5. own = Own(mods[src].genome)
  BY <1>4
<1> DEFINE data == zips'[s].rows
<1>6. data = Remapped(own, Renaming(own))
  BY SMTT(30), <1>3, <1>5, ForgedFacts DEF Base
<1>7. (\E f \in [own -> UnusedPks] : Renames(own, f)) /\ own \subseteq Existing
  BY <1>3, <1>5 DEF SaveAs, SaveAsGenome, Own
<1>8. rows \in [Pks -> OwnedRow \cup {None}]
  BY DEF Base, IInv, TypeOK
<1> HIDE DEF data
<1>9. /\ Cardinality(Holds(data)) = Cardinality(own)
      /\ \A p \in Holds(data) :
           p \in UnusedPks /\ (data[p].refs \cup data[p].loose) \cap own = {}
  <2>1. own \in SUBSET Existing
    BY <1>7
  <2> QED BY SMTT(30), <1>6, <1>7, <1>8, <2>1, RemappedFacts, Zenon
<1>10. \A p \in UnusedPks : rows[p] = None
  BY DEF UnusedPks
<1> QED BY <1>9, <1>10 DEF data

(* What save-as forges is a whole copy that shares nothing with its        *)
(* source, whatever has been saved, moved, dropped or torn before.  Only   *)
(* save-as makes such an archive: a save never puts one where none was.    *)
THEOREM ClonesStandAlone == Spec => ClonesApart
<1>1. Init => ForgedHolds
  BY ArchivesAssumption DEF Init, ForgedHolds, Idle
<1>2. Base /\ ForgedHolds /\ [Next]_vars => ForgedHolds'
  BY NextIInv, ForgedHoldsNext
<1>3. Base /\ ForgedHolds /\ [Next]_vars =>
        [\A s \in Slugs : zips[s] = None /\ zips'[s] # None /\ zips'[s].manifest.from # None =>
           LET own  == Own(mods[zips'[s].manifest.from].genome)
               data == zips'[s].rows
           IN  /\ Cardinality(Holds(data)) = Cardinality(own)
               /\ \A p \in Holds(data) :
                    rows[p] = None /\ (data[p].refs \cup data[p].loose) \cap own = {}]_vars
  BY ClonesStep
<1> QED BY <1>1, <1>2, <1>3, BaseInvariant, PTL DEF Spec, ClonesApart

=============================================================================
