------------------------------ MODULE Catalog ------------------------------
(***************************************************************************)
(* The catalogue of a company (ProductsService, CatalogSettingsService and   *)
(* ProductsImportService) and its download to a till                         *)
(* (PosService.bootstrapDevice).  An edit checks what it refers to, then     *)
(* writes in a transaction; the download asks for what changed since the     *)
(* server's time of the one before, by the time stamp of the row.            *)
(***************************************************************************)
EXTENDS Integers, FiniteSets

CONSTANTS
  Products, UnitRows, Taxes, Categories, Barcodes,
  Desks,       \* requests of the office
  Overlap,     \* may one begin before another has ended
  Files,       \* sets of products that an import brings
  MaxProducts, \* max_products of the plan
  MaxEdits,    \* bound: versions of a product
  LastTime     \* bound: the clock

None == "none"
Never == -1

VARIABLES
  product,   \* products with their product_units
  barcode,   \* product_barcodes: the product and the unit it stands for
  units,     \* units that are not removed
  taxes,     \* tax_rates that are not removed
  default,   \* the ones with isDefault
  parent,    \* product_categories that are not removed: parentId
  desk,      \* each request: at which statement, what it is about to write
  screen,    \* the till's copy of the versions, its `since`, and the download it is in
  overtaken, \* history: changes (product, time stamp) not committed yet when a download took the time
  now

vars == <<product, barcode, units, taxes, default, parent, desk, screen, overtaken, now>>

ProductRow == [status : {"none", "active", "deleted"}, base : UnitRows, units : SUBSET UnitRows, tax : Taxes,
               category : Categories \cup {None}, version : 0 .. MaxEdits, updatedAt : Never .. LastTime]
NoProduct(u, t) == [status |-> "none", base |-> u, units |-> {}, tax |-> t, category |-> None,
                    version |-> 0, updatedAt |-> Never]
Free == [of |-> None, unit |-> None]
Idle == [at |-> "none"]
NotDownloaded == [at |-> "none", since |-> Never, time |-> Never, copy |-> [p \in Products |-> 0],
                  read |-> [p \in Products |-> 0]]

(* ensureDefaults has made the units and the tax rates                         *)
Init ==
  /\ \E u \in UnitRows, t \in Taxes :
       /\ product = [p \in Products |-> NoProduct(u, t)]
       /\ default = {t}
  /\ barcode = [b \in Barcodes |-> Free]
  /\ units = UnitRows /\ taxes = Taxes
  /\ parent = [c \in {} |-> None]
  /\ desk = [r \in Desks |-> Idle]
  /\ screen = NotDownloaded
  /\ overtaken = {}
  /\ now = 0

At(r, where) == desk[r].at = where
MayBegin == Overlap \/ \A r \in Desks : At(r, "none")
Start(r, step) == At(r, "none") /\ MayBegin /\ desk' = [desk EXCEPT ![r] = step]
Finish(r) == desk' = [desk EXCEPT ![r] = Idle]
Active == {p \in Products : product[p].status = "active"}
OthersUnchanged == UNCHANGED <<screen, overtaken, now>>
SettingsUnchanged == UNCHANGED <<units, taxes, default, parent>>

-----------------------------------------------------------------------------
(* assertReferences, assertUnitsValid and assertBarcodeUnits                    *)
References(row) ==
  /\ row.base \in units /\ row.units \subseteq units \ {row.base}
  /\ row.tax \in taxes
  /\ row.category \in DOMAIN parent \cup {None}

BarcodeUnits(row, codes) == \A b \in DOMAIN codes : codes[b] \in {None, row.base} \cup row.units

(* slip: the barcodes that stay are not checked against the new units          *)
(* (CatalogSound)                                                              *)
BeginUpdateUnchecked(r, p, row, codes) ==
  /\ p \in Active /\ References(row)
  /\ Start(r, [at |-> "write", of |-> p, row |-> row, codes |-> codes])
  /\ UNCHANGED <<product, barcode>> /\ SettingsUnchanged /\ OthersUnchanged

BeginUpdate(r, p, row, codes) ==
  /\ p \in Active /\ References(row) /\ BarcodeUnits(row, codes)
  /\ Start(r, [at |-> "write", of |-> p, row |-> row, codes |-> codes])
  /\ UNCHANGED <<product, barcode>> /\ SettingsUnchanged /\ OthersUnchanged

BeginCreate(r, p, row, codes) ==
  /\ product[p].status = "none" /\ Cardinality(Active) < MaxProducts
  /\ References(row) /\ BarcodeUnits(row, codes)
  /\ Start(r, [at |-> "write", of |-> p, row |-> row, codes |-> codes])
  /\ UNCHANGED <<product, barcode>> /\ SettingsUnchanged /\ OthersUnchanged

(* The transaction takes its time stamp before it commits                       *)
StampProduct(r) ==
  /\ At(r, "write") /\ now < LastTime
  /\ desk' = [desk EXCEPT ![r] = [at |-> "commit", of |-> @.of, row |-> @.row, codes |-> @.codes, stamp |-> now]]
  /\ now' = now + 1
  /\ UNCHANGED <<product, barcode, screen, overtaken>> /\ SettingsUnchanged

(* .. a barcode of another product refuses it, and rolls it back                *)
CommitProduct(r) ==
  /\ At(r, "commit")
  /\ LET p == desk[r].of
         codes == desk[r].codes
     IN  \/ /\ \A b \in DOMAIN codes : barcode[b].of \in {None, p}
            /\ product[p].version < MaxEdits
            /\ product' = [product EXCEPT ![p] =
                 [desk[r].row EXCEPT !.status = IF @ = "deleted" THEN @ ELSE "active",
                                     !.version = product[p].version + 1, !.updatedAt = desk[r].stamp]]
            /\ barcode' = [b \in Barcodes |->
                 IF b \in DOMAIN codes THEN [of |-> p, unit |-> codes[b]]
                 ELSE IF barcode[b].of = p THEN Free ELSE barcode[b]]
         \/ /\ \E b \in DOMAIN codes : barcode[b].of \notin {None, p}
            /\ UNCHANGED <<product, barcode>>
  /\ Finish(r)
  /\ SettingsUnchanged /\ OthersUnchanged

(* remove: the barcodes are free again, the row stays for old documents        *)
StartRemove(r, p) ==
  /\ p \in Active /\ now < LastTime
  /\ Start(r, [at |-> "remove", of |-> p, stamp |-> now])
  /\ now' = now + 1
  /\ UNCHANGED <<product, barcode, screen, overtaken>> /\ SettingsUnchanged

CommitRemove(r) ==
  /\ At(r, "remove")
  /\ LET p == desk[r].of
     IN  /\ product[p].version < MaxEdits
         /\ product' = [product EXCEPT ![p].status = "deleted", ![p].version = @ + 1, ![p].updatedAt = desk[r].stamp]
         /\ barcode' = [b \in Barcodes |-> IF barcode[b].of = p THEN Free ELSE barcode[b]]
  /\ Finish(r)
  /\ SettingsUnchanged /\ OthersUnchanged

(* ProductsImportService.import: the plan is asked once for the whole file,     *)
(* then each product is created on its own, and one that fails stops no other   *)
BeginImport(r, file) ==
  /\ LET new == {p \in file : product[p].status = "none"}
     IN  /\ new # {} /\ Cardinality(Active) + Cardinality(new) <= MaxProducts
         /\ Start(r, [at |-> "import", todo |-> new])
  /\ UNCHANGED <<product, barcode>> /\ SettingsUnchanged /\ OthersUnchanged

ImportItem(r) ==
  /\ At(r, "import")
  /\ \E p \in desk[r].todo, u \in units, t \in default, b \in Barcodes :
       /\ IF barcode[b].of = None /\ product[p].status = "none" /\ now < LastTime
          THEN /\ product' = [product EXCEPT ![p] =
                    [status |-> "active", base |-> u, units |-> {}, tax |-> t, category |-> None,
                     version |-> 1, updatedAt |-> now]]
               /\ barcode' = [barcode EXCEPT ![b] = [of |-> p, unit |-> None]]
               /\ now' = now + 1
          ELSE UNCHANGED <<product, barcode, now>>
       /\ desk' = [desk EXCEPT ![r] = IF @.todo = {p} THEN Idle ELSE [@ EXCEPT !.todo = @ \ {p}]]
  /\ UNCHANGED <<screen, overtaken>> /\ SettingsUnchanged

-----------------------------------------------------------------------------
(* slip: only the base units of products are looked at (CatalogSound) *)
UnitFreeOfBase(u) == \A p \in Active : product[p].base # u

UnitFree(u) == \A p \in Active : product[p].base # u /\ u \notin product[p].units

RemoveUnit(u) ==
  /\ MayBegin
  /\ u \in units /\ UnitFree(u)
  /\ units' = units \ {u}
  /\ UNCHANGED <<product, barcode, taxes, default, parent, desk>> /\ OthersUnchanged

CreateUnit(u) ==
  /\ MayBegin
  /\ u \notin units
  /\ units' = units \cup {u}
  /\ UNCHANGED <<product, barcode, taxes, default, parent, desk>> /\ OthersUnchanged

(* A new default takes the place of the one before *)
SaveTaxRate(t, isDefault) ==
  /\ MayBegin
  /\ taxes' = taxes \cup {t}
  /\ default' = IF isDefault THEN {t} ELSE default \ {t}
  /\ UNCHANGED <<product, barcode, units, parent, desk>> /\ OthersUnchanged

RemoveTaxRate(t) ==
  /\ MayBegin
  /\ t \in taxes /\ \A p \in Active : product[p].tax # t
  /\ taxes' = taxes \ {t} /\ default' = default \ {t}
  /\ UNCHANGED <<product, barcode, units, parent, desk>> /\ OthersUnchanged

(* assertNotDescendant walks up from the new parent                            *)
Above(c) ==
  LET up[n \in 0 .. Cardinality(DOMAIN parent)] ==
        IF n = 0 THEN {c} ELSE up[n - 1] \cup {parent[x] : x \in up[n - 1] \ {None}}
  IN  up[Cardinality(DOMAIN parent)]

SaveCategory(c, under) ==
  /\ MayBegin
  /\ under \in DOMAIN parent \cup {None}
  /\ c \in DOMAIN parent /\ under # None => c \notin Above(under)
  /\ c # under
  /\ parent' = [x \in DOMAIN parent \cup {c} |-> IF x = c THEN under ELSE parent[x]]
  /\ UNCHANGED <<product, barcode, units, taxes, default, desk>> /\ OthersUnchanged

RemoveCategory(c) ==
  /\ MayBegin
  /\ c \in DOMAIN parent
  /\ \A x \in DOMAIN parent : parent[x] # c
  /\ \A p \in Active : product[p].category # c
  /\ parent' = [x \in DOMAIN parent \ {c} |-> parent[x]]
  /\ UNCHANGED <<product, barcode, units, taxes, default, desk>> /\ OthersUnchanged

-----------------------------------------------------------------------------
(* slip: the server's time is taken with the answer (MissedWasUnderWay)         *)
StartDownloadLate ==
  /\ screen.at = "none"
  /\ screen' = [screen EXCEPT !.at = "read", !.time = LastTime]
  /\ UNCHANGED <<product, barcode, desk, overtaken, now>> /\ SettingsUnchanged

(* bootstrapDevice takes the server's time first ..                            *)
StartDownload ==
  /\ screen.at = "none" /\ now < LastTime
  /\ screen' = [screen EXCEPT !.at = "read", !.time = now]
  /\ now' = now + 1
  /\ overtaken' = overtaken \cup {<<desk[r].of, desk[r].stamp>> : r \in {q \in Desks : desk[q].at \in {"commit", "remove"}}}
  /\ UNCHANGED <<product, barcode, desk>> /\ SettingsUnchanged

(* .. findChangedSince reads, without a time all that is not removed ..         *)
ReadChanged ==
  /\ screen.at = "read"
  /\ screen' = [screen EXCEPT !.at = "answer", !.read =
       [p \in Products |->
          IF screen.since = Never
          THEN IF p \in Active THEN product[p].version ELSE 0
          ELSE IF product[p].updatedAt > screen.since THEN product[p].version ELSE screen.copy[p]]]
  /\ UNCHANGED <<product, barcode, desk, overtaken, now>> /\ SettingsUnchanged

(* .. and the screen asks from that time on the next time                       *)
Downloaded ==
  /\ screen.at = "answer"
  /\ screen' = [screen EXCEPT !.at = "none", !.copy = screen.read, !.since = screen.time]
  /\ UNCHANGED <<product, barcode, desk, overtaken, now>> /\ SettingsUnchanged

LoseDownload ==
  /\ screen.at = "answer"
  /\ screen' = [screen EXCEPT !.at = "none"]
  /\ UNCHANGED <<product, barcode, desk, overtaken, now>> /\ SettingsUnchanged

Rows(p) == {[product[p] EXCEPT !.base = u, !.units = us, !.tax = t, !.category = c] :
              u \in units, us \in SUBSET units, t \in taxes, c \in DOMAIN parent \cup {None}}
Codes == UNION {[bs -> UnitRows \cup {None}] : bs \in SUBSET Barcodes}

Next ==
  \/ \E r \in Desks :
       \/ \E p \in Products :
            \/ \E row \in Rows(p), codes \in Codes : BeginCreate(r, p, row, codes) \/ BeginUpdate(r, p, row, codes)
            \/ StartRemove(r, p)
       \/ StampProduct(r) \/ CommitProduct(r) \/ CommitRemove(r)
       \/ (\E file \in Files : BeginImport(r, file)) \/ ImportItem(r)
  \/ \E u \in UnitRows : RemoveUnit(u) \/ CreateUnit(u)
  \/ \E t \in Taxes : (\E isDefault \in BOOLEAN : SaveTaxRate(t, isDefault)) \/ RemoveTaxRate(t)
  \/ \E c \in Categories : (\E under \in Categories \cup {None} : SaveCategory(c, under)) \/ RemoveCategory(c)
  \/ StartDownload \/ ReadChanged \/ Downloaded \/ LoseDownload

Spec == Init /\ [][Next]_vars

-----------------------------------------------------------------------------
(* The rows of the table: ProductsService writes no other *)
TypeOK == product \in [Products -> ProductRow]

Missed(p) ==
  /\ screen.at = "none" /\ product[p].status = "active"
  /\ product[p].updatedAt <= screen.since
  /\ screen.copy[p] # product[p].version

(* A change that no download will bring to the till any more was under way      *)
(* when the last one took the time: it had its time stamp and was not committed *)
(* yet.  Any other change is in this download or in the next.                   *)
MissedWasUnderWay ==
  \A p \in Products : Missed(p) => <<p, product[p].updatedAt>> \in overtaken

(* What a product refers to is there, its barcodes stand for units it is sold   *)
(* in, a removed product holds none, no category is below itself, and one tax   *)
(* rate at most is the default, whatever is edited, imported and removed by one *)
(* request after the other (without Overlap: requests check, then write).       *)
CatalogSound ==
  /\ \A p \in Active : References(product[p])
  /\ \A b \in Barcodes :
       barcode[b].of # None =>
         LET row == product[barcode[b].of]
         IN  row.status = "active" /\ barcode[b].unit \in {None, row.base} \cup row.units
  /\ \A c \in DOMAIN parent : c \notin {parent[x] : x \in (Above(c) \ {None}) \cap DOMAIN parent}
  /\ Cardinality(default) <= 1
=============================================================================
