------------------------------ MODULE MCGoods ------------------------------
(***************************************************************************)
(* Stock, purchases and the catalogue on small instances.  Here they share   *)
(* nothing that changes: a behaviour is that of one of them (part), and the   *)
(* variables of the others stay as in the beginning or, for the catalogue,     *)
(* are off.                                                                     *)
(***************************************************************************)
EXTENDS Inventory, Purchasing

CONSTANTS
  off,
  a1, a2, u1, u2, t1, t2, c1, c2, b1, d1, d2 \* the catalogue

VARIABLES
  part,
  product, barcode, units, taxes, default, parent, desk, screen, overtaken, now

catalogVars ==
  <<product, barcode, units, taxes, default, parent, desk, screen, overtaken, now>>

(* The office edits the catalogue one request after the other: two products in  *)
(* a tree of categories, or one in several units and at several tax rates ..    *)
Listing == INSTANCE Catalog WITH
  Products <- {a1, a2}, UnitRows <- {u1}, Taxes <- {t1}, Categories <- {c1, c2}, Barcodes <- {b1},
  Desks <- {d1}, Overlap <- FALSE, Files <- {{a1, a2}}, MaxProducts <- 2, MaxEdits <- 2, LastTime <- 2

Pricing == INSTANCE Catalog WITH
  Products <- {a1}, UnitRows <- {u1, u2}, Taxes <- {t1, t2}, Categories <- {}, Barcodes <- {b1},
  Desks <- {d1}, Overlap <- FALSE, Files <- {{a1}}, MaxProducts <- 1, MaxEdits <- 2, LastTime <- 2

(* .. or two requests at a time, while a till downloads                        *)
Downloading == INSTANCE Catalog WITH
  Products <- {a1}, UnitRows <- {u1}, Taxes <- {t1}, Categories <- {}, Barcodes <- {},
  Desks <- {d1, d2}, Overlap <- TRUE, Files <- {}, MaxProducts <- 1, MaxEdits <- 2, LastTime <- 5

-----------------------------------------------------------------------------
CatalogOff ==
  /\ product = off /\ barcode = off /\ units = off /\ taxes = off /\ default = off
  /\ parent = off /\ desk = off /\ screen = off /\ overtaken = off /\ now = off

GoodsInit ==
  /\ Init /\ PurchasesInit
  /\ \/ part = "stock" /\ CatalogOff
     \/ part = "purchases" /\ CatalogOff
     \/ part = "listing" /\ Listing!Init
     \/ part = "pricing" /\ Pricing!Init
     \/ part = "downloading" /\ Downloading!Init

GoodsNext ==
  \/ part = "stock" /\ Next /\ UNCHANGED <<part, purchaseVars, catalogVars>>
  \/ part = "purchases" /\ PurchasesNext /\ UNCHANGED <<part, vars, catalogVars>>
  \/ part = "listing" /\ Listing!Next /\ UNCHANGED <<part, vars, purchaseVars>>
  \/ part = "pricing" /\ Pricing!Next /\ UNCHANGED <<part, vars, purchaseVars>>
  \/ part = "downloading" /\ Downloading!Next /\ UNCHANGED <<part, vars, purchaseVars>>

GoodsSpec == GoodsInit /\ [][GoodsNext]_<<part, vars, purchaseVars, catalogVars>>

-----------------------------------------------------------------------------
(* The catalogue refers to what is there, and a till misses only what was under *)
(* way while it downloaded                                                      *)
CatalogKept ==
  /\ part = "listing" => Listing!TypeOK /\ Listing!CatalogSound
  /\ part = "pricing" => Pricing!TypeOK /\ Pricing!CatalogSound
  /\ part = "downloading" => Downloading!TypeOK /\ Downloading!MissedWasUnderWay
=============================================================================
