----------------------------- MODULE EntitySave -----------------------------
(***************************************************************************)
(* What `repo.save(entity)` of TypeORM does to a row, for an entity that   *)
(* carries its primary key.  It SELECTs the row with that key and then     *)
(* UPDATEs the columns in which the entity differs from the selected row,  *)
(* or INSERTs the entity when the SELECT found nothing.  No version is     *)
(* compared and no lock is held between the two statements.                *)
(*                                                                         *)
(* A row and an entity are records over the same columns, None a row that  *)
(* does not exist.                                                         *)
(***************************************************************************)
CONSTANT None

\* Write to `row` the columns in which `ent` differs from `was`.
Merge(row, was, ent) ==
    [column \in DOMAIN row |->
        IF ent[column] = was[column] THEN row[column] ELSE ent[column]]

\* The row after a save of `ent` whose SELECT returned `was`.
Saved(row, was, ent) ==
    IF was = None THEN ent ELSE IF row = None THEN None ELSE Merge(row, was, ent)
=============================================================================
