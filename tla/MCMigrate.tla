------------------------------ MODULE MCMigrate ------------------------------
(* Releases for model checking Migrate: a first one, one that adds a         *)
(* migration and lists it first, one that edits the first migration's SQL,   *)
(* and one that adds a version between those already released.               *)
EXTENDS Migrate

MCMigration(v, sql) == [version |-> v, sql |-> sql]

MCReleases ==
    { <<MCMigration(1, "a")>>,
      <<MCMigration(3, "c"), MCMigration(1, "a")>>,
      <<MCMigration(1, "edited")>>,
      <<MCMigration(1, "a"), MCMigration(2, "b"), MCMigration(3, "c")>> }
=============================================================================
