---------------------------- MODULE BlueprintRequests ----------------------------
(***************************************************************************)
(* The blueprints of one computer: their launches (BlueprintLaunch, whose  *)
(* variables are this module's own), beside their additions and removals   *)
(* and the installations of models (BlueprintCatalog).                     *)
(*                                                                         *)
(* A launch reads the catalog and starts the context engine as an addition *)
(* does, and otherwise shares nothing with it: a launched blueprint need   *)
(* not be added, and the models it declares are installed on first use.    *)
(***************************************************************************)
EXTENDS BlueprintLaunch

CONSTANTS
  Tasks, Blueprints, Models, Nodes, Here, Nobody   \* BlueprintCatalog

ASSUME CatalogAssumption == Here \in Nodes /\ Nobody \notin Tasks \cup Nodes \cup Blueprints \cup Models

VARIABLES record, archived, owners, manual, placed, registry, route, task, superseded, prepared

Catalog == INSTANCE BlueprintCatalog

catalog == <<record, archived, owners, manual, placed, registry, route, task, superseded, prepared>>

BlueprintVars == <<vars, catalog>>

BlueprintInit == Init /\ Catalog!Init

BlueprintNext ==
  \/ Next /\ UNCHANGED catalog
  \/ Catalog!Next /\ UNCHANGED vars

BlueprintSpec == BlueprintInit /\ [][BlueprintNext]_BlueprintVars

-----------------------------------------------------------------------------
(* Properties of the catalog, by the names its module gives them *)

\* Completed additions are on record or archived (BlueprintCatalog).
AdditionsAreKept == Catalog!AdditionsAreKept

\* Removals leave the models of other blueprints alone (BlueprintCatalog).
ClaimedModelsStay == Catalog!ClaimedModelsStay

\* Installed models are routed to a computer that has held them (BlueprintCatalog).
InstalledIsRouted == Catalog!InstalledIsRouted
=============================================================================
