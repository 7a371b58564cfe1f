----------------------------- MODULE MCFrontend -----------------------------
(* Frontend for TLC.                                                       *)
EXTENDS Frontend
CONSTANTS x, y, m1, m2

MCThings   == {x, y}
MCMachines == {m1, m2}

(* Lines without a container, without a duration, and with the duration 0. *)
MCKinds ==
  {[container |-> Missing, ms |-> 1], [container |-> 1, ms |-> Missing],
   [container |-> 1, ms |-> 0]}

Op(op)           == [op |-> op]
By(op, field)    == [op |-> op, field |-> field]
Cut(op, n)       == [op |-> op, n |-> n]
Where(field, n)  == [op |-> "where", field |-> field, n |-> n]

(* The shapes of the presets of the view, and their combinations.          *)
MCQueries ==
  {<<By("count", "container")>>,
   <<Cut("filter", 1), By("count", "ms"), Cut("limit", 1)>>,
   <<Op("extract"), By("count", "ms")>>,
   <<Op("extract"), Where("ms", 1), Op("sort"), Cut("limit", 1), By("count", "ms")>>,
   <<Op("extract"), By("sum", "container"), Op("sort"), Where("count", 2)>>,
   <<Where("container", 0), Op("extract"), By("sum", "ms"), Op("sort")>>,
   <<Op("sort"), Cut("limit", 2), By("count", "container"), Cut("filter", 1)>>,
   <<By("count", "container"), Op("extract"), By("count", "ms"), Where("ms", 1)>>}
=============================================================================
