------------------------- MODULE MCInventoryService -------------------------
(* InventoryService with one required and one optional source.             *)
EXTENDS InventoryService

CONSTANTS uuid, meta, uuidField, metaField

MCSources == {uuid, meta}
MCRequired == {uuid}
MCFields == {uuidField, metaField}
MCOmissible == {metaField}
MCOwner == [f \in MCFields |-> IF f = uuidField THEN uuid ELSE meta]
=============================================================================
