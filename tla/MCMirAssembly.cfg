SPECIFICATION Spec
CONSTANT Worlds <- MCWorlds
INVARIANTS WaitingKeepPlace RewrittenAsMeant
