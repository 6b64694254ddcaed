SPECIFICATION Spec
CONSTANT Flags = {"nanobox_tangerine", "mpx_looper", "mpx_drums"}
INVARIANTS TypeOK SnapshotHeld
PROPERTIES ImplementsStore SaveRestarts
