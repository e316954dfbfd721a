CONSTANTS
    a = a  b = b  disk = disk  spare = spare
    Pod = {a, b}
    Volume = {disk, spare}
    Blob = {"ro", "rw"}
    Mutable <- MCMutable
    Handler = {h1, h2}
    Reaper = reaper
    MaxInFlight = 2
    Scenes <- MCScenes
CHECK_DEADLOCK FALSE
SPECIFICATION Spec
INVARIANT MappingsOwned
