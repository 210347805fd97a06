\* Two addresses, one name, scripts that work, fail and do not compile.
SPECIFICATION Spec
CONSTANTS
    Addresses = {1, 2}
    Names = {x}
    Scripts = {"good", "syntax", "error"}
    MaxObjects = 3
    MaxScripts = 2
    MaxPipe = 3
INVARIANTS TypeOK OwnScript SoleOwner OwnOutlet
\* Every object and script is made and nothing is left to call.
CHECK_DEADLOCK FALSE
