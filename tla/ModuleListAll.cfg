SPECIFICATION Spec
CONSTANTS
    base = base
    web = web
    crm = crm
    Module <- MCModule
    Lists <- AllLists
    MaxEdits = 2
INVARIANTS TypeOK ListFunctionsMeetReference BatchIsNew
PROPERTY BatchAppendedOnce
