SPECIFICATION Spec
CONSTANTS
    adapter = adapter
    p1 = p1
    p2 = p2
    Proc = {adapter, p1, p2}
    Adapter = adapter
    Deployer = Deployer
    Free = Free
    Verbs <- AutomaticVerbs
PROPERTIES
    PushesNeverStack
