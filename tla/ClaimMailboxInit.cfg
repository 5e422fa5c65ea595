CONSTANTS
    root1 = root1
    root2 = root2
    user = user
    Task = {root1, root2, user}
    uid <- MCuid
    Prob = {2, 3}
SPECIFICATION Spec
PROPERTY InitSucceeds
