SPECIFICATION Spec
CONSTANTS
    Threads = {handler, monitor}
    Idle = idle
INVARIANT GlobalOrder
