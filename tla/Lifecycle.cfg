\* Objects of all ten classes.
CONSTANTS
    Objects = {o1, o2}
    Topics = {t1, t2}
    Classes <- AllClasses
    Slots = 1
SPECIFICATION Spec
INVARIANTS NoListenerAfterFree NoLeak
PROPERTY TopicFirstNeverReleases
CHECK_DEADLOCK FALSE
