SPECIFICATION Spec
CONSTANTS
    Pressers = {p1}
    Callers = {c1}
    Fragile = {p1}
    Watchdog = watchdog
    Nobody = nobody
    ConfirmTicks = 2
PROPERTIES LightIsHonest StashKept StopIsHonoured StaleIndicatorCorrected LossSurfaces
