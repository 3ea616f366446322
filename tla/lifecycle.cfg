SPECIFICATION Spec
CONSTANT
  Drivers = {"watchdog", "rtc", "adc", "mmap", "echo", "version", "scull", "cp0",
             "keys", "pwm", "leds", "completion"}
INVARIANTS NothingLeftBehind GivesBackOwn UserFindsResources
