\* Three applications, all callers.
CONSTANTS
  Apps <- MCApps
  Callers = {"su", "root", "user", "guest"}
  Chmods <- MCChmods
  Stores <- MCStores
  Astray <- MCAstray
SPECIFICATION Spec
INVARIANTS
  LookupExact
  LoadTrue
  RootOnly
