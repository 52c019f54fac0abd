CONSTANTS
  outage = outage
  host = host
  Incidents <- AppIncident
  ServerIncidents <- NoServerIncident
  Routes <- MailOrDigest
  Changes <- AllButTheSwitch
  MaxRetries = 2
  MaxRows = 2
  MaxFaults = 1
SPECIFICATION LiveSpec
PROPERTIES
  DigestArrives
  QueuedSettles
