SPECIFICATION Spec
CONSTANTS
  v1 = v1
  v2 = v2
  Venues = {v1, v2}
  Unmapped = {v2}
  SpecialVenues = {v2}
  Courts = {1, 2, 3}
  HoursPerDay = 6
  Opening = 1
  Closing = 5
  Timetables <- MCTimetables
  MaxPlaces = 2
  NoPrice = NoPrice
  Tariff <- MCTariff
  SearchDates <- MCSearchDates
  FlatPrice = 9
  VenueKeys <- MCVenueKeys
  NamesWithin <- MCNamesWithin
  Crawlers <- MCCrawlers
  DefaultPrice = 7
  MaxEvents = 1
  MaxFaults = 1
INVARIANTS
  TypeOK
  NothingInvented
  CourtsCounted
  NothingHidden
  BlanksAreStoredRows
  EstimatesAreGrounded
CHECK_DEADLOCK FALSE
